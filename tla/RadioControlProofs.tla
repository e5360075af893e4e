------------------------- MODULE RadioControlProofs -------------------------
(***************************************************************************)
(* Safety of RadioControl for all tables, frequencies, rates and numbers   *)
(* of calls and sessions, with a failed transfer anywhere.                 *)
(***************************************************************************)
EXTENDS RadioControl, RadioArithmeticProofs

DeviceCodes == [stage \in Stages |-> StepsOf[stage] \union {Unwritten, VhfCode}]

Hardware ==
    {h \in [mode : Modes, gpios : SUBSET Pins, flags : SUBSET Pins,
            rate : 0 .. AdcRateMax, step : [Stages -> Nat],
            loHF : Frequencies \union {0}, loVHF : Frequencies \union {0}] :
        \A stage \in Stages : h.step[stage] \in StepsOf[stage]}

Converter ==
    [bin : 0 .. HalfSize, decimation : 0 .. 6, rand : BOOLEAN, sideband : BOOLEAN]

Shift == [rest : Int, ratio : Nat, adc : Nat]

Application == [explicit : BOOLEAN, centre : Frequencies \union {0}, rate : Nat]

Device ==
    {d \in [gpio : SUBSET Pins, adc : Nat, tuner : Nat, gain : [Stages -> Nat]] :
        \A stage \in Stages : d.gain[stage] \in DeviceCodes[stage]}

History ==
    [clean : BOOLEAN, synced : BOOLEAN, warm : BOOLEAN, tuned : BOOLEAN,
     entries : 0 .. 2, calls : Nat, sessions : Nat]

\* Host and device have their types, the tuning bin turns by whole turns, and
\* the pins of the settings are those the flags say.
Sound(s) ==
    /\ s.hw \in Hardware /\ s.r2iq \in Converter /\ s.fc \in Shift
    /\ s.soapy \in Application /\ s.dev \in Device /\ s.hist \in History
    /\ WholeTurns(s.r2iq.bin)
    /\ s.hw.gpios \intersect Settings = s.hw.flags

\* What host and device agree on as long as no transfer fails.
Agreed(s) ==
    /\ s.dev.adc = s.hw.rate
    /\ s.r2iq.sideband = (s.hw.mode = "VHF")
    /\ ("VHF_EN" \in s.hw.gpios) = (s.hw.mode = "VHF")
    /\ ~s.hist.synced =>
           /\ s.hw.gpios = {}
           /\ ~s.hist.warm => "VHF_EN" \notin s.dev.gpio
    /\ s.hist.entries = 0 => s.hw.mode # "VHF" /\ s.hw.loVHF = 0
    /\ s.hist.entries <= 1 /\ s.hw.mode = "VHF" => s.dev.tuner = s.hw.loVHF

\* So do the rates once a call that sets them has returned.
RateAgreed(s) ==
    s.soapy.rate # 0 =>
        s.hw.rate = 2 * DecimationRatio[s.r2iq.decimation] * s.soapy.rate

CarrierOf(s, frequency) == IF s.hw.mode = "HF" THEN frequency ELSE IfCarrier
SignOf(s) == IF s.hw.mode = "HF" THEN 1 ELSE -1

\* What RadioHandler's SetCenterFrequency leaves behind.
TunedTo(s, frequency) ==
    /\ s.hw.mode = "VHF" => s.hw.loVHF = frequency
    /\ s.r2iq.bin = TuningBin(2 * CarrierOf(s, frequency), s.hw.rate)
    /\ s.fc = [rest |-> SignOf(s) * Rest(2 * CarrierOf(s, frequency), s.hw.rate),
               ratio |-> DecimationRatio[s.r2iq.decimation],
               adc |-> s.hw.rate]

\* And a call of SoapySDDC that tunes.
TuningDone(s) == s.soapy.centre # 0 /\ TunedTo(s, s.soapy.centre)

\* A device in use.
InUse(s) ==
    /\ s.hw.mode \in {"HF", "VHF"}
    /\ s.hw.rate # 0
    /\ s.hist.synced => s.dev.gpio = s.hw.gpios
    /\ s.hist.clean => Agreed(s) /\ RateAgreed(s)
    /\ s.hist.tuned => s.hist.clean /\ TuningDone(s)

Now == [hw |-> hw, r2iq |-> r2iq, fc |-> fc, soapy |-> soapy, dev |-> dev, hist |-> hist]

RadioInv ==
    /\ Sound(Now)
    /\ thread \in [on : BOOLEAN, decimation : 0 .. 6]
    /\ opened \in BOOLEAN
    /\ opened => InUse(Now)
    /\ ~opened /\ ~hist.warm => dev = PoweredUp

\* What a call works on.
States ==
    [hw : Hardware, r2iq : Converter, fc : Shift, soapy : Application,
     dev : Device, hist : History, ok : BOOLEAN, left : Nat, late : BOOLEAN]

-----------------------------------------------------------------------------
(* Records.                                                                *)

\* The members of RadioHardware can be set one by one.
LEMMA HardwareUpdates ==
    ASSUME NEW h \in Hardware
    PROVE  /\ \A m \in Modes : [h EXCEPT !.mode = m] \in Hardware
           /\ \A pins \in SUBSET Pins : [h EXCEPT !.gpios = pins] \in Hardware
           /\ \A flags \in SUBSET Pins : [h EXCEPT !.flags = flags] \in Hardware
           /\ \A rate \in 0 .. AdcRateMax : [h EXCEPT !.rate = rate] \in Hardware
           /\ \A f \in Frequencies \union {0} :
                  /\ [h EXCEPT !.loHF = f] \in Hardware
                  /\ [h EXCEPT !.loVHF = f] \in Hardware
  BY DEF Hardware

\* So can the stages.
LEMMA StageUpdates ==
    ASSUME NEW h \in Hardware, NEW stage \in Stages, NEW step \in StepsOf[stage]
    PROVE  [h EXCEPT !.step = [h.step EXCEPT ![stage] = step]] \in Hardware
<1>1. StepsOf[stage] = 1 .. Len(GainTable[stage])
  BY DEF StepsOf
<1>2. step \in Nat
  BY <1>1
<1>3. QED
  BY <1>2 DEF Hardware

\* And the registers of the device.
LEMMA DeviceUpdates ==
    ASSUME NEW d \in Device
    PROVE  /\ \A pins \in SUBSET Pins : [d EXCEPT !.gpio = pins] \in Device
           /\ \A n \in Nat : /\ [d EXCEPT !.adc = n] \in Device
                             /\ [d EXCEPT !.tuner = n] \in Device
           /\ \A stage \in Stages : \A code \in DeviceCodes[stage] \cap Nat :
                  [d EXCEPT !.gain = [d.gain EXCEPT ![stage] = code]] \in Device
  BY DEF Device

\* And the history.
LEMMA HistoryUpdates ==
    ASSUME NEW h \in History
    PROVE  /\ \A b \in BOOLEAN : /\ [h EXCEPT !.clean = b] \in History
                                  /\ [h EXCEPT !.synced = b] \in History
                                  /\ [h EXCEPT !.warm = b] \in History
                                  /\ [h EXCEPT !.tuned = b] \in History
           /\ \A n \in 0 .. 2 : [h EXCEPT !.entries = n] \in History
  BY DEF History

\* And the parts of a call's state.
LEMMA StateUpdates ==
    ASSUME NEW s \in States
    PROVE  /\ s.hw \in Hardware /\ s.r2iq \in Converter /\ s.fc \in Shift
           /\ s.soapy \in Application /\ s.dev \in Device /\ s.hist \in History
           /\ s.ok \in BOOLEAN /\ s.left \in Nat /\ s.late \in BOOLEAN
           /\ \A h \in Hardware : [s EXCEPT !.hw = h] \in States
           /\ \A r \in Converter : [s EXCEPT !.r2iq = r] \in States
           /\ \A x \in Shift : [s EXCEPT !.fc = x] \in States
           /\ \A a \in Application : [s EXCEPT !.soapy = a] \in States
           /\ \A d \in Device : [s EXCEPT !.dev = d] \in States
           /\ \A h \in History : [s EXCEPT !.hist = h] \in States
           /\ \A b \in BOOLEAN : [s EXCEPT !.ok = b] \in States
  BY DEF States

\* A transfer changes the device, or fails, which the history notes and
\* which may have changed the device or not.
LEMMA ControlEffect ==
    ASSUME NEW s \in States, s.ok, NEW d \in Device
    PROVE  LET t == Control(s, d) IN
           /\ t \in States
           /\ t.hw = s.hw /\ t.r2iq = s.r2iq /\ t.fc = s.fc /\ t.soapy = s.soapy
           /\ \/ t.ok /\ t.dev = d /\ t.hist = s.hist
              \/ /\ ~t.ok /\ t.dev \in {s.dev, d}
                 /\ t.hist = [s.hist EXCEPT !.clean = FALSE]
<1>1. CASE s.left > 0
  <2>1. Control(s, d) = [s EXCEPT !.dev = d, !.left = s.left - 1]
    BY <1>1 DEF Control
  <2>2. s.left - 1 \in Nat
    BY <1>1 DEF States
  <2>3. QED
    BY <2>1, <2>2 DEF States
<1>2. CASE ~(s.left > 0)
  <2> DEFINE e == IF s.late THEN d ELSE s.dev
             h == [s.hist EXCEPT !.clean = FALSE]
  <2>1. Control(s, d) = [s EXCEPT !.dev = e, !.ok = FALSE, !.hist = h]
    BY <1>2 DEF Control
  <2>2. e \in {s.dev, d} /\ e \in Device
    BY DEF States
  <2>3. h \in History
    BY StateUpdates, HistoryUpdates
  <2> HIDE DEF e, h
  <2>4. QED
    BY <2>1, <2>2, <2>3 DEF States, h
<1>3. QED
  BY <1>1, <1>2

-----------------------------------------------------------------------------
(* The setters of RadioHardware.                                           *)

\* The device has the pins of the last word that arrived.
Synced(s) == s.hist.synced => s.dev.gpio = s.hw.gpios

\* What a call that only fails by a transfer does to the history.
Noted(s, t) ==
    /\ t.hist.clean = (s.hist.clean /\ t.ok)
    /\ t.hist.warm = s.hist.warm
    /\ t.hist.tuned = s.hist.tuned

\* It leaves the converter, the mixer and SoapySDDC alone.
Below(s, t) == t.r2iq = s.r2iq /\ t.fc = s.fc /\ t.soapy = s.soapy

LEMMA WritePinsEffect ==
    ASSUME NEW s \in States, s.ok, Synced(s), NEW pins \in SUBSET Pins
    PROVE  LET t == WritePins(s, pins) IN
           /\ t \in States /\ Below(s, t) /\ Noted(s, t) /\ Synced(t)
           /\ t.hw = [s.hw EXCEPT !.gpios = pins]
           /\ t.dev.adc = s.dev.adc /\ t.dev.tuner = s.dev.tuner
           /\ t.hist.entries = s.hist.entries
           /\ t.ok => t.hist.synced \/ (t.dev = s.dev /\ t.hist = s.hist /\ pins = s.hw.gpios)
<1>1. CASE pins = s.hw.gpios
  <2>1. WritePins(s, pins) = s
    BY <1>1 DEF WritePins
  <2>2. [s.hw EXCEPT !.gpios = pins] = s.hw
    BY <1>1, StateUpdates DEF Hardware
  <2>3. s.hist \in History
    BY StateUpdates
  <2>4. QED
    BY <1>1, <2>1, <2>2, <2>3 DEF Below, Noted, History
<1>2. CASE pins # s.hw.gpios
  <2> DEFINE h == [s.hw EXCEPT !.gpios = pins]
             d == [s.dev EXCEPT !.gpio = pins]
             a == [s EXCEPT !.hw = h]
             b == Control(a, d)
             t == [b EXCEPT !.hist = [b.hist EXCEPT !.synced = b.ok]]
  <2>1. WritePins(s, pins) = t
    BY <1>2 DEF WritePins
  <2>2. h \in Hardware /\ d \in Device
    BY StateUpdates, HardwareUpdates, DeviceUpdates
  <2>3. /\ d.gpio = pins /\ d.adc = s.dev.adc /\ d.tuner = s.dev.tuner
        /\ h.gpios = pins
    BY StateUpdates DEF Device, Hardware
  <2> HIDE DEF h, d
  <2>4. /\ a \in States /\ a.ok /\ a.hw = h /\ a.r2iq = s.r2iq /\ a.fc = s.fc
        /\ a.soapy = s.soapy /\ a.dev = s.dev /\ a.hist = s.hist
    BY <2>2 DEF States
  <2> HIDE DEF a
  <2>5. /\ b \in States
        /\ b.hw = h /\ b.r2iq = s.r2iq /\ b.fc = s.fc /\ b.soapy = s.soapy
        /\ \/ b.ok /\ b.dev = d /\ b.hist = s.hist
           \/ /\ ~b.ok /\ b.dev \in {s.dev, d}
              /\ b.hist = [s.hist EXCEPT !.clean = FALSE]
    BY <2>2, <2>4, ControlEffect
  <2> HIDE DEF b
  <2>6. [b.hist EXCEPT !.synced = b.ok] \in History
    BY <2>5, StateUpdates, HistoryUpdates
  <2>7. /\ t \in States /\ t.hw = h /\ t.r2iq = s.r2iq /\ t.fc = s.fc
        /\ t.soapy = s.soapy /\ t.dev = b.dev /\ t.ok = b.ok
        /\ t.hist = [b.hist EXCEPT !.synced = b.ok]
    BY <2>5, <2>6 DEF States
  <2> HIDE DEF t
  <2>8. /\ t.hist.synced = b.ok /\ t.hist.entries = s.hist.entries
        /\ t.hist.warm = s.hist.warm /\ t.hist.tuned = s.hist.tuned
        /\ t.hist.clean = (s.hist.clean /\ b.ok)
    <3>1. s.hist \in History /\ b.hist \in History /\ b.ok \in BOOLEAN
      BY <2>5, StateUpdates
    <3>2. QED
      BY <2>5, <2>7, <3>1 DEF History
  <2>9. t.hw = [s.hw EXCEPT !.gpios = pins]
    BY <2>7 DEF h
  <2>10. QED
    BY <2>1, <2>3, <2>5, <2>7, <2>8, <2>9 DEF Below, Noted, Synced
<1>3. QED
  BY <1>1, <1>2

\* A transfer that is not about the pins.
LEMMA TransferEffect ==
    ASSUME NEW s \in States, s.ok, Synced(s),
           NEW d \in Device, d.gpio = s.dev.gpio
    PROVE  LET t == Control(s, d) IN
           /\ t \in States /\ Below(s, t) /\ Noted(s, t) /\ Synced(t)
           /\ t.hw = s.hw /\ t.dev \in {s.dev, d} /\ (t.ok => t.dev = d)
           /\ t.hist.entries = s.hist.entries /\ t.hist.synced = s.hist.synced
<1> DEFINE t == Control(s, d)
<1>1. s.hist \in History
  BY StateUpdates
<1>2. /\ t \in States
      /\ t.hw = s.hw /\ t.r2iq = s.r2iq /\ t.fc = s.fc /\ t.soapy = s.soapy
      /\ \/ t.ok /\ t.dev = d /\ t.hist = s.hist
         \/ /\ ~t.ok /\ t.dev \in {s.dev, d}
            /\ t.hist = [s.hist EXCEPT !.clean = FALSE]
  BY ControlEffect
<1> HIDE DEF t
<1>3. /\ t.hist.entries = s.hist.entries /\ t.hist.synced = s.hist.synced
      /\ Noted(s, t)
  BY <1>1, <1>2 DEF History, Noted
<1>4. QED
  BY <1>2, <1>3 DEF Below, Synced, t

\* The host's copy first, then the transfer.
LEMMA CopyAndTransferEffect ==
    ASSUME NEW s \in States, s.ok, Synced(s),
           NEW h \in Hardware, h.gpios = s.hw.gpios,
           NEW d \in Device, d.gpio = s.dev.gpio
    PROVE  LET t == Control([s EXCEPT !.hw = h], d) IN
           /\ t \in States /\ Below(s, t) /\ Noted(s, t) /\ Synced(t)
           /\ t.hw = h /\ t.dev \in {s.dev, d} /\ (t.ok => t.dev = d)
           /\ t.hist.entries = s.hist.entries /\ t.hist.synced = s.hist.synced
<1> DEFINE a == [s EXCEPT !.hw = h]
<1>1. /\ a \in States /\ a.ok /\ a.hw = h /\ a.r2iq = s.r2iq /\ a.fc = s.fc
      /\ a.soapy = s.soapy /\ a.dev = s.dev /\ a.hist = s.hist
  BY DEF States
<1> HIDE DEF a
<1>2. Synced(a)
  BY <1>1 DEF Synced
<1> DEFINE t == Control(a, d)
<1>3. /\ t \in States /\ Below(a, t) /\ Noted(a, t) /\ Synced(t)
      /\ t.hw = a.hw /\ t.dev \in {a.dev, d} /\ (t.ok => t.dev = d)
      /\ t.hist.entries = a.hist.entries /\ t.hist.synced = a.hist.synced
  BY <1>1, <1>2, TransferEffect
<1> HIDE DEF t
<1>4. Below(s, t) /\ Noted(s, t)
  BY <1>1, <1>3 DEF Below, Noted
<1>5. QED
  BY <1>1, <1>3, <1>4 DEF t, a

LEMMA SetADCSampleRateEffect ==
    ASSUME NEW s \in States, s.ok, Synced(s), NEW rate \in 0 .. AdcRateMax
    PROVE  LET t == SetADCSampleRate(s, rate) IN
           /\ t \in States /\ Below(s, t) /\ Noted(s, t) /\ Synced(t)
           /\ t.hw = [s.hw EXCEPT !.rate = rate]
           /\ t.dev.gpio = s.dev.gpio /\ t.dev.tuner = s.dev.tuner
           /\ t.hist.entries = s.hist.entries /\ t.hist.synced = s.hist.synced
           /\ t.ok /\ (s.dev.adc = s.hw.rate \/ rate # s.hw.rate) => t.dev.adc = rate
<1>1. Least(rate, AdcRateMax) = rate /\ rate \in Nat
  BY DEF Least, AdcRateMax
<1>2. CASE rate = s.hw.rate
  <2>1. SetADCSampleRate(s, rate) = s
    BY <1>2 DEF SetADCSampleRate
  <2>2. [s.hw EXCEPT !.rate = rate] = s.hw
    BY <1>2, StateUpdates DEF Hardware
  <2>3. s.hist \in History
    BY StateUpdates
  <2>4. QED
    BY <1>2, <2>1, <2>2, <2>3 DEF Below, Noted, History
<1>3. CASE rate # s.hw.rate
  <2> DEFINE h == [s.hw EXCEPT !.rate = rate]
             d == [s.dev EXCEPT !.adc = rate]
  <2>1. SetADCSampleRate(s, rate) = Control([s EXCEPT !.hw = h], d)
    BY <1>1, <1>3 DEF SetADCSampleRate
  <2>2. h \in Hardware /\ d \in Device
    BY <1>1, StateUpdates, HardwareUpdates, DeviceUpdates
  <2>3. /\ d.gpio = s.dev.gpio /\ d.adc = rate /\ d.tuner = s.dev.tuner
        /\ h.gpios = s.hw.gpios
    BY StateUpdates DEF Device, Hardware
  <2> HIDE DEF h, d
  <2> DEFINE t == Control([s EXCEPT !.hw = h], d)
  <2>4. /\ t \in States /\ Below(s, t) /\ Noted(s, t) /\ Synced(t)
        /\ t.hw = h /\ t.dev \in {s.dev, d} /\ (t.ok => t.dev = d)
        /\ t.hist.entries = s.hist.entries /\ t.hist.synced = s.hist.synced
    BY <2>2, <2>3, CopyAndTransferEffect
  <2> HIDE DEF t
  <2>5. QED
    BY <1>3, <2>1, <2>3, <2>4 DEF t, h
<1>4. QED
  BY <1>2, <1>3

LEMMA SetStageEffect ==
    ASSUME NEW s \in States, s.ok, Synced(s),
           NEW stage \in Stages, NEW step \in StepsOf[stage]
    PROVE  LET t == SetStage(s, stage, step) IN
           /\ t \in States /\ Below(s, t) /\ Noted(s, t) /\ Synced(t)
           /\ t.hw = [s.hw EXCEPT !.step = [s.hw.step EXCEPT ![stage] = step]]
           /\ t.dev.gpio = s.dev.gpio /\ t.dev.adc = s.dev.adc
           /\ t.dev.tuner = s.dev.tuner
           /\ t.hist.entries = s.hist.entries /\ t.hist.synced = s.hist.synced
<1>1. CASE step = s.hw.step[stage]
  <2>1. SetStage(s, stage, step) = s
    BY <1>1 DEF SetStage
  <2>2. s.hw \in Hardware /\ s.hist \in History
    BY StateUpdates
  <2>3. [s.hw.step EXCEPT ![stage] = step] = s.hw.step
    BY <1>1, <2>2 DEF Hardware
  <2>4. [s.hw EXCEPT !.step = s.hw.step] = s.hw
    BY <2>2 DEF Hardware
  <2>5. QED
    BY <1>1, <2>1, <2>2, <2>3, <2>4 DEF Below, Noted, History
<1>2. CASE step # s.hw.step[stage]
  <2> DEFINE h == [s.hw EXCEPT !.step = [s.hw.step EXCEPT ![stage] = step]]
             d == [s.dev EXCEPT !.gain = [s.dev.gain EXCEPT ![stage] = step]]
  <2>1. SetStage(s, stage, step) = Control([s EXCEPT !.hw = h], d)
    BY <1>2 DEF SetStage
  <2>2. h \in Hardware /\ d \in Device
    <3>1. s.hw \in Hardware /\ s.dev \in Device
      BY StateUpdates
    <3>2. step \in Nat /\ step \in DeviceCodes[stage]
      BY DEF StepsOf, DeviceCodes
    <3>3. QED
      BY <3>1, <3>2, StageUpdates, DeviceUpdates
  <2>3. /\ d.gpio = s.dev.gpio /\ d.adc = s.dev.adc /\ d.tuner = s.dev.tuner
        /\ h.gpios = s.hw.gpios
    BY StateUpdates DEF Device, Hardware
  <2> HIDE DEF h, d
  <2> DEFINE t == Control([s EXCEPT !.hw = h], d)
  <2>4. /\ t \in States /\ Below(s, t) /\ Noted(s, t) /\ Synced(t)
        /\ t.hw = h /\ t.dev \in {s.dev, d} /\ (t.ok => t.dev = d)
        /\ t.hist.entries = s.hist.entries /\ t.hist.synced = s.hist.synced
    BY <2>2, <2>3, CopyAndTransferEffect
  <2> HIDE DEF t
  <2>5. QED
    BY <2>1, <2>3, <2>4 DEF t, h
<1>3. QED
  BY <1>1, <1>2

-----------------------------------------------------------------------------
(* The modes of RX888R2Radio.                                              *)

\* Every table has a first step.
LEMMA FirstStep ==
    ASSUME NEW stage \in Stages
    PROVE  1 \in StepsOf[stage]
<1>1. IsGainTable(GainTable[stage])
  BY RadioAssumption
<1>2. Len(GainTable[stage]) \in Nat \ {0}
  BY <1>1, TableEntries
<1>3. QED
  BY <1>2 DEF StepsOf

\* TUNERINIT and TUNERSTDBY leave the pins and the ADC alone.
LEMMA TunerResetEffect ==
    ASSUME NEW d \in Device
    PROVE  /\ TunerReset(d) \in Device
           /\ TunerReset(d).gpio = d.gpio /\ TunerReset(d).adc = d.adc
           /\ TunerReset(d).tuner = 0
<1>1. Unwritten \in Nat /\ \A stage \in Stages : Unwritten \in DeviceCodes[stage]
  BY DEF Unwritten, DeviceCodes
<1>2. QED
  BY <1>1 DEF TunerReset, Device

\* What has been done on the way from s into VHF.
TowardsVHF(s, t) ==
    /\ t \in States /\ Below(s, t) /\ Noted(s, t) /\ Synced(t)
    /\ t.hw.mode = "VHF"
    /\ t.hw.flags = s.hw.flags /\ t.hw.rate = s.hw.rate
    /\ t.hw.loHF = s.hw.loHF /\ t.hw.loVHF = s.hw.loVHF
    /\ t.hw.gpios \in {s.hw.gpios, s.hw.gpios \union {"VHF_EN"}}
    /\ \A stage \in Stages :
           \/ t.hw.step[stage] = s.hw.step[stage]
           \/ stage \in {"attHF", "gainHF"} /\ t.hw.step[stage] = 1
    /\ t.dev.adc = s.dev.adc

\* Muting a stage is part of it.
LEMMA MutesTowardsVHF ==
    ASSUME NEW s \in States, NEW u, TowardsVHF(s, u), u.ok,
           NEW stage \in {"attHF", "gainHF"}
    PROVE  LET t == SetStage(u, stage, 1) IN
           /\ TowardsVHF(s, t)
           /\ t.hw.gpios = u.hw.gpios /\ t.hist.entries = u.hist.entries
<1> DEFINE t == SetStage(u, stage, 1)
<1>1. u \in States /\ Synced(u)
  BY DEF TowardsVHF
<1>2. stage \in Stages /\ 1 \in StepsOf[stage]
  BY FirstStep DEF Stages
<1>3. /\ t \in States /\ Below(u, t) /\ Noted(u, t) /\ Synced(t)
      /\ t.hw = [u.hw EXCEPT !.step = [u.hw.step EXCEPT ![stage] = 1]]
      /\ t.dev.adc = u.dev.adc
      /\ t.hist.entries = u.hist.entries
  BY <1>1, <1>2, SetStageEffect
<1> HIDE DEF t
<1>4. u.hw \in Hardware
  BY <1>1, StateUpdates
<1>5. /\ t.hw.mode = u.hw.mode /\ t.hw.flags = u.hw.flags /\ t.hw.rate = u.hw.rate
      /\ t.hw.loHF = u.hw.loHF /\ t.hw.loVHF = u.hw.loVHF
      /\ t.hw.gpios = u.hw.gpios
      /\ t.hw.step = [u.hw.step EXCEPT ![stage] = 1]
      /\ u.hw.step \in [Stages -> Nat]
  BY <1>3, <1>4 DEF Hardware
<1>6. Below(s, t) /\ Noted(s, t)
  BY <1>3 DEF TowardsVHF, Below, Noted
<1>7. QED
  BY <1>3, <1>5, <1>6 DEF TowardsVHF, t

\* SetRFMode(VHFMODE): what has changed however far it came, and what is
\* true of the device after it came to its end.
LEMMA EnterVHFEffect ==
    ASSUME NEW s \in States, s.ok, Synced(s)
    PROVE  LET t == EnterVHF(s) IN
           /\ TowardsVHF(s, t)
           /\ t.hist.entries = Least(s.hist.entries + 1, 2)
           /\ t.ok => /\ t.hw.gpios = s.hw.gpios \union {"VHF_EN"}
                      /\ t.dev.tuner = 0
                      /\ "VHF_EN" \notin s.hw.gpios => t.hist.synced
<1> DEFINE start == [s EXCEPT !.hw = [s.hw EXCEPT !.mode = "VHF"]]
           att == SetStage(start, "attHF", 1)
           vga == IfOk(att, SetStage(att, "gainHF", 1))
           antenna == IfOk(vga, SetGPIO(vga, {"VHF_EN"}))
           coded == [antenna.dev EXCEPT !.gain = [antenna.dev.gain EXCEPT !["gainHF"] = VhfCode]]
           code == IfOk(antenna, Control(antenna, coded))
           tuner == IfOk(code, Control(code, TunerReset(code.dev)))
<1>1. EnterVHF(s) = [tuner EXCEPT !.hist = [tuner.hist EXCEPT !.entries = Least(tuner.hist.entries + 1, 2)]]
  BY DEF EnterVHF
<1>2. TowardsVHF(s, start) /\ start.ok /\ start.hist.entries = s.hist.entries
      /\ start.hw.gpios = s.hw.gpios
  <2>1. s.hw \in Hardware /\ s.hist \in History
    BY StateUpdates
  <2>2. [s.hw EXCEPT !.mode = "VHF"] \in Hardware
    BY <2>1, HardwareUpdates DEF Modes
  <2>3. start \in States /\ Below(s, start) /\ Noted(s, start) /\ Synced(start)
    BY <2>1, <2>2, SMTT(30) DEF States, Below, Noted, Synced, Hardware, History
  <2>4. QED
    BY <2>1, <2>3 DEF TowardsVHF, States, Hardware
<1> HIDE DEF start
<1>3. TowardsVHF(s, att) /\ att.hist.entries = s.hist.entries /\ att.hw.gpios = s.hw.gpios
  BY <1>2, MutesTowardsVHF
<1> HIDE DEF att
<1>4. TowardsVHF(s, vga) /\ vga.hist.entries = s.hist.entries /\ vga.hw.gpios = s.hw.gpios
  BY <1>3, MutesTowardsVHF DEF IfOk
<1> HIDE DEF vga
<1>5. /\ TowardsVHF(s, antenna) /\ antenna.hist.entries = s.hist.entries
      /\ antenna.ok => /\ antenna.hw.gpios = s.hw.gpios \union {"VHF_EN"}
                       /\ "VHF_EN" \notin s.hw.gpios => antenna.hist.synced
  <2>1. CASE ~vga.ok
    BY <1>4, <2>1 DEF IfOk
  <2>2. CASE vga.ok
    <3> DEFINE pins == s.hw.gpios \union {"VHF_EN"}
    <3>1. vga \in States /\ Synced(vga) /\ vga.hw \in Hardware /\ s.hw \in Hardware
      BY <1>4, StateUpdates DEF TowardsVHF
    <3>2. antenna = WritePins(vga, pins) /\ pins \in SUBSET Pins
      BY <1>4, <2>2, <3>1 DEF IfOk, SetGPIO, Hardware, Pins
    <3> HIDE DEF antenna, pins
    <3>3. /\ antenna \in States /\ Below(vga, antenna) /\ Noted(vga, antenna)
          /\ Synced(antenna)
          /\ antenna.hw = [vga.hw EXCEPT !.gpios = pins]
          /\ antenna.dev.adc = vga.dev.adc
          /\ antenna.hist.entries = vga.hist.entries
          /\ antenna.ok => antenna.hist.synced \/ pins = vga.hw.gpios
      BY <2>2, <3>1, <3>2, WritePinsEffect
    <3>4. Below(s, antenna) /\ Noted(s, antenna)
      BY <1>4, <2>2, <3>3 DEF TowardsVHF, Below, Noted
    <3>5. /\ antenna.hw.mode = vga.hw.mode /\ antenna.hw.flags = vga.hw.flags
          /\ antenna.hw.rate = vga.hw.rate /\ antenna.hw.loHF = vga.hw.loHF
          /\ antenna.hw.loVHF = vga.hw.loVHF /\ antenna.hw.step = vga.hw.step
          /\ antenna.hw.gpios = pins
      BY <3>1, <3>3 DEF Hardware
    <3>6. QED
      BY <1>4, <3>3, <3>4, <3>5 DEF TowardsVHF, pins
  <2>3. QED
    BY <2>1, <2>2
<1> HIDE DEF antenna
<1>6. ASSUME NEW u, TowardsVHF(s, u), u.ok,
             NEW d \in Device, d.gpio = u.dev.gpio, d.adc = u.dev.adc
      PROVE  LET t == Control(u, d) IN
             /\ TowardsVHF(s, t) /\ t.hist.entries = u.hist.entries
             /\ t.hist.synced = u.hist.synced /\ t.hw = u.hw
             /\ t.ok => t.dev = d
  <2> DEFINE t == Control(u, d)
  <2>1. /\ t \in States /\ Below(u, t) /\ Noted(u, t) /\ Synced(t)
        /\ t.hw = u.hw /\ t.dev \in {u.dev, d} /\ (t.ok => t.dev = d)
        /\ t.hist.entries = u.hist.entries /\ t.hist.synced = u.hist.synced
    BY <1>6, TransferEffect DEF TowardsVHF
  <2> HIDE DEF t
  <2>2. Below(s, t) /\ Noted(s, t)
    BY <1>6, <2>1 DEF TowardsVHF, Below, Noted
  <2>3. QED
    BY <1>6, <2>1, <2>2 DEF TowardsVHF, t
<1>7. /\ TowardsVHF(s, code) /\ code.hist.entries = s.hist.entries
      /\ code.ok => /\ code.hw.gpios = s.hw.gpios \union {"VHF_EN"}
                    /\ "VHF_EN" \notin s.hw.gpios => code.hist.synced
  <2>1. antenna.dev \in Device
    BY <1>5, StateUpdates DEF TowardsVHF
  <2>2. /\ coded \in Device /\ coded.gpio = antenna.dev.gpio
        /\ coded.adc = antenna.dev.adc
    <3>1. VhfCode \in DeviceCodes["gainHF"] \cap Nat /\ "gainHF" \in Stages
      BY DEF VhfCode, DeviceCodes, Stages
    <3>2. QED
      BY <2>1, <3>1, DeviceUpdates DEF Device
  <2> HIDE DEF coded
  <2>3. QED
    BY <1>5, <1>6, <2>2 DEF IfOk
<1> HIDE DEF code
<1>8. /\ TowardsVHF(s, tuner) /\ tuner.hist.entries = s.hist.entries
      /\ tuner.ok => /\ tuner.hw.gpios = s.hw.gpios \union {"VHF_EN"}
                     /\ tuner.dev.tuner = 0
                     /\ "VHF_EN" \notin s.hw.gpios => tuner.hist.synced
  <2>1. code.dev \in Device
    BY <1>7, StateUpdates DEF TowardsVHF
  <2>2. QED
    BY <1>6, <1>7, <2>1, TunerResetEffect DEF IfOk
<1> HIDE DEF tuner
<1>9. Least(tuner.hist.entries + 1, 2) \in 0 .. 2
  BY <1>8, StateUpdates DEF TowardsVHF, History, Least
<1> DEFINE h == [tuner.hist EXCEPT !.entries = Least(tuner.hist.entries + 1, 2)]
           t == [tuner EXCEPT !.hist = h]
<1>10. /\ h \in History /\ h.clean = tuner.hist.clean /\ h.warm = tuner.hist.warm
       /\ h.tuned = tuner.hist.tuned /\ h.synced = tuner.hist.synced
       /\ h.entries = Least(s.hist.entries + 1, 2)
  BY <1>8, <1>9, StateUpdates, HistoryUpdates DEF TowardsVHF, History
<1> HIDE DEF h
<1>11. /\ t \in States /\ t.hw = tuner.hw /\ t.r2iq = tuner.r2iq /\ t.fc = tuner.fc
       /\ t.soapy = tuner.soapy /\ t.dev = tuner.dev /\ t.ok = tuner.ok /\ t.hist = h
  BY <1>8, <1>10 DEF TowardsVHF, States
<1>12. EnterVHF(s) = t
  BY <1>1 DEF h
<1> HIDE DEF t
<1>13. TowardsVHF(s, t)
  BY <1>8, <1>10, <1>11 DEF TowardsVHF, Below, Noted, Synced
<1>14. QED
  BY <1>8, <1>10, <1>11, <1>12, <1>13

\* SetRFMode(HFMODE): the same from s into HF.
LEMMA EnterHFEffect ==
    ASSUME NEW s \in States, s.ok, Synced(s)
    PROVE  LET t == EnterHF(s) IN
           /\ t \in States /\ Below(s, t) /\ Noted(s, t) /\ Synced(t)
           /\ t.hw.mode = "HF"
           /\ t.hw.flags = s.hw.flags /\ t.hw.rate = s.hw.rate
           /\ t.hw.loHF = s.hw.loHF /\ t.hw.loVHF = s.hw.loVHF
           /\ t.hw.step = s.hw.step
           /\ t.hw.gpios \in {s.hw.gpios, s.hw.gpios \ {"VHF_EN"}}
           /\ t.dev.adc = s.dev.adc
           /\ t.hist.entries = s.hist.entries
           /\ t.ok => /\ t.hw.gpios = s.hw.gpios \ {"VHF_EN"}
                      /\ \/ t.hist.synced
                         \/ /\ t.hw.gpios = s.hw.gpios
                            /\ t.dev.gpio = s.dev.gpio
                            /\ t.hist.synced = s.hist.synced
<1> DEFINE h == [s.hw EXCEPT !.mode = "HF"]
           d == TunerReset(s.dev)
           standby == Control([s EXCEPT !.hw = h], d)
           t == IfOk(standby, UnsetGPIO(standby, {"VHF_EN"}))
<1>1. EnterHF(s) = t
  BY DEF EnterHF
<1>2. s.hw \in Hardware /\ s.dev \in Device
  BY StateUpdates
<1>3. /\ h \in Hardware /\ h.mode = "HF" /\ h.gpios = s.hw.gpios
      /\ h.flags = s.hw.flags /\ h.rate = s.hw.rate /\ h.step = s.hw.step
      /\ h.loHF = s.hw.loHF /\ h.loVHF = s.hw.loVHF
      /\ d \in Device /\ d.gpio = s.dev.gpio /\ d.adc = s.dev.adc
  BY <1>2, HardwareUpdates, TunerResetEffect, ZenonT(60) DEF Modes, Hardware
<1> HIDE DEF h, d
<1>4. /\ standby \in States /\ Below(s, standby) /\ Noted(s, standby) /\ Synced(standby)
      /\ standby.hw = h /\ standby.dev \in {s.dev, d}
      /\ standby.hist.entries = s.hist.entries
      /\ standby.hist.synced = s.hist.synced
  BY <1>3, CopyAndTransferEffect
<1> HIDE DEF standby
<1>5. CASE ~standby.ok
  <2>1. t = standby
    BY <1>5 DEF IfOk
  <2>2. QED
    BY <1>1, <1>3, <1>4, <1>5, <2>1
<1>6. CASE standby.ok
  <2> DEFINE pins == s.hw.gpios \ {"VHF_EN"}
  <2>1. t = WritePins(standby, pins) /\ pins \in SUBSET Pins
    BY <1>2, <1>3, <1>4, <1>6 DEF IfOk, UnsetGPIO, Hardware
  <2> HIDE DEF t, pins
  <2>2. /\ t \in States /\ Below(standby, t) /\ Noted(standby, t) /\ Synced(t)
        /\ t.hw = [standby.hw EXCEPT !.gpios = pins]
        /\ t.dev.adc = standby.dev.adc
        /\ t.hist.entries = standby.hist.entries
        /\ t.ok => \/ t.hist.synced
                   \/ /\ t.dev = standby.dev /\ t.hist = standby.hist
                      /\ pins = standby.hw.gpios
    BY <1>4, <1>6, <2>1, WritePinsEffect
  <2>3. Below(s, t) /\ Noted(s, t)
    BY <1>4, <1>6, <2>2 DEF Below, Noted
  <2>4. /\ t.hw.mode = "HF" /\ t.hw.gpios = pins
        /\ t.hw.flags = h.flags /\ t.hw.rate = h.rate /\ t.hw.step = h.step
        /\ t.hw.loHF = h.loHF /\ t.hw.loVHF = h.loVHF
    BY <1>3, <1>4, <2>2 DEF Hardware
  <2>5. QED
    BY <1>1, <1>3, <1>4, <2>2, <2>3, <2>4 DEF pins
<1>7. QED
  BY <1>5, <1>6

-----------------------------------------------------------------------------
(* The setters of RadioHandler.                                            *)

\* What holds in a call on an open device, also between its steps.
Ready(s) ==
    /\ s \in States
    /\ WholeTurns(s.r2iq.bin)
    /\ s.hw.gpios \intersect Settings = s.hw.flags
    /\ s.hw.mode \in {"HF", "VHF"}
    /\ s.hw.rate # 0
    /\ Synced(s)
    /\ s.hist.clean => Agreed(s)

\* What no call does to the history before it returns.
Follows(s, t) ==
    /\ t.hist.clean => s.hist.clean
    /\ t.hist.warm = s.hist.warm
    /\ t.hist.tuned = s.hist.tuned

\* The antenna switch is not one of the settings.
LEMMA SwitchIsNoSetting == "VHF_EN" \notin Settings
  BY RadioAssumption

\* SetRFMode either has entered the mode, or has failed by a transfer, or
\* has done nothing.
LEMMA SetRFModeEffect ==
    ASSUME NEW s, Ready(s), s.ok, NEW mode \in Modes
    PROVE  LET t == SetRFMode(s, mode) IN
           /\ Ready(t) /\ Follows(s, t)
           /\ t.fc = s.fc /\ t.soapy = s.soapy
           /\ t.r2iq.bin = s.r2iq.bin /\ t.r2iq.decimation = s.r2iq.decimation
           /\ t.hw.rate = s.hw.rate
           /\ t.ok => t.hw.mode = mode
           /\ t.hw.mode = s.hw.mode => t.hw = s.hw
           /\ ~t.ok /\ t.hist.clean => t.hw.mode = s.hw.mode
           /\ \A stage \in Stages :
                  \/ t.hw.step[stage] = s.hw.step[stage]
                  \/ stage \in {"attHF", "gainHF"} /\ t.hw.step[stage] = 1
<1> DEFINE set == HardwareSetRFMode(s, mode)
           r == [set.r2iq EXCEPT !.sideband = (mode = "VHF")]
           done == [set EXCEPT !.r2iq = r]
           t == SetRFMode(s, mode)
<1>1. /\ s \in States /\ s.hw \in Hardware /\ s.r2iq \in Converter
      /\ s.dev \in Device /\ s.hist \in History /\ Synced(s)
  BY StateUpdates DEF Ready
<1>2. CASE mode = s.hw.mode
  <2>1. t = s
    BY <1>2 DEF SetRFMode
  <2>2. QED
    BY <1>2, <2>1 DEF Follows
<1>3. CASE mode # s.hw.mode /\ mode = "NOMODE"
  <2>1. set = [s EXCEPT !.ok = FALSE]
    BY <1>3 DEF HardwareSetRFMode, Fail
  <2> HIDE DEF set
  <2>2. t = set
    BY <1>1, <1>3, <2>1 DEF SetRFMode, IfOk, States, set
  <2>3. /\ t \in States /\ ~t.ok /\ t.hw = s.hw /\ t.r2iq = s.r2iq /\ t.fc = s.fc
        /\ t.soapy = s.soapy /\ t.dev = s.dev /\ t.hist = s.hist
    BY <1>1, <2>1, <2>2, ZenonT(60) DEF States
  <2> HIDE DEF t
  <2>4. QED
    BY <2>3 DEF t, Ready, Follows, Synced, Agreed
<1>4. ASSUME mode # s.hw.mode, mode # "NOMODE",
             set \in States, Below(s, set), Noted(s, set), Synced(set),
             set.hw.mode = mode, set.hw.flags = s.hw.flags,
             set.hw.rate = s.hw.rate,
             set.hw.gpios \intersect Settings = s.hw.gpios \intersect Settings,
             s.hist.clean /\ set.ok =>
                 Agreed([set EXCEPT !.r2iq = [set.r2iq EXCEPT !.sideband = (mode = "VHF")]]),
             \A stage \in Stages :
                 \/ set.hw.step[stage] = s.hw.step[stage]
                 \/ stage \in {"attHF", "gainHF"} /\ set.hw.step[stage] = 1
      PROVE  /\ Ready(t) /\ Follows(s, t)
             /\ t.fc = s.fc /\ t.soapy = s.soapy
             /\ t.r2iq.bin = s.r2iq.bin /\ t.r2iq.decimation = s.r2iq.decimation
             /\ t.hw.rate = s.hw.rate
             /\ t.hw.mode = mode
             /\ ~t.ok => ~t.hist.clean
             /\ \A stage \in Stages :
                    \/ t.hw.step[stage] = s.hw.step[stage]
                    \/ stage \in {"attHF", "gainHF"} /\ t.hw.step[stage] = 1
  <2>1. t = IF set.ok THEN done ELSE set
    BY <1>4 DEF SetRFMode, IfOk
  <2>2. /\ r \in Converter /\ r.bin = set.r2iq.bin /\ r.decimation = set.r2iq.decimation
    BY <1>4, StateUpdates, ZenonT(60) DEF Converter
  <2>3. s.hist.clean /\ set.ok => Agreed(done)
    BY <1>4
  <2> HIDE DEF set, r
  <2>4. /\ done \in States /\ done.hw = set.hw /\ done.r2iq = r /\ done.fc = set.fc
        /\ done.soapy = set.soapy /\ done.dev = set.dev /\ done.hist = set.hist
        /\ done.ok = set.ok
    BY <1>4, <2>2 DEF States, set
  <2> HIDE DEF done
  <2>5. /\ t \in States /\ t.hw = set.hw /\ t.fc = s.fc /\ t.soapy = s.soapy
        /\ t.dev = set.dev /\ t.hist = set.hist /\ t.ok = set.ok
        /\ t.r2iq.bin = s.r2iq.bin /\ t.r2iq.decimation = s.r2iq.decimation
    BY <1>4, <2>1, <2>2, <2>4 DEF Below, set
  <2>6. t.hist.clean => Agreed(t)
    BY <1>4, <2>1, <2>3, <2>5 DEF Noted, set
  <2> HIDE DEF t
  <2>7. Ready(t) /\ Follows(s, t)
    BY <1>1, <1>4, <2>5, <2>6, ZenonT(60) DEF Ready, Follows, Noted, Synced, set, Modes
  <2>8. QED
    BY <1>4, <2>5, <2>7, ZenonT(60) DEF Noted, set
<1>5. CASE mode # s.hw.mode /\ mode = "VHF"
  <2>1. set = EnterVHF(s)
    BY <1>5 DEF HardwareSetRFMode
  <2>2. /\ TowardsVHF(s, set)
        /\ set.hist.entries = Least(s.hist.entries + 1, 2)
        /\ set.ok => /\ set.hw.gpios = s.hw.gpios \union {"VHF_EN"}
                     /\ set.dev.tuner = 0
                     /\ "VHF_EN" \notin s.hw.gpios => set.hist.synced
    BY <1>1, <2>1, EnterVHFEffect
  <2> HIDE DEF set
  <2>3. set.hw.gpios \intersect Settings = s.hw.gpios \intersect Settings
    BY <2>2, SwitchIsNoSetting DEF TowardsVHF
  <2>4. ASSUME s.hist.clean, set.ok
        PROVE  Agreed([set EXCEPT !.r2iq = [set.r2iq EXCEPT !.sideband = (mode = "VHF")]])
    <3> DEFINE x == [set EXCEPT !.r2iq = [set.r2iq EXCEPT !.sideband = (mode = "VHF")]]
    <3>1. set.r2iq \in Converter
      BY <2>2, StateUpdates DEF TowardsVHF
    <3>2. /\ x.hw = set.hw /\ x.dev = set.dev /\ x.hist = set.hist
          /\ x.r2iq.sideband = TRUE
      BY <1>5, <2>2, <3>1 DEF TowardsVHF, States, Converter
    <3> HIDE DEF x
    <3>3. Agreed(s) /\ s.hist.entries \in 0 .. 2
      BY <1>1, <2>4 DEF Ready, History
    <3>4. set.hist.entries # 0 /\ (set.hist.entries <= 1 => s.hist.entries = 0)
      BY <2>2, <3>3 DEF Least
    <3>5. "VHF_EN" \notin s.hw.gpios
      BY <1>5, <3>3 DEF Agreed
    <3>6. x.hw.mode = "VHF" /\ "VHF_EN" \in x.hw.gpios /\ x.hist.synced
      BY <2>2, <2>4, <3>2, <3>5 DEF TowardsVHF
    <3>7. x.dev.adc = x.hw.rate
      BY <2>2, <3>2, <3>3 DEF Agreed, TowardsVHF
    <3>8. x.hist.entries # 0 /\ (x.hist.entries <= 1 => x.dev.tuner = x.hw.loVHF)
      BY <2>2, <2>4, <3>2, <3>3, <3>4 DEF Agreed, TowardsVHF
    <3>9. Agreed(x)
      BY <3>2, <3>6, <3>7, <3>8 DEF Agreed
    <3>10. QED
      BY <3>9 DEF x
  <2>5. QED
    BY <1>4, <1>5, <2>2, <2>3, <2>4 DEF TowardsVHF
<1>6. CASE mode # s.hw.mode /\ mode = "HF"
  <2>1. set = EnterHF(s)
    BY <1>6 DEF HardwareSetRFMode
  <2>2. /\ set \in States /\ Below(s, set) /\ Noted(s, set) /\ Synced(set)
        /\ set.hw.mode = "HF"
        /\ set.hw.flags = s.hw.flags /\ set.hw.rate = s.hw.rate
        /\ set.hw.loVHF = s.hw.loVHF
        /\ set.hw.step = s.hw.step
        /\ set.hw.gpios \in {s.hw.gpios, s.hw.gpios \ {"VHF_EN"}}
        /\ set.dev.adc = s.dev.adc
        /\ set.hist.entries = s.hist.entries
        /\ set.ok => /\ set.hw.gpios = s.hw.gpios \ {"VHF_EN"}
                     /\ \/ set.hist.synced
                        \/ /\ set.hw.gpios = s.hw.gpios
                           /\ set.dev.gpio = s.dev.gpio
                           /\ set.hist.synced = s.hist.synced
    BY <1>1, <2>1, EnterHFEffect
  <2> HIDE DEF set
  <2>3. set.hw.gpios \intersect Settings = s.hw.gpios \intersect Settings
    BY <2>2, SwitchIsNoSetting
  <2>4. ASSUME s.hist.clean, set.ok
        PROVE  Agreed([set EXCEPT !.r2iq = [set.r2iq EXCEPT !.sideband = (mode = "VHF")]])
    <3> DEFINE x == [set EXCEPT !.r2iq = [set.r2iq EXCEPT !.sideband = (mode = "VHF")]]
    <3>1. set.r2iq \in Converter
      BY <2>2, StateUpdates
    <3>2. /\ x.hw = set.hw /\ x.dev = set.dev /\ x.hist = set.hist
          /\ x.r2iq.sideband = FALSE
      BY <1>6, <2>2, <3>1 DEF States, Converter
    <3> HIDE DEF x
    <3>3. Agreed(s)
      BY <2>4 DEF Ready
    <3>4. x.hw.mode = "HF" /\ "VHF_EN" \notin x.hw.gpios
      BY <2>2, <2>4, <3>2
    <3>5. x.dev.adc = x.hw.rate
      BY <2>2, <3>2, <3>3 DEF Agreed
    <3>6. ASSUME ~x.hist.synced
          PROVE  x.hw.gpios = {} /\ (~x.hist.warm => "VHF_EN" \notin x.dev.gpio)
      <4>1. /\ set.hw.gpios = s.hw.gpios /\ set.dev.gpio = s.dev.gpio
            /\ ~s.hist.synced /\ set.hist.warm = s.hist.warm
        BY <2>2, <2>4, <3>2, <3>6 DEF Noted
      <4>2. s.hw.gpios = {} /\ (~s.hist.warm => "VHF_EN" \notin s.dev.gpio)
        BY <3>3, <4>1, Zenon DEF Agreed
      <4>3. QED
        BY <3>2, <4>1, <4>2
    <3>7. x.hist.entries = 0 => x.hw.loVHF = 0
      BY <2>2, <3>2, <3>3 DEF Agreed
    <3>8. Agreed(x)
      <4>1. (x.hw.mode = "VHF") = FALSE /\ ("VHF_EN" \in x.hw.gpios) = FALSE
        BY <3>4
      <4>2. x.r2iq.sideband = (x.hw.mode = "VHF")
        BY <3>2, <4>1
      <4>3. ("VHF_EN" \in x.hw.gpios) = (x.hw.mode = "VHF")
        BY <4>1
      <4>4. x.hw.mode # "VHF"
        BY <3>4
      <4>5. QED
        BY <3>5, <3>6, <3>7, <4>2, <4>3, <4>4, Zenon DEF Agreed
    <3>9. QED
      BY <3>8 DEF x
  <2>5. QED
    BY <1>4, <1>6, <2>2, <2>3, <2>4
<1>7. QED
  BY <1>2, <1>3, <1>5, <1>6 DEF Modes

\* The decimations divide by naturals.
LEMMA RatiosNat == ASSUME NEW d \in 0 .. 6 PROVE DecimationRatio[d] \in Nat
<1>1. CASE d = 0
  BY <1>1 DEF DecimationRatio
<1>2. CASE d = 1
  BY <1>2 DEF DecimationRatio
<1>3. CASE d = 2
  BY <1>3 DEF DecimationRatio
<1>4. CASE d = 3
  BY <1>4 DEF DecimationRatio
<1>5. CASE d = 4
  BY <1>5 DEF DecimationRatio
<1>6. CASE d = 5
  BY <1>6 DEF DecimationRatio
<1>7. CASE d = 6
  BY <1>7 DEF DecimationRatio
<1>8. QED
  BY <1>1, <1>2, <1>3, <1>4, <1>5, <1>6, <1>7

\* An ADC rate is a natural.
LEMMA RateNat == ASSUME NEW rate \in 0 .. AdcRateMax PROVE rate \in Nat
<1>1. AdcRateMax \in Nat
  BY DEF AdcRateMax
<1>2. QED
  BY <1>1

\* What is left for the mixer is an integer.
LEMMA RestInt ==
    ASSUME NEW num \in Nat, NEW den \in Nat \ {0}
    PROVE  Rest(num, den) \in Int
<1>1. TuningBin(num, den) \in Int /\ Least(num, den) \in Int /\ HalfSize \in Int
  BY TuningBinAligned, BinsAssumption DEF Least, BinsAssumption
<1>2. QED
  BY <1>1 DEF Rest

\* setFreqOffset sets a bin that turns by whole turns, and the mixer to go
\* with it.
LEMMA OffsetEffect ==
    ASSUME NEW s \in States, s.hw.rate # 0, NEW carrier \in Nat, NEW sign \in {1, -1}
    PROVE  LET t == Offset(s, carrier, sign) IN
           /\ t \in States /\ t.hw = s.hw /\ t.soapy = s.soapy /\ t.dev = s.dev
           /\ t.hist = s.hist /\ t.ok = s.ok
           /\ t.r2iq.decimation = s.r2iq.decimation
           /\ t.r2iq.sideband = s.r2iq.sideband
           /\ t.r2iq.bin = TuningBin(2 * carrier, s.hw.rate)
           /\ WholeTurns(t.r2iq.bin)
           /\ t.fc = [rest |-> sign * Rest(2 * carrier, s.hw.rate),
                      ratio |-> DecimationRatio[s.r2iq.decimation],
                      adc |-> s.hw.rate]
<1> DEFINE bin == TuningBin(2 * carrier, s.hw.rate)
           r == [s.r2iq EXCEPT !.bin = bin]
           x == [rest |-> sign * Rest(2 * carrier, s.hw.rate),
                 ratio |-> DecimationRatio[s.r2iq.decimation],
                 adc |-> s.hw.rate]
           t == [s EXCEPT !.r2iq = r, !.fc = x]
<1>1. Offset(s, carrier, sign) = t
  BY DEF Offset
<1>2. 2 * carrier \in Nat /\ s.hw.rate \in Nat \ {0} /\ s.r2iq \in Converter
  <2>1. s.hw \in Hardware /\ s.r2iq \in Converter
    BY StateUpdates
  <2>2. s.hw.rate \in 0 .. AdcRateMax
    BY <2>1 DEF Hardware
  <2>3. s.hw.rate \in Nat
    BY <2>2, RateNat
  <2>4. 2 * carrier \in Nat
    OBVIOUS
  <2>5. QED
    BY <2>1, <2>3, <2>4
<1>3. bin \in 0 .. HalfSize /\ WholeTurns(bin)
  BY <1>2, TuningBinAligned, BinsAssumption
<1>4. x \in Shift
  <2>1. Rest(2 * carrier, s.hw.rate) \in Int
    BY <1>2, RestInt
  <2>2. sign * Rest(2 * carrier, s.hw.rate) \in Int
    BY <2>1
  <2>3. DecimationRatio[s.r2iq.decimation] \in Nat
    BY <1>2, RatiosNat DEF Converter
  <2>4. QED
    BY <1>2, <2>2, <2>3 DEF Shift
<1> HIDE DEF bin, x
<1>5. /\ r \in Converter /\ r.bin = bin /\ r.decimation = s.r2iq.decimation
      /\ r.sideband = s.r2iq.sideband
  BY <1>2, <1>3 DEF Converter
<1> HIDE DEF r
<1>6. /\ t \in States /\ t.hw = s.hw /\ t.r2iq = r /\ t.fc = x
      /\ t.soapy = s.soapy /\ t.dev = s.dev /\ t.hist = s.hist /\ t.ok = s.ok
  BY <1>4, <1>5 DEF States
<1> HIDE DEF t
<1>7. QED
  BY <1>1, <1>3, <1>5, <1>6 DEF bin, x

\* SetCenterFrequency tunes, or fails by a transfer.
LEMMA SetCenterFrequencyEffect ==
    ASSUME NEW s, Ready(s), s.ok, NEW frequency \in Frequencies
    PROVE  LET t == SetCenterFrequency(s, frequency) IN
           /\ Ready(t) /\ Follows(s, t)
           /\ t.soapy = s.soapy /\ t.r2iq.decimation = s.r2iq.decimation
           /\ t.hw.mode = s.hw.mode /\ t.hw.rate = s.hw.rate /\ t.hw.step = s.hw.step
           /\ t.ok => TunedTo(t, frequency) /\ GetCenterFrequency(t) = frequency
           /\ ~t.ok => ~t.hist.clean
<1> DEFINE t == SetCenterFrequency(s, frequency)
<1>1. /\ s \in States /\ s.hw \in Hardware /\ s.r2iq \in Converter
      /\ s.dev \in Device /\ s.hist \in History /\ Synced(s)
      /\ s.hw.rate # 0
  BY StateUpdates DEF Ready
<1>2. frequency \in Nat /\ IfCarrier \in Nat
  BY RadioAssumption DEF IfCarrier
<1>3. CASE s.hw.mode = "HF"
  <2> DEFINE h == [s.hw EXCEPT !.loHF = frequency]
             a == [s EXCEPT !.hw = h]
  <2>1. t = Offset(a, frequency, 1)
    BY <1>3 DEF SetCenterFrequency, SetCenterFrequency_HF
  <2>2. /\ h \in Hardware /\ h.loHF = frequency /\ h.mode = "HF" /\ h.loVHF = s.hw.loVHF
        /\ h.gpios = s.hw.gpios /\ h.flags = s.hw.flags /\ h.rate = s.hw.rate
        /\ h.step = s.hw.step
    BY <1>1, <1>3, HardwareUpdates DEF Hardware
  <2> HIDE DEF h
  <2>3. /\ a \in States /\ a.hw = h /\ a.r2iq = s.r2iq /\ a.soapy = s.soapy
        /\ a.dev = s.dev /\ a.hist = s.hist /\ a.ok = s.ok
    BY <1>1, <2>2 DEF States
  <2> HIDE DEF a, t
  <2>4. /\ t \in States /\ t.hw = h /\ t.soapy = s.soapy /\ t.dev = s.dev
        /\ t.hist = s.hist /\ t.ok
        /\ t.r2iq.decimation = s.r2iq.decimation
        /\ t.r2iq.sideband = s.r2iq.sideband
        /\ t.r2iq.bin = TuningBin(2 * frequency, s.hw.rate)
        /\ WholeTurns(t.r2iq.bin)
        /\ t.fc = [rest |-> 1 * Rest(2 * frequency, s.hw.rate),
                   ratio |-> DecimationRatio[s.r2iq.decimation],
                   adc |-> s.hw.rate]
    <3>1. a.hw.rate # 0 /\ 1 \in {1, -1} /\ frequency \in Nat /\ a \in States
      BY <1>1, <1>2, <2>2, <2>3
    <3>2. LET o == Offset(a, frequency, 1) IN
          /\ o \in States /\ o.hw = a.hw /\ o.soapy = a.soapy /\ o.dev = a.dev
          /\ o.hist = a.hist /\ o.ok = a.ok
          /\ o.r2iq.decimation = a.r2iq.decimation
          /\ o.r2iq.sideband = a.r2iq.sideband
          /\ o.r2iq.bin = TuningBin(2 * frequency, a.hw.rate)
          /\ WholeTurns(o.r2iq.bin)
          /\ o.fc = [rest |-> 1 * Rest(2 * frequency, a.hw.rate),
                     ratio |-> DecimationRatio[a.r2iq.decimation],
                     adc |-> a.hw.rate]
      BY <3>1, OffsetEffect
    <3>3. QED
      BY <2>1, <2>2, <2>3, <3>2, ZenonT(60)
  <2>5. TunedTo(t, frequency) /\ GetCenterFrequency(t) = frequency
    BY <2>2, <2>4 DEF TunedTo, CarrierOf, SignOf, GetCenterFrequency
  <2>6. t.hist.clean => Agreed(t)
    <3>1. t.hist.clean => Agreed(s)
      BY <2>4 DEF Ready
    <3>2. QED
      BY <1>3, <2>2, <2>4, <3>1 DEF Agreed
  <2>7. Ready(t) /\ Follows(s, t)
    BY <1>1, <2>2, <2>4, <2>6 DEF Ready, Follows, Synced
  <2>8. QED
    BY <1>3, <2>2, <2>4, <2>5, <2>7 DEF t
<1>4. CASE s.hw.mode = "VHF"
  <2> DEFINE v == SetCenterFrequency_VHF(s, frequency)
  <2>1. t = IfOk(v, Offset(v, IfCarrier, -1))
    BY <1>4 DEF SetCenterFrequency
  <2>2. /\ Ready(v) /\ Follows(s, v)
        /\ v.soapy = s.soapy /\ v.r2iq = s.r2iq
        /\ v.hw.mode = "VHF" /\ v.hw.rate = s.hw.rate /\ v.hw.step = s.hw.step
        /\ v.ok => v.hw.loVHF = frequency
        /\ ~v.ok => ~v.hist.clean
    <3>1. CASE frequency = s.hw.loVHF
      <4>1. v = s
        BY <3>1 DEF SetCenterFrequency_VHF
      <4>2. QED
        BY <1>4, <3>1, <4>1 DEF Follows
    <3>2. CASE frequency # s.hw.loVHF
      <4> DEFINE d == [s.dev EXCEPT !.tuner = frequency]
                 tune == Control(s, d)
                 h == [tune.hw EXCEPT !.loVHF = frequency]
                 b == [tune EXCEPT !.hw = h]
      <4>1. v = IF tune.ok THEN b ELSE tune
        BY <3>2 DEF SetCenterFrequency_VHF, IfOk
      <4>2. d \in Device /\ d.gpio = s.dev.gpio /\ d.adc = s.dev.adc /\ d.tuner = frequency
        BY <1>1, <1>2, DeviceUpdates DEF Device
      <4> HIDE DEF d, v
      <4>3. /\ tune \in States /\ Below(s, tune) /\ Noted(s, tune) /\ Synced(tune)
            /\ tune.hw = s.hw /\ tune.dev \in {s.dev, d} /\ (tune.ok => tune.dev = d)
            /\ tune.hist.entries = s.hist.entries /\ tune.hist.synced = s.hist.synced
        BY <1>1, <4>2, TransferEffect
      <4> HIDE DEF tune
      <4>4. /\ h \in Hardware /\ h.mode = "VHF" /\ h.loVHF = frequency
            /\ h.gpios = s.hw.gpios /\ h.flags = s.hw.flags /\ h.rate = s.hw.rate
            /\ h.step = s.hw.step
        <5>1. h = [s.hw EXCEPT !.loVHF = frequency]
          BY <4>3
        <5>2. [s.hw EXCEPT !.loVHF = frequency] \in Hardware
          BY <1>1, HardwareUpdates
        <5> HIDE DEF h
        <5>3. QED
          BY <1>1, <1>4, <5>1, <5>2 DEF Hardware
      <4> HIDE DEF h
      <4>5. /\ b \in States /\ b.hw = h /\ b.r2iq = tune.r2iq /\ b.fc = tune.fc
            /\ b.soapy = tune.soapy /\ b.dev = tune.dev /\ b.hist = tune.hist
            /\ b.ok = tune.ok
        BY <4>3, <4>4 DEF States
      <4> HIDE DEF b
      <4>6. CASE tune.ok
        <5>1. v = b /\ v.dev = d /\ v.ok
          BY <4>1, <4>3, <4>5, <4>6
        <5>2. v.hist.clean => Agreed(v)
          <6>1. v.hist.clean => Agreed(s)
            BY <4>3, <4>5, <4>6, <5>1 DEF Ready, Noted
          <6>2. v.hist.warm = s.hist.warm
            BY <4>3, <4>5, <5>1 DEF Noted
          <6>3. QED
            BY <1>4, <4>2, <4>3, <4>4, <4>5, <5>1, <6>1, <6>2 DEF Agreed, Below
        <5>3. Ready(v) /\ Follows(s, v)
          BY <1>1, <4>2, <4>3, <4>4, <4>5, <5>1, <5>2, ZenonT(60) DEF Ready, Follows, Noted, Below, Synced
        <5>4. QED
          BY <4>3, <4>4, <4>5, <5>1, <5>3 DEF Below
      <4>7. CASE ~tune.ok
        <5>1. v = tune /\ ~v.hist.clean
          BY <4>1, <4>3, <4>7 DEF Noted
        <5>2. Ready(v) /\ Follows(s, v)
          BY <1>1, <4>3, <5>1 DEF Ready, Follows, Noted, Below
        <5>3. QED
          BY <1>4, <4>3, <4>7, <5>1, <5>2 DEF Below
      <4>8. QED
        BY <4>6, <4>7
    <3>3. QED
      BY <3>1, <3>2
  <2> HIDE DEF v, t
  <2>3. CASE ~v.ok
    <3>1. t = v
      BY <2>1, <2>3 DEF IfOk
    <3>2. QED
      BY <1>4, <2>2, <2>3, <3>1 DEF t
  <2>4. CASE v.ok
    <3>1. /\ v \in States /\ v.hw.rate # 0 /\ v.hw.rate = s.hw.rate
          /\ t = Offset(v, IfCarrier, -1)
      BY <1>1, <2>1, <2>2, <2>4 DEF Ready, IfOk
    <3>2. /\ t \in States /\ t.hw = v.hw /\ t.soapy = v.soapy /\ t.dev = v.dev
          /\ t.hist = v.hist /\ t.ok = v.ok
          /\ t.r2iq.decimation = v.r2iq.decimation
          /\ t.r2iq.sideband = v.r2iq.sideband
          /\ t.r2iq.bin = TuningBin(2 * IfCarrier, v.hw.rate)
          /\ WholeTurns(t.r2iq.bin)
          /\ t.fc = [rest |-> (-1) * Rest(2 * IfCarrier, v.hw.rate),
                     ratio |-> DecimationRatio[v.r2iq.decimation],
                     adc |-> v.hw.rate]
      <4>1. -1 \in {1, -1}
        OBVIOUS
      <4>2. QED
        BY <1>2, <3>1, <4>1, OffsetEffect, ZenonT(60)
    <3>3. TunedTo(t, frequency) /\ GetCenterFrequency(t) = frequency
      BY <2>2, <2>4, <3>2 DEF TunedTo, CarrierOf, SignOf, GetCenterFrequency
    <3>4. Ready(t) /\ Follows(s, t)
      BY <2>2, <3>2 DEF Ready, Follows, Synced, Agreed
    <3>5. QED
      BY <1>4, <2>2, <2>4, <3>2, <3>3, <3>4 DEF t
  <2>5. QED
    BY <2>3, <2>4
<1>5. QED
  BY <1>3, <1>4 DEF Ready

\* The flags and gains leave the tuning alone.
SameTuning(s, t) ==
    /\ t.hw.mode = s.hw.mode /\ t.hw.rate = s.hw.rate /\ t.hw.loVHF = s.hw.loVHF
    /\ t.r2iq.bin = s.r2iq.bin /\ t.r2iq.decimation = s.r2iq.decimation
    /\ t.fc = s.fc /\ t.soapy = s.soapy

\* Where a stage's name leads in a mode that is set.
LEMMA StageIsOne ==
    ASSUME NEW name \in {"RF", "IF"}, NEW mode \in {"HF", "VHF"}
    PROVE  StageOf(name, mode) \in Stages
  BY DEF StageOf, Stages

LEMMA SetGainEffect ==
    ASSUME NEW s, Ready(s), s.ok, NEW name \in {"RF", "IF"}, NEW gain \in Gains
    PROVE  LET t == SetGainOf(s, name, gain)
               stage == StageOf(name, s.hw.mode)
           IN
           /\ Ready(t) /\ Follows(s, t) /\ SameTuning(s, t)
           /\ t.hw.step \in [Stages -> Nat]
           /\ \A other \in Stages \ {stage} : t.hw.step[other] = s.hw.step[other]
           /\ IsNearest(GainTable[stage], gain, t.hw.step[stage])
<1> DEFINE stage == StageOf(name, s.hw.mode)
           step == NearestStep(GainTable[stage], gain)
           t == SetStage(s, stage, step)
<1>1. SetGainOf(s, name, gain) = t
  BY DEF SetGainOf
<1>2. /\ s \in States /\ s.hw \in Hardware /\ Synced(s) /\ stage \in Stages
  BY StateUpdates, StageIsOne DEF Ready
<1> HIDE DEF stage
<1>3. IsNearest(GainTable[stage], gain, step)
  <2>1. IsGainTable(GainTable[stage]) /\ gain \in Int
    BY <1>2, RadioAssumption
  <2>2. QED
    BY <2>1, NearestStepIsNearest
<1> HIDE DEF step
<1>4. step \in StepsOf[stage]
  BY <1>2, <1>3 DEF IsNearest, StepsOf
<1>5. /\ t \in States /\ Below(s, t) /\ Noted(s, t) /\ Synced(t)
      /\ t.hw = [s.hw EXCEPT !.step = [s.hw.step EXCEPT ![stage] = step]]
      /\ t.dev.gpio = s.dev.gpio /\ t.dev.adc = s.dev.adc
      /\ t.dev.tuner = s.dev.tuner
      /\ t.hist.entries = s.hist.entries /\ t.hist.synced = s.hist.synced
  BY <1>2, <1>4, SetStageEffect
<1> HIDE DEF t
<1>6. /\ t.hw.mode = s.hw.mode /\ t.hw.rate = s.hw.rate /\ t.hw.loVHF = s.hw.loVHF
      /\ t.hw.gpios = s.hw.gpios /\ t.hw.flags = s.hw.flags
      /\ t.hw.step = [s.hw.step EXCEPT ![stage] = step]
      /\ s.hw.step \in [Stages -> Nat] /\ t.hw.step \in [Stages -> Nat]
  <2>1. t.hw \in Hardware
    BY <1>5, StateUpdates
  <2>2. QED
    BY <1>2, <1>5, <2>1 DEF Hardware
<1>7. t.hist.clean => Agreed(t)
  <2>1. t.hist.clean => Agreed(s)
    BY <1>5 DEF Ready, Noted
  <2>2. QED
    BY <1>5, <1>6, <2>1 DEF Agreed, Noted, Below
<1>8. Ready(t) /\ Follows(s, t) /\ SameTuning(s, t)
  BY <1>5, <1>6, <1>7 DEF Ready, Follows, SameTuning, Noted, Below
<1>9. QED
  BY <1>1, <1>2, <1>3, <1>6, <1>8 DEF stage

LEMMA WriteFlagEffect ==
    ASSUME NEW s, Ready(s), s.ok, NEW pin \in Settings, NEW on \in BOOLEAN
    PROVE  LET t == WriteFlag(s, pin, on) IN
           /\ Ready(t) /\ Follows(s, t) /\ SameTuning(s, t)
           /\ t.hw.step = s.hw.step
<1> DEFINE flags == IF on THEN s.hw.flags \union {pin} ELSE s.hw.flags \ {pin}
           pins == IF on THEN s.hw.gpios \union {pin} ELSE s.hw.gpios \ {pin}
           r == IF pin = "RANDO" THEN [s.r2iq EXCEPT !.rand = on] ELSE s.r2iq
           h == [s.hw EXCEPT !.flags = flags]
           a == [[s EXCEPT !.r2iq = r] EXCEPT !.hw = h]
           t == WritePins(a, pins)
<1>1. /\ s \in States /\ s.hw \in Hardware /\ s.r2iq \in Converter
      /\ s.dev \in Device /\ s.hist \in History /\ Synced(s)
  BY StateUpdates DEF Ready
<1>2. WriteFlag(s, pin, on) = t
  <2>1. (IF pin = "RANDO" THEN [s EXCEPT !.r2iq = [s.r2iq EXCEPT !.rand = on]] ELSE s)
            = [s EXCEPT !.r2iq = r]
    BY <1>1 DEF States
  <2> DEFINE b == [s EXCEPT !.r2iq = r]
  <2>2. WriteFlag(s, pin, on) = SetFlag(b, pin, on)
    BY <2>1 DEF WriteFlag
  <2> HIDE DEF r
  <2>3. b.hw = s.hw
    BY <1>1 DEF States
  <2>4. /\ a.hw = h
        /\ h.gpios = s.hw.gpios
    BY <1>1 DEF States, Hardware
  <2>5. SetFlag(b, pin, on) = WritePins(a, pins)
    BY <2>3, <2>4, ZenonT(60) DEF SetFlag, SetGPIO, UnsetGPIO
  <2>6. QED
    BY <2>2, <2>5
<1>3. /\ flags \in SUBSET Pins /\ pins \in SUBSET Pins
      /\ pins \intersect Settings = flags
      /\ ("VHF_EN" \in pins) = ("VHF_EN" \in s.hw.gpios)
      /\ pins = {} => s.hw.gpios = {} \/ ~on
  BY <1>1, SwitchIsNoSetting DEF Ready, Hardware, Pins
<1>4. r \in Converter /\ r.bin = s.r2iq.bin /\ r.decimation = s.r2iq.decimation
      /\ r.sideband = s.r2iq.sideband
  BY <1>1 DEF Converter
<1> HIDE DEF flags, pins, r
<1>5. /\ h \in Hardware /\ h.flags = flags /\ h.mode = s.hw.mode
      /\ h.rate = s.hw.rate /\ h.loVHF = s.hw.loVHF /\ h.step = s.hw.step
      /\ h.gpios = s.hw.gpios
  BY <1>1, <1>3, HardwareUpdates DEF Hardware
<1> HIDE DEF h
<1>6. /\ a \in States /\ a.ok /\ a.hw = h /\ a.r2iq = r /\ a.fc = s.fc
      /\ a.soapy = s.soapy /\ a.dev = s.dev /\ a.hist = s.hist
  BY <1>1, <1>4, <1>5 DEF States
<1> HIDE DEF a
<1>7. Synced(a)
  BY <1>1, <1>5, <1>6 DEF Synced
<1>8. /\ t \in States /\ Below(a, t) /\ Noted(a, t) /\ Synced(t)
      /\ t.hw = [a.hw EXCEPT !.gpios = pins]
      /\ t.dev.adc = a.dev.adc /\ t.dev.tuner = a.dev.tuner
      /\ t.hist.entries = a.hist.entries
      /\ t.ok => t.hist.synced \/ (t.dev = a.dev /\ t.hist = a.hist /\ pins = a.hw.gpios)
  BY <1>3, <1>6, <1>7, WritePinsEffect
<1> HIDE DEF t
<1>9. /\ t.hw.mode = s.hw.mode /\ t.hw.rate = s.hw.rate /\ t.hw.loVHF = s.hw.loVHF
      /\ t.hw.step = s.hw.step /\ t.hw.gpios = pins /\ t.hw.flags = flags
  BY <1>5, <1>6, <1>8 DEF Hardware
<1>10. ASSUME t.hist.clean
       PROVE  Agreed(t)
  <2>1. /\ s.hist.clean /\ t.ok /\ t.hist.warm = s.hist.warm
    BY <1>6, <1>8, <1>10 DEF Noted
  <2>2. Agreed(s)
    BY <2>1 DEF Ready
  <2>3. ASSUME ~t.hist.synced
        PROVE  /\ t.hw.gpios = {}
               /\ ~t.hist.warm => "VHF_EN" \notin t.dev.gpio
    <3>1. t.dev = s.dev /\ pins = s.hw.gpios /\ ~s.hist.synced
      BY <1>5, <1>6, <1>8, <2>1, <2>3
    <3>2. s.hw.gpios = {} /\ (~s.hist.warm => "VHF_EN" \notin s.dev.gpio)
      BY <2>2, <3>1, Zenon DEF Agreed
    <3>3. QED
      BY <1>9, <2>1, <3>1, <3>2
  <2>4. /\ t.dev.adc = t.hw.rate
        /\ t.r2iq.sideband = (t.hw.mode = "VHF")
        /\ ("VHF_EN" \in t.hw.gpios) = (t.hw.mode = "VHF")
    BY <1>3, <1>4, <1>6, <1>8, <1>9, <2>2 DEF Agreed, Below
  <2>5. /\ t.hist.entries = 0 => t.hw.mode # "VHF" /\ t.hw.loVHF = 0
        /\ t.hist.entries <= 1 /\ t.hw.mode = "VHF" => t.dev.tuner = t.hw.loVHF
    BY <1>6, <1>8, <1>9, <2>2 DEF Agreed
  <2>6. QED
    BY <2>3, <2>4, <2>5, Zenon DEF Agreed
<1>11. Ready(t) /\ Follows(s, t) /\ SameTuning(s, t)
  BY <1>3, <1>4, <1>6, <1>8, <1>9, <1>10, ZenonT(60) DEF Ready, Follows, SameTuning, Noted, Below
<1>12. QED
  BY <1>2, <1>9, <1>11 DEF t

-----------------------------------------------------------------------------
(* The setters of SoapySDDC.                                               *)

\* What the rates need besides, once a call has returned.
Returned(s, t) ==
    /\ Ready(t) /\ Follows(s, t)
    /\ t.hist.clean => RateAgreed(t)

LEMMA SoapySetAntennaEffect ==
    ASSUME NEW s, Ready(s), s.ok, s.hist.clean => RateAgreed(s),
           NEW mode \in {"HF", "VHF"}
    PROVE  LET t == SoapySetAntenna(s, mode) IN
           /\ Returned(s, t)
           /\ t.hw.mode = s.hw.mode /\ TuningDone(s) => TuningDone(t)
           /\ t.hw.mode = s.hw.mode => t.hw.step = s.hw.step
           /\ \A stage \in Stages :
                  \/ t.hw.step[stage] = s.hw.step[stage]
                  \/ stage \in {"attHF", "gainHF"} /\ t.hw.step[stage] = 1
<1> DEFINE set == SetRFMode(s, mode)
           a == [set.soapy EXCEPT !.explicit = TRUE]
           t == SoapySetAntenna(s, mode)
<1>1. mode \in Modes
  BY DEF Modes
<1>2. /\ Ready(set) /\ Follows(s, set)
      /\ set.fc = s.fc /\ set.soapy = s.soapy
      /\ set.r2iq.bin = s.r2iq.bin /\ set.r2iq.decimation = s.r2iq.decimation
      /\ set.hw.rate = s.hw.rate
      /\ set.hw.mode = s.hw.mode => set.hw = s.hw
      /\ \A stage \in Stages :
             \/ set.hw.step[stage] = s.hw.step[stage]
             \/ stage \in {"attHF", "gainHF"} /\ set.hw.step[stage] = 1
  BY <1>1, SetRFModeEffect
<1>3. t = IF set.ok THEN [set EXCEPT !.soapy = a] ELSE set
  BY DEF SoapySetAntenna, IfOk
<1> HIDE DEF set, t
<1>4. a \in Application /\ a.centre = set.soapy.centre /\ a.rate = set.soapy.rate
  <2>1. set.soapy \in Application
    BY <1>2, StateUpdates DEF Ready
  <2>2. QED
    BY <2>1 DEF Application
<1> HIDE DEF a
<1>5. /\ t \in States /\ t.hw = set.hw /\ t.r2iq = set.r2iq /\ t.fc = set.fc
      /\ t.soapy.centre = s.soapy.centre /\ t.soapy.rate = s.soapy.rate
      /\ t.dev = set.dev /\ t.hist = set.hist
  BY <1>2, <1>3, <1>4 DEF Ready, States
<1>6. Ready(t) /\ Follows(s, t)
  BY <1>2, <1>5 DEF Ready, Follows, Synced, Agreed
<1>7. t.hist.clean => RateAgreed(t)
  BY <1>2, <1>5 DEF Follows, RateAgreed
<1>8. t.hw.mode = s.hw.mode /\ TuningDone(s) => TuningDone(t)
  BY <1>2, <1>5 DEF TuningDone, TunedTo, CarrierOf, SignOf
<1>9. QED
  BY <1>2, <1>5, <1>6, <1>7, <1>8 DEF Returned, t

\* GetBestRFMode names a mode.
LEMMA BestModeIsMode ==
    ASSUME NEW frequency
    PROVE  GetBestRFMode(frequency) \in Modes
<1> DEFINE outside == frequency < 1 \/ frequency > 175000
           above == frequency \in 1 .. 175000 /\ 2 * frequency >= hw.rate
<1>1. GetBestRFMode(frequency) =
          CASE outside -> "NOMODE" [] above -> "VHF" [] OTHER -> "HF"
  BY DEF GetBestRFMode
<1> HIDE DEF outside, above
<1>2. QED
  BY <1>1 DEF Modes

LEMMA SoapySetFrequencyEffect ==
    ASSUME NEW s, Ready(s), s.ok, s.hist.clean => RateAgreed(s),
           NEW frequency \in Frequencies
    PROVE  LET t == SoapySetFrequency(s, frequency) IN
           /\ Returned(s, t)
           /\ t.ok => TuningDone(t)
           /\ ~t.ok /\ t.hist.clean /\ TuningDone(s) => TuningDone(t)
           /\ t.hw.mode = s.hw.mode => t.hw.step = s.hw.step
           /\ \A stage \in Stages :
                  \/ t.hw.step[stage] = s.hw.step[stage]
                  \/ stage \in {"attHF", "gainHF"} /\ t.hw.step[stage] = 1
<1> DEFINE moded == IF s.soapy.explicit THEN s
                    ELSE SetRFMode(s, GetBestRFMode(frequency))
           tuned == IfOk(moded, SetCenterFrequency(moded, frequency))
           a == [tuned.soapy EXCEPT !.centre = GetCenterFrequency(tuned)]
           t == SoapySetFrequency(s, frequency)
<1>1. t = IF tuned.ok THEN [tuned EXCEPT !.soapy = a] ELSE tuned
  BY DEF SoapySetFrequency, IfOk
<1>2. /\ Ready(moded) /\ Follows(s, moded)
      /\ moded.fc = s.fc /\ moded.soapy = s.soapy
      /\ moded.r2iq.bin = s.r2iq.bin /\ moded.r2iq.decimation = s.r2iq.decimation
      /\ moded.hw.rate = s.hw.rate
      /\ moded.hw.mode = s.hw.mode => moded.hw = s.hw
      /\ ~moded.ok /\ moded.hist.clean => moded.hw.mode = s.hw.mode
      /\ \A stage \in Stages :
             \/ moded.hw.step[stage] = s.hw.step[stage]
             \/ stage \in {"attHF", "gainHF"} /\ moded.hw.step[stage] = 1
  <2>1. GetBestRFMode(frequency) \in Modes
    BY BestModeIsMode
  <2>2. CASE s.soapy.explicit
    BY <2>2 DEF Follows
  <2>3. CASE ~s.soapy.explicit
    BY <2>1, <2>3, SetRFModeEffect
  <2>4. QED
    BY <2>2, <2>3
<1> HIDE DEF moded
<1>3. /\ Ready(tuned) /\ Follows(moded, tuned)
      /\ tuned.soapy = s.soapy /\ tuned.r2iq.decimation = s.r2iq.decimation
      /\ tuned.hw.mode = moded.hw.mode /\ tuned.hw.rate = s.hw.rate
      /\ tuned.hw.step = moded.hw.step
      /\ tuned.ok => TunedTo(tuned, frequency) /\ GetCenterFrequency(tuned) = frequency
      /\ ~tuned.ok /\ tuned.hist.clean => tuned = moded /\ ~moded.ok
  <2>1. CASE ~moded.ok
    BY <1>2, <2>1 DEF IfOk, Follows
  <2>2. CASE moded.ok
    BY <1>2, <2>2, SetCenterFrequencyEffect DEF IfOk
  <2>3. QED
    BY <2>1, <2>2
<1> HIDE DEF tuned, t
<1>4. Follows(s, tuned)
  BY <1>2, <1>3 DEF Follows
<1>5. /\ frequency \in Nat \ {0}
      /\ tuned.ok => /\ a \in Application /\ a.centre = frequency
                     /\ a.rate = s.soapy.rate
  <2>1. tuned.soapy \in Application /\ frequency \in Nat \ {0}
    BY <1>3, StateUpdates, RadioAssumption DEF Ready
  <2>2. QED
    BY <1>3, <2>1 DEF Application
<1> HIDE DEF a
<1>6. /\ t \in States /\ t.hw = tuned.hw /\ t.r2iq = tuned.r2iq /\ t.fc = tuned.fc
      /\ t.soapy.rate = s.soapy.rate /\ t.dev = tuned.dev /\ t.hist = tuned.hist
      /\ t.ok = tuned.ok
      /\ tuned.ok => t.soapy.centre = frequency
      /\ ~tuned.ok => t = tuned
  BY <1>1, <1>3, <1>5 DEF Ready, States
<1>7. Ready(t) /\ Follows(s, t)
  BY <1>3, <1>4, <1>6 DEF Ready, Follows, Synced, Agreed
<1>8. t.hist.clean => RateAgreed(t)
  BY <1>3, <1>4, <1>6 DEF Follows, RateAgreed
<1>9. t.ok => TuningDone(t)
  <2>1. t.ok => TunedTo(t, frequency)
    BY <1>3, <1>6 DEF TunedTo, CarrierOf, SignOf
  <2>2. QED
    BY <1>5, <1>6, <2>1 DEF TuningDone
<1>10. ~t.ok /\ t.hist.clean /\ TuningDone(s) => TuningDone(t)
  BY <1>2, <1>3, <1>6 DEF TuningDone, TunedTo, CarrierOf, SignOf
<1>11. /\ t.hw.mode = s.hw.mode => t.hw.step = s.hw.step
       /\ \A stage \in Stages :
              \/ t.hw.step[stage] = s.hw.step[stage]
              \/ stage \in {"attHF", "gainHF"} /\ t.hw.step[stage] = 1
  BY <1>2, <1>3, <1>6
<1>12. QED
  BY <1>7, <1>8, <1>9, <1>10, <1>11 DEF Returned, t

\* The table of rates is consistent.
LEMMA RatesMatch ==
    ASSUME NEW i \in 1 .. 6
    PROVE  /\ AdcRates[i] \in 1 .. AdcRateMax /\ Decimations[i] \in 0 .. 6
           /\ SampleRates[i] \in Nat
           /\ AdcRates[i] = 2 * DecimationRatio[Decimations[i]] * SampleRates[i]
<1>1. CASE i = 1
  BY <1>1 DEF AdcRates, AdcRateMax, Decimations, SampleRates, DecimationRatio
<1>2. CASE i = 2
  BY <1>2 DEF AdcRates, AdcRateMax, Decimations, SampleRates, DecimationRatio
<1>3. CASE i = 3
  BY <1>3 DEF AdcRates, AdcRateMax, Decimations, SampleRates, DecimationRatio
<1>4. CASE i = 4
  BY <1>4 DEF AdcRates, AdcRateMax, Decimations, SampleRates, DecimationRatio
<1>5. CASE i = 5
  BY <1>5 DEF AdcRates, AdcRateMax, Decimations, SampleRates, DecimationRatio
<1>6. CASE i = 6
  BY <1>6 DEF AdcRates, AdcRateMax, Decimations, SampleRates, DecimationRatio
<1>7. QED
  BY <1>1, <1>2, <1>3, <1>4, <1>5, <1>6

LEMMA SoapySetSampleRateEffect ==
    ASSUME NEW s, Ready(s), s.ok, s.hist.clean => RateAgreed(s), NEW i \in 1 .. 6
    PROVE  LET t == SoapySetSampleRate(s, i) IN
           /\ Returned(s, t)
           /\ t.ok /\ s.soapy.centre # 0 => TuningDone(t)
           /\ ~t.ok /\ t.hist.clean /\ TuningDone(s) => TuningDone(t)
           /\ t.soapy.centre = s.soapy.centre
           /\ t.hw.mode = s.hw.mode /\ t.hw.step = s.hw.step
<1> DEFINE adc == SetADCSampleRate(s, AdcRates[i])
           r == [adc.r2iq EXCEPT !.decimation = Decimations[i]]
           less == [adc EXCEPT !.r2iq = r]
           decimated == IfOk(adc, less)
           tuned == IfOk(decimated,
                         IF s.soapy.centre = 0 THEN decimated
                         ELSE SetCenterFrequency(decimated, s.soapy.centre))
           a == [tuned.soapy EXCEPT !.rate = SampleRates[i]]
           done == IfOk(tuned, [tuned EXCEPT !.soapy = a])
           t == SoapySetSampleRate(s, i)
<1>1. /\ AdcRates[i] \in 0 .. AdcRateMax /\ AdcRates[i] # 0
      /\ Decimations[i] \in 0 .. 6 /\ SampleRates[i] \in Nat
      /\ AdcRates[i] = 2 * DecimationRatio[Decimations[i]] * SampleRates[i]
  <2>1. \A x \in 1 .. AdcRateMax : x \in 0 .. AdcRateMax /\ x # 0
    BY DEF AdcRateMax
  <2>2. QED
    BY <2>1, RatesMatch
<1>2. /\ s \in States /\ s.hw \in Hardware /\ s.r2iq \in Converter
      /\ s.soapy \in Application /\ Synced(s)
  BY StateUpdates DEF Ready
<1>3. CASE s.hw.mode = "VHF" /\ SampleRates[i] > MaxVhfRate
  <2>1. t = [s EXCEPT !.ok = FALSE]
    BY <1>3 DEF SoapySetSampleRate, Fail
  <2> HIDE DEF t
  <2>2. /\ t \in States /\ ~t.ok /\ t.hw = s.hw /\ t.r2iq = s.r2iq /\ t.fc = s.fc
        /\ t.soapy = s.soapy /\ t.dev = s.dev /\ t.hist = s.hist
    BY <1>2, <2>1 DEF States
  <2>3. /\ Ready(t) /\ Follows(s, t) /\ (t.hist.clean => RateAgreed(t))
        /\ TuningDone(s) => TuningDone(t)
    BY <2>2 DEF Ready, Follows, Synced, Agreed, RateAgreed, TuningDone, TunedTo,
                CarrierOf, SignOf
  <2>4. QED
    BY <2>2, <2>3 DEF Returned, t
<1>4. CASE ~(s.hw.mode = "VHF" /\ SampleRates[i] > MaxVhfRate)
  <2>1. t = done
    BY <1>4 DEF SoapySetSampleRate
  <2>2. /\ adc \in States /\ Below(s, adc) /\ Noted(s, adc) /\ Synced(adc)
        /\ adc.hw = [s.hw EXCEPT !.rate = AdcRates[i]]
        /\ adc.dev.gpio = s.dev.gpio /\ adc.dev.tuner = s.dev.tuner
        /\ adc.hist.entries = s.hist.entries /\ adc.hist.synced = s.hist.synced
        /\ adc.ok /\ s.dev.adc = s.hw.rate => adc.dev.adc = AdcRates[i]
    BY <1>1, <1>2, SetADCSampleRateEffect
  <2> HIDE DEF adc, t
  <2>3. /\ adc.hw.mode = s.hw.mode /\ adc.hw.rate = AdcRates[i]
        /\ adc.hw.step = s.hw.step /\ adc.hw.gpios = s.hw.gpios
        /\ adc.hw.flags = s.hw.flags /\ adc.hw.loVHF = s.hw.loVHF
    BY <1>2, <2>2 DEF Hardware
  <2>4. adc.hist.clean => Agreed(adc)
    <3>1. adc.hist.clean => Agreed(s) /\ adc.ok
      BY <2>2 DEF Ready, Noted
    <3>2. QED
      BY <2>2, <2>3, <3>1 DEF Agreed, Noted, Below
  <2>5. Ready(adc) /\ Follows(s, adc) /\ (~adc.ok => ~adc.hist.clean)
    BY <1>1, <2>2, <2>3, <2>4 DEF Ready, Follows, Noted, Below
  <2>6. r \in Converter /\ r.bin = adc.r2iq.bin /\ r.sideband = adc.r2iq.sideband
        /\ r.decimation = Decimations[i]
    <3>1. adc.r2iq \in Converter
      BY <2>2, StateUpdates
    <3>2. QED
      BY <1>1, <3>1 DEF Converter
  <2> HIDE DEF r
  <2>7. /\ less \in States /\ less.hw = adc.hw /\ less.r2iq = r /\ less.fc = adc.fc
        /\ less.soapy = adc.soapy /\ less.dev = adc.dev /\ less.hist = adc.hist
        /\ less.ok = adc.ok
    BY <2>2, <2>6 DEF States
  <2> HIDE DEF less
  <2>8. /\ Ready(decimated) /\ Follows(s, decimated)
        /\ decimated.soapy = s.soapy
        /\ decimated.hw.mode = s.hw.mode /\ decimated.hw.step = s.hw.step
        /\ decimated.hw.rate = AdcRates[i]
        /\ decimated.ok => decimated.r2iq.decimation = Decimations[i]
        /\ ~decimated.ok => ~decimated.hist.clean
    <3>1. CASE ~adc.ok
      BY <2>2, <2>3, <2>5, <3>1 DEF IfOk, Below
    <3>2. CASE adc.ok
      <4>1. decimated = less
        BY <3>2 DEF IfOk
      <4> HIDE DEF decimated
      <4>2. decimated.hist.clean => Agreed(decimated)
        BY <2>4, <2>6, <2>7, <4>1 DEF Agreed
      <4>3. Ready(decimated) /\ Follows(s, decimated)
        BY <2>5, <2>6, <2>7, <4>1, <4>2 DEF Ready, Follows, Synced
      <4>4. QED
        BY <2>2, <2>3, <2>6, <2>7, <3>2, <4>1, <4>3 DEF Below
    <3>3. QED
      BY <3>1, <3>2
  <2> HIDE DEF decimated
  <2>9. /\ Ready(tuned) /\ Follows(decimated, tuned)
        /\ tuned.soapy = s.soapy
        /\ tuned.hw.mode = s.hw.mode /\ tuned.hw.step = s.hw.step
        /\ tuned.hw.rate = AdcRates[i]
        /\ tuned.ok => /\ tuned.r2iq.decimation = Decimations[i]
                       /\ s.soapy.centre # 0 => TunedTo(tuned, s.soapy.centre)
        /\ ~tuned.ok => ~tuned.hist.clean
    <3>1. CASE ~decimated.ok \/ s.soapy.centre = 0
      <4>1. tuned = decimated
        BY <3>1 DEF IfOk
      <4>2. Follows(decimated, decimated)
        BY DEF Follows
      <4>3. QED
        BY <2>8, <3>1, <4>1, <4>2
    <3>2. CASE decimated.ok /\ s.soapy.centre # 0
      <4>1. tuned = SetCenterFrequency(decimated, s.soapy.centre)
        BY <3>2 DEF IfOk
      <4>2. s.soapy.centre \in Frequencies
        BY <1>2, <3>2 DEF Application
      <4> HIDE DEF tuned
      <4>3. /\ Ready(tuned) /\ Follows(decimated, tuned)
            /\ tuned.soapy = decimated.soapy
            /\ tuned.r2iq.decimation = decimated.r2iq.decimation
            /\ tuned.hw.mode = decimated.hw.mode /\ tuned.hw.rate = decimated.hw.rate
            /\ tuned.hw.step = decimated.hw.step
            /\ tuned.ok => TunedTo(tuned, s.soapy.centre)
            /\ ~tuned.ok => ~tuned.hist.clean
        BY <2>8, <3>2, <4>1, <4>2, SetCenterFrequencyEffect
      <4>4. QED
        BY <2>8, <3>2, <4>3
    <3>3. QED
      BY <3>1, <3>2
  <2> HIDE DEF tuned
  <2>10. a \in Application /\ a.rate = SampleRates[i] /\ a.centre = s.soapy.centre
    BY <1>1, <1>2, <2>9 DEF Application
  <2> HIDE DEF a
  <2>11. /\ t \in States /\ t.hw = tuned.hw /\ t.r2iq = tuned.r2iq /\ t.fc = tuned.fc
         /\ t.soapy.centre = s.soapy.centre /\ t.dev = tuned.dev
         /\ t.hist = tuned.hist /\ t.ok = tuned.ok
         /\ t.ok => t.soapy.rate = SampleRates[i]
    BY <2>1, <2>9, <2>10 DEF IfOk, Ready, States
  <2>12. Ready(t) /\ Follows(s, t)
    BY <2>8, <2>9, <2>11 DEF Ready, Follows, Synced, Agreed
  <2>13. t.hist.clean => RateAgreed(t)
    BY <1>1, <2>9, <2>11 DEF RateAgreed
  <2>14. t.ok /\ s.soapy.centre # 0 => TuningDone(t)
    BY <2>9, <2>11 DEF TuningDone, TunedTo, CarrierOf, SignOf
  <2>15. QED
    BY <2>9, <2>11, <2>12, <2>13, <2>14 DEF Returned, t
<1>5. QED
  BY <1>3, <1>4

-----------------------------------------------------------------------------
(* The invariant.                                                          *)

\* A call has a number of transfers before it.
LEMMA OutcomeTypes ==
    ASSUME NEW clean \in BOOLEAN, NEW outcome \in Outcomes(clean)
    PROVE  outcome.left \in Nat /\ outcome.late \in BOOLEAN
<1>1. MaxTransfers \in Nat /\ \A x \in 0 .. MaxTransfers : x \in Nat
  BY DEF MaxTransfers
<1> DEFINE lefts == IF clean THEN 0 .. MaxTransfers ELSE {MaxTransfers}
           lates == IF clean THEN BOOLEAN ELSE {FALSE}
<1>2. outcome \in [left : lefts, late : lates]
  BY DEF Outcomes
<1>3. lefts \subseteq Nat /\ lates \subseteq BOOLEAN
  BY <1>1
<1> HIDE DEF lefts, lates
<1>4. QED
  BY <1>2, <1>3

\* A call begins on a device in use.
LEMMA BeginReady ==
    ASSUME RadioInv, opened, NEW outcome \in Outcomes(hist.clean)
    PROVE  LET s == Begin(outcome) IN
           /\ Ready(s) /\ s.ok
           /\ s.hist.clean => RateAgreed(s)
           /\ s.hw = hw /\ s.r2iq = r2iq /\ s.fc = fc /\ s.soapy = soapy
           /\ s.dev = dev /\ s.hist = hist
           /\ hist.tuned => TuningDone(s)
<1> DEFINE s == Begin(outcome)
<1>1. /\ hw \in Hardware /\ r2iq \in Converter /\ fc \in Shift
      /\ soapy \in Application /\ dev \in Device /\ hist \in History
      /\ WholeTurns(r2iq.bin) /\ hw.gpios \intersect Settings = hw.flags
  BY DEF RadioInv, Sound, Now
<1>2. outcome.left \in Nat /\ outcome.late \in BOOLEAN
  BY <1>1, OutcomeTypes DEF History
<1>3. /\ s \in States /\ s.ok
      /\ s.hw = hw /\ s.r2iq = r2iq /\ s.fc = fc /\ s.soapy = soapy
      /\ s.dev = dev /\ s.hist = hist
  BY <1>1, <1>2 DEF Begin, States
<1> HIDE DEF s
<1>4. /\ hw.mode \in {"HF", "VHF"} /\ hw.rate # 0
      /\ hist.synced => dev.gpio = hw.gpios
      /\ hist.clean => Agreed(Now) /\ RateAgreed(Now)
      /\ hist.tuned => TuningDone(Now)
  BY DEF RadioInv, InUse, Now
<1>5. /\ hist.clean => Agreed(s) /\ RateAgreed(s)
      /\ hist.tuned => TuningDone(s)
  BY <1>3, <1>4 DEF Now, Agreed, RateAgreed, TuningDone, TunedTo, CarrierOf, SignOf
<1>6. QED
  BY <1>1, <1>3, <1>4, <1>5 DEF Ready, Synced, s

\* Where a call returns, the device is still in use as it should be.
LEMMA CallKeepsInv ==
    ASSUME RadioInv, opened, UNCHANGED <<thread, opened>>,
           NEW s, NEW t, Returned(s, t), Return(t), NEW tuned \in BOOLEAN,
           tuned => t.hist.clean /\ TuningDone(t),
           hist' = [t.hist EXCEPT !.tuned = tuned, !.calls = @ + 1]
    PROVE  RadioInv'
<1>1. /\ t \in States /\ t.hw \in Hardware /\ t.r2iq \in Converter
      /\ t.fc \in Shift /\ t.soapy \in Application /\ t.dev \in Device
      /\ t.hist \in History
  BY StateUpdates DEF Returned, Ready
<1>2. /\ hw' = t.hw /\ r2iq' = t.r2iq /\ fc' = t.fc /\ soapy' = t.soapy /\ dev' = t.dev
  BY DEF Return
<1>3. /\ hist' \in History /\ hist'.clean = t.hist.clean /\ hist'.warm = t.hist.warm
      /\ hist'.synced = t.hist.synced /\ hist'.entries = t.hist.entries
      /\ hist'.tuned = tuned
  <2>1. t.hist.calls + 1 \in Nat
    BY <1>1 DEF History
  <2>2. hist' = [t.hist EXCEPT !.tuned = tuned, !.calls = t.hist.calls + 1]
    OBVIOUS
  <2>3. QED
    BY <1>1, <2>1, <2>2 DEF History
<1>4. Sound(Now)'
  BY <1>1, <1>2, <1>3 DEF Sound, Now, Returned, Ready
<1>5. (hist.clean => Agreed(Now) /\ RateAgreed(Now))'
  <2>1. t.hist.clean => Agreed(t) /\ RateAgreed(t)
    BY DEF Returned, Ready
  <2>2. QED
    BY <1>2, <1>3, <2>1 DEF Now, Agreed, RateAgreed
<1>6. (hist.tuned => hist.clean /\ TuningDone(Now))'
  BY <1>2, <1>3 DEF Now, TuningDone, TunedTo, CarrierOf, SignOf
<1>7. InUse(Now)'
  BY <1>2, <1>3, <1>5, <1>6 DEF InUse, Now, Returned, Ready, Synced
<1>8. QED
  BY <1>4, <1>7 DEF RadioInv

\* The bin the converter starts with turns by whole turns.
LEMMA FirstBin ==
    /\ HalfSize \div 4 \in 0 .. HalfSize
    /\ WholeTurns(HalfSize \div 4)
<1>1. HalfSize \in Nat /\ 4 \in Nat \ {0}
  BY BinsAssumption DEF BinsAssumption
<1> DEFINE bin == HalfSize \div 4
<1>2. bin \in Nat /\ HalfSize % 4 \in Nat /\ HalfSize = 4 * bin + (HalfSize % 4)
  BY <1>1, QuotientRemainder
<1>3. bin % Alignment = 0
  BY RadioAssumption
<1> HIDE DEF bin
<1>4. WholeTurns(bin)
  BY <1>2, <1>3, AlignedTurnsWhole, BinsAssumption
<1>5. bin \in 0 .. HalfSize
  BY <1>1, <1>2
<1>6. QED
  BY <1>4, <1>5 DEF bin

\* New objects are sound.
LEMMA NewIsSound ==
    /\ NewHardware \in Hardware /\ NewR2iq \in Converter /\ NoShift \in Shift
    /\ NewSoapy \in Application /\ NoHistory \in History /\ PoweredUp \in Device
<1>1. NewHardware \in Hardware
  <2>1. \A stage \in Stages : 1 \in StepsOf[stage]
    BY FirstStep
  <2>2. QED
    BY <2>1 DEF NewHardware, Hardware, Modes, AdcRateMax
<1>2. NewR2iq \in Converter
  BY FirstBin DEF NewR2iq, Converter
<1>3. NoShift \in Shift /\ NewSoapy \in Application /\ NoHistory \in History
  BY DEF NoShift, Shift, NewSoapy, Application, NoHistory, History
<1>4. PoweredUp \in Device
  BY DEF PoweredUp, Device, DeviceCodes, Pins, Unwritten
<1>5. QED
  BY <1>1, <1>2, <1>3, <1>4

LEMMA RadioInit == Init => RadioInv
<1> SUFFICES ASSUME Init PROVE RadioInv
  OBVIOUS
<1>1. Sound(Now)
  BY NewIsSound, FirstBin DEF Init, Sound, Now, NewR2iq, NewHardware
<1>2. opened = FALSE /\ dev = PoweredUp
      /\ thread = [on |-> FALSE, decimation |-> 0]
  BY DEF Init
<1>3. thread \in [on : BOOLEAN, decimation : 0 .. 6]
  BY <1>2
<1>4. QED
  BY <1>1, <1>2, <1>3 DEF RadioInv

\* The constructor, whatever the device was left with.
LEMMA OpenKeepsInv ==
    ASSUME RadioInv, Open
    PROVE  RadioInv'
<1>1. PICK outcome \in Outcomes(TRUE) :
          LET new == [hw |-> NewHardware, r2iq |-> NewR2iq, fc |-> NoShift,
                      soapy |-> NewSoapy, dev |-> dev,
                      hist |-> [NoHistory EXCEPT
                                    !.sessions = hist.sessions + 1,
                                    !.warm = hist.warm],
                      ok |-> TRUE, left |-> outcome.left,
                      late |-> outcome.late]
              s == SoapyOpen(new)
          IN  /\ Return(s)
              /\ opened' = s.ok
              /\ hist' = [s.hist EXCEPT !.warm = @ \/ ~s.ok]
  BY DEF Open
<1> DEFINE h == [NoHistory EXCEPT !.sessions = hist.sessions + 1, !.warm = hist.warm]
           new == [hw |-> NewHardware, r2iq |-> NewR2iq, fc |-> NoShift,
                   soapy |-> NewSoapy, dev |-> dev, hist |-> h,
                   ok |-> TRUE, left |-> outcome.left, late |-> outcome.late]
           moded == HardwareSetRFMode(new, "HF")
           rated == SetADCSampleRate(moded, DefaultAdcRate)
           t == SoapyOpen(new)
<1>2. /\ Return(t) /\ opened' = t.ok
      /\ hist' = [t.hist EXCEPT !.warm = t.hist.warm \/ ~t.ok]
  BY <1>1
<1>3. t = IF moded.ok THEN rated ELSE moded
  BY DEF SoapyOpen, IfOk
<1>4. /\ dev \in Device /\ hist \in History /\ thread' = thread
      /\ ~opened /\ (~hist.warm => dev = PoweredUp)
      /\ thread \in [on : BOOLEAN, decimation : 0 .. 6]
  BY DEF RadioInv, Sound, Now, Open
<1>5. /\ h \in History /\ h.clean /\ ~h.synced /\ h.warm = hist.warm /\ ~h.tuned
      /\ h.entries = 0
  <2>1. hist.sessions + 1 \in Nat /\ hist.warm \in BOOLEAN
    BY <1>4 DEF History
  <2>2. /\ NoHistory \in History /\ NoHistory.clean = TRUE /\ NoHistory.synced = FALSE
        /\ NoHistory.tuned = FALSE /\ NoHistory.entries = 0
    BY NewIsSound DEF NoHistory
  <2>3. QED
    BY <2>1, <2>2 DEF History
<1> HIDE DEF h
<1>6. outcome.left \in Nat /\ outcome.late \in BOOLEAN
  BY OutcomeTypes
<1>7. /\ new \in States /\ new.ok /\ new.hw = NewHardware /\ new.r2iq = NewR2iq
      /\ new.fc = NoShift /\ new.soapy = NewSoapy /\ new.dev = dev /\ new.hist = h
  BY <1>4, <1>5, <1>6, NewIsSound DEF States
<1> HIDE DEF new, t
<1>8. Synced(new)
  BY <1>5, <1>7 DEF Synced
<1>9. /\ moded \in States /\ Below(new, moded) /\ Noted(new, moded) /\ Synced(moded)
      /\ moded.hw.mode = "HF" /\ moded.hw.flags = {} /\ moded.hw.gpios = {}
      /\ moded.hw.rate = 0 /\ moded.hw.loVHF = 0
      /\ moded.hist.entries = 0
      /\ moded.ok => moded.hist.synced \/ moded.dev.gpio = dev.gpio
  <2>1. moded = EnterHF(new)
    BY <1>7 DEF HardwareSetRFMode, NewHardware
  <2> HIDE DEF moded
  <2>2. /\ moded \in States /\ Below(new, moded) /\ Noted(new, moded) /\ Synced(moded)
        /\ moded.hw.mode = "HF"
        /\ moded.hw.flags = new.hw.flags /\ moded.hw.rate = new.hw.rate
        /\ moded.hw.loVHF = new.hw.loVHF
        /\ moded.hw.gpios \in {new.hw.gpios, new.hw.gpios \ {"VHF_EN"}}
        /\ moded.hist.entries = new.hist.entries
        /\ moded.ok => moded.hist.synced \/ moded.dev.gpio = new.dev.gpio
    BY <1>7, <1>8, <2>1, EnterHFEffect
  <2>3. /\ new.hw.flags = {} /\ new.hw.rate = 0 /\ new.hw.loVHF = 0 /\ new.hw.gpios = {}
    BY <1>7 DEF NewHardware
  <2>4. QED
    BY <1>5, <1>7, <2>2, <2>3
<1> HIDE DEF moded
<1>10. /\ t \in States /\ Below(new, t) /\ Noted(new, t) /\ Synced(t)
       /\ t.hw.flags = {} /\ t.hw.gpios = {}
       /\ t.ok => /\ t.hw.mode = "HF" /\ t.hw.rate = DefaultAdcRate
                  /\ t.dev.adc = DefaultAdcRate
                  /\ t.hw.loVHF = 0 /\ t.hist.entries = 0
                  /\ t.hist.synced \/ t.dev.gpio = dev.gpio
  <2>1. CASE ~moded.ok
    BY <1>3, <1>9, <2>1
  <2>2. CASE moded.ok
    <3>1. t = rated /\ DefaultAdcRate \in 0 .. AdcRateMax /\ DefaultAdcRate # 0
      BY <1>3, <2>2 DEF DefaultAdcRate, AdcRateMax
    <3> HIDE DEF t
    <3>2. /\ rated \in States /\ Below(moded, rated) /\ Noted(moded, rated) /\ Synced(rated)
          /\ rated.hw = [moded.hw EXCEPT !.rate = DefaultAdcRate]
          /\ rated.dev.gpio = moded.dev.gpio
          /\ rated.hist.entries = moded.hist.entries
          /\ rated.hist.synced = moded.hist.synced
          /\ rated.ok => rated.dev.adc = DefaultAdcRate
      BY <1>9, <2>2, <3>1, SetADCSampleRateEffect
    <3> HIDE DEF rated
    <3>3. /\ rated.hw.mode = "HF" /\ rated.hw.rate = DefaultAdcRate
          /\ rated.hw.flags = {} /\ rated.hw.gpios = {} /\ rated.hw.loVHF = 0
      <4>1. moded.hw \in Hardware
        BY <1>9, StateUpdates
      <4>2. QED
        BY <1>9, <3>2, <4>1 DEF Hardware
    <3>4. Below(new, rated) /\ Noted(new, rated)
      BY <1>9, <2>2, <3>2 DEF Below, Noted
    <3>5. QED
      BY <1>9, <2>2, <3>1, <3>2, <3>3, <3>4
  <2>3. QED
    BY <2>1, <2>2
<1>11. /\ hw' = t.hw /\ r2iq' = NewR2iq /\ fc' = NoShift /\ soapy' = NewSoapy
       /\ dev' = t.dev
  BY <1>2, <1>7, <1>10 DEF Return, Below
<1>12. /\ t.hw \in Hardware /\ t.dev \in Device /\ t.hist \in History
       /\ t.ok \in BOOLEAN
  BY <1>10, StateUpdates
<1>13. /\ hist' \in History /\ hist'.clean = t.ok
       /\ hist'.synced = t.hist.synced /\ ~hist'.tuned
       /\ hist'.entries = t.hist.entries
       /\ t.ok => hist'.warm = hist.warm
       /\ ~t.ok => hist'.warm
  <2>1. /\ t.hist.warm = hist.warm /\ ~t.hist.tuned
        /\ t.hist.clean = t.ok
    BY <1>5, <1>7, <1>10, <1>12 DEF Noted
  <2>2. QED
    BY <1>2, <1>12, <2>1 DEF History
<1>14. Sound(Now)'
  BY <1>10, <1>11, <1>12, <1>13, NewIsSound, FirstBin DEF Sound, Now, NewR2iq
<1>15. opened' => InUse(Now)'
  <2> SUFFICES ASSUME t.ok PROVE InUse(Now)'
    BY <1>2
  <2>1. /\ hw'.mode = "HF" /\ hw'.rate = DefaultAdcRate /\ hw'.gpios = {}
        /\ hw'.loVHF = 0 /\ dev'.adc = DefaultAdcRate
        /\ r2iq'.sideband = FALSE /\ soapy'.rate = 0
    BY <1>10, <1>11 DEF NewR2iq, NewSoapy
  <2>2. ~hist'.synced => (~hist'.warm => "VHF_EN" \notin dev'.gpio)
    BY <1>4, <1>10, <1>11, <1>13 DEF PoweredUp
  <2>3. (hw'.mode = "VHF") = FALSE /\ ("VHF_EN" \in hw'.gpios) = FALSE
    BY <2>1
  <2>4. Agreed(Now)' /\ RateAgreed(Now)'
    BY <2>1, <2>2, <2>3 DEF Agreed, RateAgreed, Now
  <2>5. (hist.synced => dev.gpio = hw.gpios)'
    BY <1>10, <1>11, <1>13 DEF Synced
  <2>6. QED
    BY <1>13, <2>1, <2>4, <2>5 DEF InUse, Now, DefaultAdcRate
<1>16. QED
  BY <1>2, <1>4, <1>12, <1>13, <1>14, <1>15 DEF RadioInv

LEMMA CallsKeepInv ==
    ASSUME RadioInv
    PROVE  /\ \A mode \in {"HF", "VHF"} : SetAntenna(mode) => RadioInv'
           /\ \A frequency \in Frequencies : SetFrequency(frequency) => RadioInv'
           /\ \A i \in RateChoices : SetSampleRate(i) => RadioInv'
           /\ \A name \in {"RF", "IF"}, gain \in Gains : SetGain(name, gain) => RadioInv'
           /\ \A pin \in Settings, on \in BOOLEAN : WriteSetting(pin, on) => RadioInv'
<1>0. hist \in History /\ soapy \in Application
  BY DEF RadioInv, Sound, Now
<1>1. ASSUME NEW s, NEW t, Returned(s, t), s.hist = hist, s.hw = hw,
             hist.tuned => TuningDone(s)
      PROVE  /\ t.hist.tuned = hist.tuned /\ t.hist.tuned \in BOOLEAN
             /\ t.hist.clean \in BOOLEAN
  BY <1>0, <1>1, StateUpdates DEF Returned, Ready, Follows, History
<1>2. ASSUME NEW s, NEW t, Returned(s, t), s.hist = hist, s.hw = hw,
             hist.tuned => TuningDone(s),
             t.hw.mode = s.hw.mode /\ TuningDone(s) => TuningDone(t),
             opened, UNCHANGED <<thread, opened>>, Return(t), NotTuned(t)
      PROVE  RadioInv'
  <2> DEFINE tuned == t.hist.tuned /\ t.hist.clean /\ t.hw.mode = hw.mode
  <2>1. hist' = [t.hist EXCEPT !.tuned = tuned, !.calls = @ + 1]
    BY <1>2 DEF NotTuned
  <2>2. tuned \in BOOLEAN /\ (tuned => t.hist.clean /\ TuningDone(t))
    BY <1>1, <1>2
  <2> HIDE DEF tuned
  <2>3. QED
    BY <1>2, <2>1, <2>2, CallKeepsInv
<1>3. ASSUME NEW s, NEW t, Returned(s, t), s.hist = hist, s.hw = hw,
             hist.tuned => TuningDone(s),
             t.ok => TuningDone(t),
             ~t.ok /\ t.hist.clean /\ TuningDone(s) => TuningDone(t),
             opened, UNCHANGED <<thread, opened>>, Return(t), Tuned(t)
      PROVE  RadioInv'
  <2> DEFINE tuned == t.hist.clean /\ (t.ok \/ (t.hist.tuned /\ t.hw.mode = hw.mode))
  <2>1. hist' = [t.hist EXCEPT !.tuned = tuned, !.calls = @ + 1]
    BY <1>3 DEF Tuned
  <2>2. tuned \in BOOLEAN /\ (tuned => t.hist.clean /\ TuningDone(t))
    BY <1>1, <1>3
  <2> HIDE DEF tuned
  <2>3. QED
    BY <1>3, <2>1, <2>2, CallKeepsInv
<1>4. ASSUME NEW mode \in {"HF", "VHF"}, SetAntenna(mode)
      PROVE  RadioInv'
  <2>1. PICK outcome \in Outcomes(hist.clean) :
            LET s == SoapySetAntenna(Begin(outcome), mode) IN Return(s) /\ NotTuned(s)
    BY <1>4 DEF SetAntenna
  <2>2. opened /\ UNCHANGED <<thread, opened>>
    BY <1>4 DEF SetAntenna, MayCall
  <2> DEFINE s == Begin(outcome)
             t == SoapySetAntenna(s, mode)
  <2>3. /\ Ready(s) /\ s.ok /\ (s.hist.clean => RateAgreed(s))
        /\ s.hw = hw /\ s.hist = hist /\ (hist.tuned => TuningDone(s))
    BY <2>2, BeginReady
  <2>4. Return(t) /\ NotTuned(t)
    BY <2>1
  <2> HIDE DEF s
  <2>5. /\ Returned(s, t)
        /\ t.hw.mode = s.hw.mode /\ TuningDone(s) => TuningDone(t)
    BY <2>3, SoapySetAntennaEffect
  <2> HIDE DEF t
  <2>6. QED
    BY <1>2, <2>2, <2>3, <2>4, <2>5
<1>5. ASSUME NEW frequency \in Frequencies, SetFrequency(frequency)
      PROVE  RadioInv'
  <2>1. PICK outcome \in Outcomes(hist.clean) :
            LET s == SoapySetFrequency(Begin(outcome), frequency) IN Return(s) /\ Tuned(s)
    BY <1>5 DEF SetFrequency
  <2>2. opened /\ UNCHANGED <<thread, opened>>
    BY <1>5 DEF SetFrequency, MayCall
  <2> DEFINE s == Begin(outcome)
             t == SoapySetFrequency(s, frequency)
  <2>3. /\ Ready(s) /\ s.ok /\ (s.hist.clean => RateAgreed(s))
        /\ s.hw = hw /\ s.hist = hist /\ (hist.tuned => TuningDone(s))
    BY <2>2, BeginReady
  <2>4. Return(t) /\ Tuned(t)
    BY <2>1
  <2> HIDE DEF s
  <2>5. /\ Returned(s, t)
        /\ t.ok => TuningDone(t)
        /\ ~t.ok /\ t.hist.clean /\ TuningDone(s) => TuningDone(t)
    BY <2>3, SoapySetFrequencyEffect
  <2> HIDE DEF t
  <2>6. QED
    BY <1>3, <2>2, <2>3, <2>4, <2>5
<1>6. ASSUME NEW i \in RateChoices, SetSampleRate(i)
      PROVE  RadioInv'
  <2>1. PICK outcome \in Outcomes(hist.clean) :
            LET s == SoapySetSampleRate(Begin(outcome), i)
            IN  Return(s) /\ IF soapy.centre = 0 THEN NotTuned(s) ELSE Tuned(s)
    BY <1>6 DEF SetSampleRate
  <2>2. opened /\ UNCHANGED <<thread, opened>>
    BY <1>6 DEF SetSampleRate, MayCall
  <2> DEFINE s == Begin(outcome)
             t == SoapySetSampleRate(s, i)
  <2>3. /\ Ready(s) /\ s.ok /\ (s.hist.clean => RateAgreed(s))
        /\ s.hw = hw /\ s.hist = hist /\ s.soapy = soapy /\ (hist.tuned => TuningDone(s))
    BY <2>2, BeginReady
  <2>4. Return(t) /\ IF soapy.centre = 0 THEN NotTuned(t) ELSE Tuned(t)
    BY <2>1
  <2>5. i \in 1 .. 6
    BY RadioAssumption
  <2> HIDE DEF s
  <2>6. /\ Returned(s, t)
        /\ t.ok /\ s.soapy.centre # 0 => TuningDone(t)
        /\ ~t.ok /\ t.hist.clean /\ TuningDone(s) => TuningDone(t)
    BY <2>3, <2>5, SoapySetSampleRateEffect
  <2> HIDE DEF t
  <2>7. CASE soapy.centre = 0
    <3>1. ~TuningDone(s)
      BY <2>3, <2>7 DEF TuningDone
    <3>2. QED
      BY <1>2, <2>2, <2>3, <2>4, <2>6, <2>7, <3>1
  <2>8. CASE soapy.centre # 0
    BY <1>3, <2>2, <2>3, <2>4, <2>6, <2>8
  <2>9. QED
    BY <2>7, <2>8
<1>7. ASSUME NEW s, NEW t, Ready(t), Follows(s, t), SameTuning(s, t),
             s.hist.clean => RateAgreed(s)
      PROVE  Returned(s, t) /\ (TuningDone(s) => TuningDone(t))
  BY <1>7 DEF Returned, Follows, SameTuning, RateAgreed, TuningDone, TunedTo,
              CarrierOf, SignOf
<1>8. ASSUME NEW name \in {"RF", "IF"}, NEW gain \in Gains, SetGain(name, gain)
      PROVE  RadioInv'
  <2>1. PICK outcome \in Outcomes(hist.clean) :
            LET s == SetGainOf(Begin(outcome), name, gain) IN Return(s) /\ NotTuned(s)
    BY <1>8 DEF SetGain
  <2>2. opened /\ UNCHANGED <<thread, opened>>
    BY <1>8 DEF SetGain, MayCall
  <2> DEFINE s == Begin(outcome)
             t == SetGainOf(s, name, gain)
  <2>3. /\ Ready(s) /\ s.ok /\ (s.hist.clean => RateAgreed(s))
        /\ s.hw = hw /\ s.hist = hist /\ (hist.tuned => TuningDone(s))
    BY <2>2, BeginReady
  <2>4. Return(t) /\ NotTuned(t)
    BY <2>1
  <2> HIDE DEF s
  <2>5. Ready(t) /\ Follows(s, t) /\ SameTuning(s, t)
    BY <2>3, SetGainEffect
  <2> HIDE DEF t
  <2>6. Returned(s, t) /\ (TuningDone(s) => TuningDone(t))
    BY <1>7, <2>3, <2>5
  <2>7. QED
    BY <1>2, <2>2, <2>3, <2>4, <2>6
<1>9. ASSUME NEW pin \in Settings, NEW on \in BOOLEAN, WriteSetting(pin, on)
      PROVE  RadioInv'
  <2>1. PICK outcome \in Outcomes(hist.clean) :
            LET s == WriteFlag(Begin(outcome), pin, on) IN Return(s) /\ NotTuned(s)
    BY <1>9 DEF WriteSetting
  <2>2. opened /\ UNCHANGED <<thread, opened>>
    BY <1>9 DEF WriteSetting, MayCall
  <2> DEFINE s == Begin(outcome)
             t == WriteFlag(s, pin, on)
  <2>3. /\ Ready(s) /\ s.ok /\ (s.hist.clean => RateAgreed(s))
        /\ s.hw = hw /\ s.hist = hist /\ (hist.tuned => TuningDone(s))
    BY <2>2, BeginReady
  <2>4. Return(t) /\ NotTuned(t)
    BY <2>1
  <2> HIDE DEF s
  <2>5. Ready(t) /\ Follows(s, t) /\ SameTuning(s, t)
    BY <2>3, WriteFlagEffect
  <2> HIDE DEF t
  <2>6. Returned(s, t) /\ (TuningDone(s) => TuningDone(t))
    BY <1>7, <2>3, <2>5
  <2>7. QED
    BY <1>2, <2>2, <2>3, <2>4, <2>6
<1>10. QED
  BY <1>4, <1>5, <1>6, <1>8, <1>9

LEMMA RadioNext ==
    ASSUME RadioInv, [Next]_vars
    PROVE  RadioInv'
<1>0. /\ thread \in [on : BOOLEAN, decimation : 0 .. 6]
      /\ hist \in History /\ r2iq \in Converter
  BY DEF RadioInv, Sound, Now
<1>1. ASSUME UNCHANGED <<hw, r2iq, fc, soapy, dev>>, hist' \in History,
             hist'.clean = hist.clean, hist'.synced = hist.synced,
             hist'.tuned = hist.tuned, hist'.entries = hist.entries,
             hist'.warm = hist.warm \/ ~opened',
             opened' \in BOOLEAN, opened' => opened,
             ~opened' /\ ~hist'.warm => dev = PoweredUp,
             thread' \in [on : BOOLEAN, decimation : 0 .. 6]
      PROVE  RadioInv'
  <2>1. Sound(Now)'
    BY <1>1 DEF RadioInv, Sound, Now
  <2>2. opened' => InUse(Now)'
    <3> SUFFICES ASSUME opened' PROVE InUse(Now)'
      OBVIOUS
    <3>1. InUse(Now) /\ hist'.warm = hist.warm
      BY <1>1 DEF RadioInv
    <3>2. QED
      BY <1>1, <3>1 DEF InUse, Now, Agreed, RateAgreed, TuningDone, TunedTo,
                         CarrierOf, SignOf
  <2>3. QED
    BY <1>1, <2>1, <2>2 DEF RadioInv
<1>2. CASE ActivateStream
  <2>1. /\ UNCHANGED <<hw, r2iq, fc, soapy, dev, opened, hist>> /\ opened
        /\ thread' = [on |-> TRUE, decimation |-> r2iq.decimation]
    BY <1>2 DEF ActivateStream
  <2>2. thread' \in [on : BOOLEAN, decimation : 0 .. 6]
    BY <1>0, <2>1 DEF Converter
  <2>3. hist'.warm = hist.warm \/ ~opened'
    BY <1>0, <2>1 DEF History
  <2>4. QED
    BY <1>0, <1>1, <2>1, <2>2, <2>3 DEF RadioInv
<1>3. CASE DeactivateStream
  <2>1. /\ UNCHANGED <<hw, r2iq, fc, soapy, dev, opened, hist>> /\ opened
        /\ thread' = [thread EXCEPT !.on = FALSE]
    BY <1>3 DEF DeactivateStream
  <2>2. thread' \in [on : BOOLEAN, decimation : 0 .. 6]
    BY <1>0, <2>1
  <2>3. hist'.warm = hist.warm \/ ~opened'
    BY <1>0, <2>1 DEF History
  <2>4. QED
    BY <1>0, <1>1, <2>1, <2>2, <2>3 DEF RadioInv
<1>4. CASE Close
  <2>1. /\ UNCHANGED <<hw, r2iq, fc, soapy, dev>> /\ opened'= FALSE /\ opened
        /\ thread' = [thread EXCEPT !.on = FALSE]
        /\ hist' = [hist EXCEPT !.warm = TRUE]
    BY <1>4 DEF Close
  <2>2. thread' \in [on : BOOLEAN, decimation : 0 .. 6]
    BY <1>0, <2>1
  <2>3. /\ hist' \in History
        /\ hist'.clean = hist.clean /\ hist'.synced = hist.synced
        /\ hist'.tuned = hist.tuned /\ hist'.entries = hist.entries
        /\ hist'.warm = TRUE
    BY <1>0, <2>1 DEF History
  <2>4. QED
    BY <1>1, <2>1, <2>2, <2>3
<1>5. CASE PowerCycle
  <2>1. /\ UNCHANGED <<hw, r2iq, fc, soapy, thread, opened>> /\ ~opened
        /\ dev' = PoweredUp /\ hist' = [hist EXCEPT !.warm = FALSE]
    BY <1>5 DEF PowerCycle
  <2>2. hist' \in History
    BY <1>0, <2>1, HistoryUpdates
  <2>3. Sound(Now)'
    BY <2>1, <2>2, NewIsSound DEF RadioInv, Sound, Now
  <2>4. QED
    BY <2>1, <2>3 DEF RadioInv
<1>6. CASE UNCHANGED vars
  BY <1>6 DEF vars, RadioInv, Sound, Now, InUse, Agreed, RateAgreed, TuningDone,
              TunedTo, CarrierOf, SignOf
<1>7. QED
  BY <1>2, <1>3, <1>4, <1>5, <1>6, CallsKeepInv, OpenKeepsInv DEF Next

-----------------------------------------------------------------------------
(* The results.                                                            *)

\* The settings, the copies and the device are as RadioInv says, whatever is
\* called and whichever transfer fails.
THEOREM RadioInvariant == Spec => []RadioInv
<1>1. RadioInv /\ [Next]_vars => RadioInv'
  BY RadioNext
<1>2. QED
  BY RadioInit, <1>1, PTL DEF Spec

\* Every copy and register of host and device holds a value of its kind.
THEOREM TypeCorrect == Spec => []TypeOK
<1>1. RadioInv => TypeOK
  BY DEF RadioInv, Sound, Now, TypeOK, Hardware, Converter, Application, Device,
         DeviceCodes, DecimationRatio
<1>2. QED
  BY RadioInvariant, <1>1, PTL

\* The half of an output block is a natural for every decimation.
LEMMA HalvesNat ==
    ASSUME NEW d \in 0 .. 6
    PROVE  OutputHalf(DecimationRatio[d]) \in Nat
<1>1. DecimationRatio[d] \in Nat \ {0}
  <2>1. CASE d = 0
    BY <2>1 DEF DecimationRatio
  <2>2. CASE d = 1
    BY <2>2 DEF DecimationRatio
  <2>3. CASE d = 2
    BY <2>3 DEF DecimationRatio
  <2>4. CASE d = 3
    BY <2>4 DEF DecimationRatio
  <2>5. CASE d = 4
    BY <2>5 DEF DecimationRatio
  <2>6. CASE d = 5
    BY <2>6 DEF DecimationRatio
  <2>7. CASE d = 6
    BY <2>7 DEF DecimationRatio
  <2>8. QED
    BY <2>1, <2>2, <2>3, <2>4, <2>5, <2>6, <2>7
<1>2. HalfSize \in Nat /\ 2 \in Nat \ {0}
  BY BinsAssumption DEF BinsAssumption
<1>3. HalfSize \div DecimationRatio[d] \in Nat
  BY <1>1, <1>2, QuotientRemainder
<1>4. (HalfSize \div DecimationRatio[d]) \div 2 \in Nat
  BY <1>2, <1>3, QuotientRemainder
<1>5. QED
  BY <1>4 DEF OutputHalf, OutputSize

\* The converter never copies bins from outside of the FFT or to outside of
\* the output, with whatever decimation its thread runs, and its turns
\* between two FFTs are whole, for all sizes and alignments.
THEOREM WindowAlwaysInRange == Spec => []WindowInRange
<1>1. RadioInv => WindowInRange
  <2> SUFFICES ASSUME RadioInv PROVE WindowInRange
    OBVIOUS
  <2>1. r2iq.bin \in 0 .. HalfSize /\ WholeTurns(r2iq.bin) /\ thread.decimation \in 0 .. 6
    BY DEF RadioInv, Sound, Now, Converter
  <2>2. OutputHalf(DecimationRatio[thread.decimation]) \in Nat
    BY <2>1, HalvesNat
  <2>3. QED
    BY <2>1, <2>2, WindowAlwaysFits, BinsAssumption DEF WindowInRange
<1>2. QED
  BY RadioInvariant, <1>1, PTL

\* The device has the pins the host believes in, and those of the settings
\* the host reports, once a word of pins has arrived.
THEOREM PinsAreAsReported == Spec => []PinsAsReported
<1>1. RadioInv => PinsAsReported
  BY DEF RadioInv, InUse, Sound, Now, PinsAsReported
<1>2. QED
  BY RadioInvariant, <1>1, PTL

\* Antenna switch, tuner, converter and mixer agree on the frequency that
\* getFrequency reports, for every sequence of calls without a failed
\* transfer, in the cases HearsRequest names.
THEOREM RequestIsHeard == Spec => []HearsRequest
<1>1. RadioInv => HearsRequest
  <2> DEFINE carrier == IF hw.mode = "HF" THEN soapy.centre ELSE IfCarrier
             sign == IF hw.mode = "VHF" THEN -1 ELSE 1
  <2> SUFFICES ASSUME RadioInv, opened, hist.tuned, hist.synced \/ ~hist.warm,
                      2 * carrier <= dev.adc, hist.entries <= 1
               PROVE  /\ r2iq.sideband = (hw.mode = "VHF")
                      /\ ("VHF_EN" \in dev.gpio) = (hw.mode = "VHF")
                      /\ hw.mode = "VHF" => dev.tuner = soapy.centre
                      /\ CentredOn(carrier, sign)
    BY DEF HearsRequest
  <2>1. Agreed(Now) /\ TuningDone(Now) /\ hw.mode \in {"HF", "VHF"}
        /\ (hist.synced => dev.gpio = hw.gpios)
    BY DEF RadioInv, InUse, Now
  <2>2. /\ dev.adc = hw.rate
        /\ r2iq.sideband = (hw.mode = "VHF")
        /\ ("VHF_EN" \in hw.gpios) = (hw.mode = "VHF")
        /\ ~hist.synced => /\ hw.gpios = {}
                           /\ ~hist.warm => "VHF_EN" \notin dev.gpio
        /\ hw.mode = "VHF" => dev.tuner = hw.loVHF
    BY <2>1 DEF Agreed, Now
  <2>3. /\ hw.mode = "VHF" => hw.loVHF = soapy.centre
        /\ r2iq.bin = TuningBin(2 * carrier, hw.rate)
        /\ fc = [rest |-> sign * Rest(2 * carrier, hw.rate),
                 ratio |-> DecimationRatio[r2iq.decimation],
                 adc |-> hw.rate]
    BY <2>1 DEF TuningDone, TunedTo, CarrierOf, SignOf, Now
  <2> HIDE DEF carrier, sign
  <2>4. Rest(2 * carrier, hw.rate) = r2iq.bin * dev.adc - 2 * carrier * HalfSize
    <3>1. Least(2 * carrier, hw.rate) = 2 * carrier
      BY <2>2 DEF Least
    <3>2. Rest(2 * carrier, hw.rate) = r2iq.bin * hw.rate - (2 * carrier) * HalfSize
      BY <2>3, <3>1 DEF Rest
    <3>3. QED
      BY <2>2, <3>2
  <2>5. CentredOn(carrier, sign)
    BY <2>2, <2>3, <2>4 DEF CentredOn
  <2>6. ("VHF_EN" \in dev.gpio) = (hw.mode = "VHF")
    <3>1. CASE hist.synced
      BY <2>1, <2>2, <3>1
    <3>2. CASE ~hist.synced
      <4>1. "VHF_EN" \notin hw.gpios /\ "VHF_EN" \notin dev.gpio
        BY <2>2, <3>2
      <4>2. QED
        BY <2>2, <4>1
    <3>3. QED
      BY <3>1, <3>2
  <2>7. QED
    BY <2>2, <2>3, <2>5, <2>6
<1>2. QED
  BY RadioInvariant, <1>1, PTL

\* A stream that is started without a failed transfer delivers samples at
\* the rate getSampleRate reports.
THEOREM StreamStartsAtReportedRate == Spec => StartsAtReportedRate
<1>1. RadioInv /\ [Next]_vars =>
          [ActivateStream /\ hist.clean /\ soapy.rate # 0 =>
               dev.adc = 2 * DecimationRatio[thread'.decimation] * soapy.rate]_vars
  <2> SUFFICES ASSUME RadioInv, ActivateStream, hist.clean, soapy.rate # 0
               PROVE  dev.adc = 2 * DecimationRatio[thread'.decimation] * soapy.rate
    OBVIOUS
  <2>1. opened /\ thread' = [on |-> TRUE, decimation |-> r2iq.decimation]
    BY DEF ActivateStream
  <2>2. Agreed(Now) /\ RateAgreed(Now)
    BY <2>1 DEF RadioInv, InUse, Now
  <2>3. dev.adc = hw.rate
    BY <2>2 DEF Agreed, Now
  <2>4. hw.rate = 2 * DecimationRatio[r2iq.decimation] * soapy.rate
    BY <2>2 DEF RateAgreed, Now
  <2>5. QED
    BY <2>1, <2>3, <2>4
<1>2. QED
  BY RadioInvariant, <1>1, PTL DEF Spec, StartsAtReportedRate

\* What a gain call does to the stages, whether its transfer fails or not.
Answered(name, gain) ==
    LET stage == StageOf(name, hw.mode)
    IN  /\ hw'.mode = hw.mode
        /\ \A other \in Stages \ {stage} : hw'.step[other] = hw.step[other]
        /\ IsNearest(GainTable[stage], gain, hw'.step[stage])

LEMMA SetGainAnswered ==
    ASSUME RadioInv, NEW name \in {"RF", "IF"}, NEW gain \in Gains, SetGain(name, gain)
    PROVE  Answered(name, gain)
<1>1. opened
  BY DEF SetGain, MayCall
<1>2. PICK outcome \in Outcomes(hist.clean) : Return(SetGainOf(Begin(outcome), name, gain))
  BY DEF SetGain
<1> DEFINE s == Begin(outcome)
           t == SetGainOf(s, name, gain)
<1>3. Ready(s) /\ s.ok /\ s.hw = hw
  BY <1>1, BeginReady
<1>4. hw' = t.hw
  BY <1>2 DEF Return
<1> DEFINE stage == StageOf(name, hw.mode)
<1> HIDE DEF s
<1>5. /\ t.hw.mode = hw.mode
      /\ \A other \in Stages \ {stage} : t.hw.step[other] = hw.step[other]
      /\ IsNearest(GainTable[stage], gain, t.hw.step[stage])
  BY <1>3, SetGainEffect DEF SameTuning
<1> HIDE DEF t
<1>6. QED
  BY <1>4, <1>5 DEF Answered

\* A gain call for RF or IF takes the stage which that name has in the current
\* mode, and no other, to the step of that stage's table nearest to the gain
\* of this very call.
THEOREM GainAnswersCall ==
    Spec => [][\A name \in {"RF", "IF"}, gain \in Gains :
                   SetGain(name, gain) => Answered(name, gain)]_vars
<1>1. RadioInv => [\A name \in {"RF", "IF"}, gain \in Gains :
                       SetGain(name, gain) => Answered(name, gain)]_vars
  BY SetGainAnswered
<1>2. QED
  BY RadioInvariant, <1>1, PTL DEF Spec

\* What a step may do to the gain stages.
StagesMove ==
    LET moved == {stage \in Stages : hw'.step[stage] # hw.step[stage]}
    IN  opened =>
        IF hw'.mode # hw.mode
        THEN /\ moved \subseteq {"attHF", "gainHF"}
             /\ \A stage \in moved : hw'.step[stage] = 1
        ELSE \A stage \in moved :
                 /\ moved = {stage}
                 /\ stage \in {StageOf(name, hw.mode) : name \in {"RF", "IF"}}
                 /\ \E gain \in Gains :
                        IsNearest(GainTable[stage], gain, hw'.step[stage])

\* A gain call moves one stage, that of the mode, to the step nearest to the
\* gain asked for; otherwise only entering VHF moves stages, and mutes them.
THEOREM GainIsTheNearest == Spec => GainIsNearest
<1>1. ASSUME NEW s, NEW t, s.hw = hw, hw' = t.hw,
             t.hw.mode = s.hw.mode => t.hw.step = s.hw.step,
             \A stage \in Stages :
                 \/ t.hw.step[stage] = s.hw.step[stage]
                 \/ stage \in {"attHF", "gainHF"} /\ t.hw.step[stage] = 1
      PROVE  StagesMove
  BY <1>1 DEF StagesMove
<1>2. ASSUME RadioInv, opened, NEW mode \in {"HF", "VHF"}, SetAntenna(mode)
      PROVE  StagesMove
  <2>1. PICK outcome \in Outcomes(hist.clean) :
            LET s == SoapySetAntenna(Begin(outcome), mode) IN Return(s) /\ NotTuned(s)
    BY <1>2 DEF SetAntenna
  <2> DEFINE s == Begin(outcome)
             t == SoapySetAntenna(s, mode)
  <2>2. /\ Ready(s) /\ s.ok /\ (s.hist.clean => RateAgreed(s)) /\ s.hw = hw
    BY <1>2, BeginReady
  <2>3. hw' = t.hw
    BY <2>1 DEF Return
  <2> HIDE DEF s
  <2>4. /\ t.hw.mode = s.hw.mode => t.hw.step = s.hw.step
        /\ \A stage \in Stages :
               \/ t.hw.step[stage] = s.hw.step[stage]
               \/ stage \in {"attHF", "gainHF"} /\ t.hw.step[stage] = 1
    BY <2>2, SoapySetAntennaEffect
  <2> HIDE DEF t
  <2>5. QED
    BY <1>1, <2>2, <2>3, <2>4
<1>3. ASSUME RadioInv, opened, NEW frequency \in Frequencies, SetFrequency(frequency)
      PROVE  StagesMove
  <2>1. PICK outcome \in Outcomes(hist.clean) :
            LET s == SoapySetFrequency(Begin(outcome), frequency) IN Return(s) /\ Tuned(s)
    BY <1>3 DEF SetFrequency
  <2> DEFINE s == Begin(outcome)
             t == SoapySetFrequency(s, frequency)
  <2>2. /\ Ready(s) /\ s.ok /\ (s.hist.clean => RateAgreed(s)) /\ s.hw = hw
    BY <1>3, BeginReady
  <2>3. hw' = t.hw
    BY <2>1 DEF Return
  <2> HIDE DEF s
  <2>4. /\ t.hw.mode = s.hw.mode => t.hw.step = s.hw.step
        /\ \A stage \in Stages :
               \/ t.hw.step[stage] = s.hw.step[stage]
               \/ stage \in {"attHF", "gainHF"} /\ t.hw.step[stage] = 1
    BY <2>2, SoapySetFrequencyEffect
  <2> HIDE DEF t
  <2>5. QED
    BY <1>1, <2>2, <2>3, <2>4
<1>4. ASSUME RadioInv, opened, NEW i \in RateChoices, SetSampleRate(i)
      PROVE  StagesMove
  <2>1. PICK outcome \in Outcomes(hist.clean) : Return(SoapySetSampleRate(Begin(outcome), i))
    BY <1>4 DEF SetSampleRate
  <2> DEFINE s == Begin(outcome)
             t == SoapySetSampleRate(s, i)
  <2>2. /\ Ready(s) /\ s.ok /\ (s.hist.clean => RateAgreed(s)) /\ s.hw = hw
    BY <1>4, BeginReady
  <2>3. hw' = t.hw
    BY <2>1 DEF Return
  <2>4. i \in 1 .. 6
    BY RadioAssumption
  <2> HIDE DEF s
  <2>5. t.hw.mode = s.hw.mode /\ t.hw.step = s.hw.step
    BY <2>2, <2>4, SoapySetSampleRateEffect
  <2> HIDE DEF t
  <2>6. QED
    BY <1>1, <2>2, <2>3, <2>5
<1>5. ASSUME RadioInv, opened, NEW pin \in Settings, NEW on \in BOOLEAN, WriteSetting(pin, on)
      PROVE  StagesMove
  <2>1. PICK outcome \in Outcomes(hist.clean) : Return(WriteFlag(Begin(outcome), pin, on))
    BY <1>5 DEF WriteSetting
  <2> DEFINE s == Begin(outcome)
             t == WriteFlag(s, pin, on)
  <2>2. Ready(s) /\ s.ok /\ s.hw = hw
    BY <1>5, BeginReady
  <2>3. hw' = t.hw
    BY <2>1 DEF Return
  <2> HIDE DEF s
  <2>4. t.hw.mode = s.hw.mode /\ t.hw.step = s.hw.step
    BY <2>2, WriteFlagEffect DEF SameTuning
  <2> HIDE DEF t
  <2>5. QED
    BY <1>1, <2>2, <2>3, <2>4
<1>6. ASSUME RadioInv, opened, NEW name \in {"RF", "IF"}, NEW gain \in Gains, SetGain(name, gain)
      PROVE  StagesMove
  <2> DEFINE stage == StageOf(name, hw.mode)
  <2>1. Answered(name, gain)
    BY <1>6, SetGainAnswered
  <2>2. stage \in {StageOf(n, hw.mode) : n \in {"RF", "IF"}}
    OBVIOUS
  <2>3. /\ hw'.mode = hw.mode
        /\ \A other \in Stages \ {stage} : hw'.step[other] = hw.step[other]
        /\ IsNearest(GainTable[stage], gain, hw'.step[stage])
    BY <2>1 DEF Answered
  <2> HIDE DEF stage
  <2>4. QED
    BY <2>2, <2>3 DEF StagesMove
<1>7. ASSUME hw' = hw \/ ~opened
      PROVE  StagesMove
  BY <1>7 DEF StagesMove
<1>8. RadioInv /\ [Next]_vars => [StagesMove]_vars
  <2> SUFFICES ASSUME RadioInv, Next, opened PROVE StagesMove
    BY <1>7
  <2>1. CASE ActivateStream \/ DeactivateStream \/ Open \/ Close \/ PowerCycle
    BY <1>7, <2>1 DEF ActivateStream, DeactivateStream, Open, Close, PowerCycle
  <2>2. QED
    BY <1>2, <1>3, <1>4, <1>5, <1>6, <2>1 DEF Next
<1>9. [StagesMove]_vars =>
          [LET moved == {stage \in Stages : hw'.step[stage] # hw.step[stage]}
           IN  opened =>
               IF hw'.mode # hw.mode
               THEN /\ moved \subseteq {"attHF", "gainHF"}
                    /\ \A stage \in moved : hw'.step[stage] = 1
               ELSE \A stage \in moved :
                        /\ moved = {stage}
                        /\ stage \in {StageOf(name, hw.mode) : name \in {"RF", "IF"}}
                        /\ \E gain \in Gains :
                               IsNearest(GainTable[stage], gain, hw'.step[stage])]_vars
  BY DEF StagesMove
<1>10. QED
  BY RadioInvariant, <1>8, <1>9, PTL DEF Spec, GainIsNearest

=============================================================================
