----------------------------- MODULE R82xxTuner -----------------------------
(***************************************************************************)
(* The VHF tuner of an RX888 mk II: the driver SDDC_FX3/driver/            *)
(* tuner_r82xx.c, the requests that reach it (SDDC_FX3/USBhandler.c), and  *)
(* the registers of the R828D behind the I2C bus.                          *)
(*                                                                         *)
(* The driver writes a register from its shadow copy, which it changes     *)
(* first; any I2C transfer may fail, having reached the chip or not.       *)
(* Requests are served one after the other in the USB thread, so that each *)
(* is one step; the host sees no result.  Registers have only the fields   *)
(* the properties are about; a write to another one counts as a transfer,  *)
(* because it can fail.  Frequencies are in 10 kHz.                        *)
(***************************************************************************)
EXTENDS TunerPll, Sequences

CONSTANTS
    Frequencies,    \* what TUNERTUNE asks for
    AttSteps,       \* what SETARGFX3 asks for: R82XX_ATTENUATOR
    VgaSteps,       \* and R82XX_VGA
    FineTunings,    \* what vco_fine_tune may be, 0 .. 3 at most
    MaxTransfers    \* bound: in TUNERINIT and TUNERTUNE one of so many may fail

ASSUME TunerAssumption ==
    /\ Frequencies \subseteq Nat
    /\ AttSteps \subseteq 0 .. 28
    /\ VgaSteps \subseteq 0 .. 15
    /\ FineTunings \subseteq 0 .. 3
    /\ MaxTransfers \in Nat

HarmonicFrom == 177000  \* FIFTH_HARM_FRQ_THRESH_KHZ
RetryFrom == 176000     \* RETRY_WITH_FIFTH_HARM_KHZ
Harmonic == 5           \* DEFAULT_HARMONIC
AirFrom == 34500        \* where set_freq64 changes the input
IfCarrier == 457        \* R828D_IF_CARRIER, which the host reckons with
NoIndex == 255          \* m_vgagain_index = -1

\* freq_ranges[].freq.
RangeStarts ==
    <<0, 5000, 5500, 6000, 6500, 7000, 7500, 8000, 9000, 10000, 11000, 12000,
      14000, 18000, 22000, 25000, 28000, 31000, 45000, 58800, 65000>>

\* lna_gains, mixer_gains.
LnaGain(i) == IF i = 28 THEN 15 ELSE (i + 1) \div 2
MixerGain(i) == i \div 2

VARIABLES
    chip,   \* the registers of the R828D, and its fine tuning of the VCO
    priv,   \* struct r82xx_priv, without regs
    regs,   \* priv->regs, the shadow copy
    vga,    \* m_vgagain_index, outside of the struct
    hist    \* history, for the properties

vars == <<chip, priv, regs, vga, hist>>

-----------------------------------------------------------------------------
(* Registers.                                                              *)

\* r82xx_init_array.
InitRegs ==
    [r05 |-> [input |-> "air", manual |-> FALSE, lna |-> 0],
     r07 |-> [auto |-> TRUE, mixer |-> 0],
     r0c |-> [vga |-> 11], r0f |-> [cali |-> FALSE], r10 |-> [div |-> 3],
     r12 |-> [vco |-> "min", sdmOff |-> FALSE],
     r14 |-> [nint |-> 0], r15 |-> [low |-> 0], r16 |-> [hi |-> 0],
     r17 |-> [band |-> 0], r1a |-> [band |-> 0, autotune |-> FALSE],
     r1b |-> [band |-> 0]]

\* After memset; cfg is set at once.
NewPriv ==
    [cfg |-> TRUE, rf |-> 0, if |-> 0, input |-> "air", vco |-> "min",
     harmonic |-> 0]

Init ==
    /\ chip \in [regs : {InitRegs}, fine : FineTunings]
    /\ priv = [NewPriv EXCEPT !.cfg = FALSE]
    /\ regs = InitRegs
    /\ vga = NoIndex
    /\ hist = [vhf |-> FALSE, clean |-> TRUE, tuned |-> 0, att |-> NoIndex, vga |-> NoIndex]

\* The PLL locks with the first VCO current, the second or not at all.
Locks == {"min", "max", "never"}

\* The same for the turns of set_freq64's loop, without and with the harmonic.
\* One turn at most locks: the second outcome counts where the first is
\* "never", or is not asked for.
TurnLocks == {l \in [1 .. 2 -> Locks] : l[1] = "never" \/ l[2] = "min"}

\* What the bus may do during a request that makes some transfers: number
\* left + 1 fails, late or not.  One failure after a TUNERINIT is a bound.
Never == [left |-> 99, late |-> FALSE]
Faults(clean, transfers) ==
    {Never} \union IF clean THEN [left : 0 .. transfers - 1, late : BOOLEAN] ELSE {}

Begin(fault) ==
    [chip |-> chip.regs, fine |-> chip.fine, priv |-> priv, regs |-> regs,
     vga |-> vga, clean |-> hist.clean, ok |-> TRUE,
     left |-> fault.left, late |-> fault.late]

IfOk(s, next) == IF s.ok THEN next ELSE s

\* An I2C transfer that takes the chip's registers to c.
Transfer(s, c) ==
    IF s.left > 0 THEN [s EXCEPT !.chip = c, !.left = @ - 1]
    ELSE [s EXCEPT !.chip = IF s.late THEN c ELSE @, !.ok = FALSE,
                   !.clean = FALSE, !.left = Never.left]

Read(s) == IfOk(s, Transfer(s, s.chip))

\* shadow_store, then r82xx_write_arr of the whole register.
Write(s, reg, contents) ==
    IfOk(s, Transfer([s EXCEPT !.regs[reg] = contents],
                     [s.chip EXCEPT ![reg] = contents]))

\* r82xx_write_reg_mask with the mask of one field.
SetField(s, reg, field, value) ==
    Write(s, reg, [s.regs[reg] EXCEPT ![field] = value])

\* With a mask outside of the fields modelled.
Resend(s, reg) == Write(s, reg, s.regs[reg])

\* Writes to n registers outside of the model, up to the first that fails.
Others(s, n) ==
    IfOk(s, IF s.left >= n THEN [s EXCEPT !.left = @ - n]
            ELSE [s EXCEPT !.ok = FALSE, !.clean = FALSE, !.left = Never.left])

-----------------------------------------------------------------------------
(* Tuning.                                                                 *)

\* The last range that begins at or below the frequency.
RangeOf(lo) ==
    CHOOSE i \in DOMAIN RangeStarts :
        /\ i = Len(RangeStarts) \/ lo < RangeStarts[i + 1]
        /\ RangeStarts[i] <= lo

SetMux(s, lo) ==
    LET range == RangeOf(lo)
        opened == SetField(s, "r17", "band", range)
        muxed == SetField(opened, "r1a", "band", range)
        filtered == SetField(muxed, "r1b", "band", range)
    IN  Resend(filtered, "r10")

\* vco_power_ref of the R828D.
VcoPowerRef == 1

\* Mutant: the reference stays the other chips' 2.
CorrectionOfR820T(fine) == IF fine > 2 THEN -1 ELSE IF fine < 2 THEN 1 ELSE 0

\* What vco_fine_tune adds to div_num.
Correction(fine) ==
    IF fine > VcoPowerRef THEN -1 ELSE IF fine < VcoPowerRef THEN 1 ELSE 0

\* A VCO current, unless it is the last one set.
SetVcoCurrent(s, current) ==
    IF ~s.ok \/ s.priv.vco = current THEN s
    ELSE LET written == SetField(s, "r12", "vco", current)
         IN  IfOk(written, [written EXCEPT !.priv.vco = current])

\* The words for the oscillator; an integer part too large is an error.
SetWords(s, vco) ==
    IF ~s.ok \/ Nint(vco) > NintMax THEN [s EXCEPT !.ok = FALSE]
    ELSE LET whole == SetField(s, "r14", "nint", Nint(vco))
             modulated == SetField(whole, "r12", "sdmOff", Sdm(vco) = 0)
             high == SetField(modulated, "r16", "hi", SdmHi(vco))
         IN  SetField(high, "r15", "low", SdmLo(vco))

\* Wait for the lock; without it, once more with the other current.
AwaitLock(s, lock) ==
    LET first == Read(s)
        second == Read(SetVcoCurrent(first, "max"))
        last == IF lock = "min" THEN first ELSE second
    IN  IF last.ok /\ lock = "never" THEN [last EXCEPT !.ok = FALSE]
        ELSE SetField(last, "r1a", "autotune", TRUE)

\* Mutant: the field is not cut to its 3 bits.
DivFieldUnmasked(n) == n

\* div_num << 5 under the mask 0xe0.
DivField(n) == n % 8

SetPll(s, lo, lock) ==
    LET mixDiv == MixDiv(lo)
        start == SetField(Resend(s, "r10"), "r1a", "autotune", FALSE)
        status == Read(SetVcoCurrent(start, "min"))
        divided == SetField(status, "r10", "div",
                            DivField(DivNum(mixDiv) + Correction(s.fine)))
    IN  AwaitLock(SetWords(divided, lo * mixDiv), lock)

\* One turn of set_freq64's loop: with the n-th harmonic (1: with none).
Attempt(s, n, lock) ==
    LET lo == s.priv.rf + s.priv.if
        muxed == SetMux([s EXCEPT !.priv.harmonic = IF n = 1 THEN 0 ELSE n], lo)
    IN  [mux |-> muxed.ok, lo |-> lo,
         s |-> SetPll(muxed, lo \div n, lock)]

\* The loop: above the threshold by the harmonic, below it by the harmonic
\* only if the oscillator does not lock close to its end.
TuneHarmonics(s, freq, locks) ==
    LET plain == Attempt(s, 1, locks[1])
    IN  IF freq > HarmonicFrom THEN Attempt(s, Harmonic, locks[2]).s
        ELSE IF plain.mux /\ ~plain.s.ok /\ plain.lo > RetryFrom
        THEN Attempt([plain.s EXCEPT !.ok = TRUE], Harmonic, locks[2]).s
        ELSE plain.s

\* The input changes at 345 MHz.
SelectInput(s, freq) ==
    LET input == IF freq > AirFrom THEN "air" ELSE "cable"
    IN  IF ~s.ok \/ s.priv.input = input THEN s
        ELSE SetField([s EXCEPT !.priv.input = input], "r05", "input", input)

\* r82xx_set_freq64; a frequency of 0 stands for the last one, but decides on
\* the harmonic as it is.
SetFreq64(s, asked, locks) ==
    LET freq == IF asked = 0 THEN s.priv.rf ELSE asked
    IN  SelectInput(TuneHarmonics([s EXCEPT !.priv.rf = freq], asked, locks), freq)

-----------------------------------------------------------------------------
(* r820_initialize, r82xx_init and what they call.                         *)

\* The registers at once; whether that fails is not looked at.
InitArray(s) ==
    LET new == [s EXCEPT !.priv = NewPriv, !.regs = InitRegs, !.clean = TRUE]
    IN  [Transfer(new, InitRegs) EXCEPT !.ok = TRUE]

\* The filter is calibrated with the oscillator at the default frequency.
Calibrate(s, lock) ==
    LET on == SetField(s, "r0f", "cali", TRUE)
        triggered == Others(SetPll(on, s.priv.rf, lock), 2)
    IN  Read(SetField(triggered, "r0f", "cali", FALSE))

\* r82xx_set_tv_standard; a first calibration without a code is repeated.
SetTvStandard(s, lock, code) ==
    LET top == Others(s, 1)
        default == IfOk(top, [top EXCEPT !.priv = [@ EXCEPT !.rf = 5600, !.if = 357]])
        first == Calibrate(default, lock)
        done == IF code THEN first ELSE Calibrate(first, lock)
    IN  Others(done, 1)

\* r82xx_sysfreq_sel.
SysfreqSel(s) ==
    LET air == IfOk(s, [s EXCEPT !.priv.input = "air"])
        input == SetField(air, "r05", "input", "air")
        top == Resend(Others(input, 3), "r1a")
    IN  Resend(Others(top, 1), "r1a")

\* r82xx_set_bandwidth(8 MHz), also after an initialisation that failed; the
\* result says how that went.
SetBandwidth(s) ==
    [Others([s EXCEPT !.ok = TRUE, !.priv.if = IfCarrier], 3) EXCEPT !.ok = s.ok]

Initialize(s, lock, code) ==
    SetBandwidth(SysfreqSel(SetTvStandard(InitArray(s), lock, code)))

\* r82xx_standby.
Standby(s) ==
    LET off == Write(Others(s, 1), "r05", [input |-> "off", manual |-> FALSE, lna |-> 0])
        mixer == Write(off, "r07", [auto |-> TRUE, mixer |-> 10])
        vgaOff == Write(Others(mixer, 3), "r0c", [vga |-> 5])
        caliOff == Write(vgaOff, "r0f", [cali |-> FALSE])
    IN  Others(Write(Others(caliOff, 1), "r17", [band |-> 0]), 1)

-----------------------------------------------------------------------------
(* Gains.                                                                  *)

\* set_vga_gain skips what it believes to be set.
SetVgaGain(s, i) ==
    IF s.vga = i THEN s
    ELSE LET written == SetField(s, "r0c", "vga", i)
         IN  IfOk(written, [written EXCEPT !.vga = i])

\* Mutant: the LNA is left to its automatic gain.
SetAllGainsAuto(s, i) ==
    LET manual == Read(SetField(s, "r07", "auto", FALSE))
    IN  SetField(SetField(manual, "r05", "lna", LnaGain(i)), "r07", "mixer", MixerGain(i))

\* Mutant: the LNA's register is written without a mask.
SetAllGainsWhole(s, i) ==
    LET manual == Read(SetField(SetField(s, "r05", "manual", TRUE), "r07", "auto", FALSE))
        lna == Write(manual, "r05",
                     [input |-> "air", manual |-> TRUE, lna |-> LnaGain(i)])
    IN  SetField(lna, "r07", "mixer", MixerGain(i))

\* set_all_gains: both stages to manual, then their gains.
SetAllGains(s, i) ==
    LET manual == Read(SetField(SetField(s, "r05", "manual", TRUE), "r07", "auto", FALSE))
    IN  SetField(SetField(manual, "r05", "lna", LnaGain(i)), "r07", "mixer", MixerGain(i))

-----------------------------------------------------------------------------
(* The requests.                                                           *)

End(s) ==
    /\ chip' = [regs |-> s.chip, fine |-> s.fine]
    /\ priv' = s.priv
    /\ regs' = s.regs
    /\ vga' = s.vga

\* The host goes into VHF mode.
TUNERINIT ==
    /\ ~hist.vhf
    /\ \E fault \in Faults(TRUE, MaxTransfers), lock \in Locks, code \in BOOLEAN :
        LET s == Initialize(Begin(fault), lock, code)
        IN  /\ End(s)
            /\ hist' = [vhf |-> TRUE, clean |-> s.clean, tuned |-> 0, att |-> NoIndex, vga |-> NoIndex]

\* Before the first TUNERINIT there is no address for the transfers, and
\* nothing reaches the chip.
TUNERSTDBY ==
    \E fault \in Faults(hist.clean, 11) :
        LET s == Standby(Begin(fault))
        IN  /\ End(IF priv.cfg THEN s ELSE [s EXCEPT !.chip = chip.regs])
            /\ hist' = [hist EXCEPT !.vhf = FALSE, !.clean = s.clean,
                                    !.tuned = 0, !.att = NoIndex,
                                    !.vga = NoIndex]

\* The host sends these in VHF mode, between TUNERINIT and TUNERSTDBY.
TUNERTUNE(freq) ==
    /\ hist.vhf
    /\ \E fault \in Faults(hist.clean, MaxTransfers), locks \in TurnLocks :
           LET s == SetFreq64(Begin(fault), freq, locks)
           IN  /\ End(s)
               /\ hist' = [hist EXCEPT !.clean = s.clean,
                                       !.tuned = IF s.ok THEN s.priv.rf ELSE 0]

R82XX_ATTENUATOR(i) ==
    /\ hist.vhf
    /\ \E fault \in Faults(hist.clean, 5) :
           LET s == SetAllGains(Begin(fault), i)
           IN  /\ End(s)
               /\ hist' = [hist EXCEPT !.clean = s.clean,
                                       !.att = IF s.ok THEN i ELSE NoIndex]

R82XX_VGA(i) ==
    /\ hist.vhf
    /\ \E fault \in Faults(hist.clean, 1) :
           LET s == SetVgaGain(Begin(fault), i)
           IN  /\ End(s)
               /\ hist' = [hist EXCEPT !.clean = s.clean,
                                       !.vga = IF s.ok THEN i ELSE NoIndex]

Next ==
    \/ TUNERINIT
    \/ TUNERSTDBY
    \/ \E freq \in Frequencies : TUNERTUNE(freq)
    \/ \E i \in AttSteps : R82XX_ATTENUATOR(i)
    \/ \E i \in VgaSteps : R82XX_VGA(i)

Spec == Init /\ [][Next]_vars

-----------------------------------------------------------------------------
(* Properties.                                                             *)

Indices == {NoIndex} \union 0 .. 28
Inputs == {"air", "cable", "off"}

\* A set of registers within the width of their fields.
Registers ==
    [r05 : [input : Inputs, manual : BOOLEAN, lna : 0 .. 15],
     r07 : [auto : BOOLEAN, mixer : 0 .. 15],
     r0c : [vga : 0 .. 15], r0f : [cali : BOOLEAN], r10 : [div : 0 .. 7],
     r12 : [vco : {"min", "max"}, sdmOff : BOOLEAN],
     r14 : [nint : 0 .. 255], r15 : [low : 0 .. SdmLow - 1],
     r16 : [hi : 0 .. (SdmSteps \div SdmLow) - 1],
     r17 : [band : 0 .. Len(RangeStarts)],
     r1a : [band : 0 .. Len(RangeStarts), autotune : BOOLEAN],
     r1b : [band : 0 .. Len(RangeStarts)]]

\* Every register holds what fits into it, also when a subtraction of the
\* divider wraps around and when the integer word is cut to 8 bits.
TypeOK ==
    /\ chip.regs \in Registers /\ regs \in Registers
    /\ chip.fine \in FineTunings
    /\ priv.input \in Inputs /\ priv.vco \in {"min", "max"}
    /\ priv.harmonic \in {0, Harmonic}
    /\ vga \in Indices /\ hist.att \in Indices /\ hist.vga \in Indices

\* The frequency the host means: what it asks for plus its idea of the IF.
Wanted == hist.tuned + IfCarrier

\* After a TUNERTUNE that succeeded, the chip's words make the oscillator run,
\* to half a step, at a multiple in its range of the LO the host means: what
\* it asks for plus the IF it subtracts again, or a fifth of that.  The filters
\* are those of that range.  If the chip reads the fine tuning the driver
\* reckons with, the field of the divider is one of the codes the register
\* description has (tuner_r82xx.c:189), and by that description the mixer
\* gets that LO.  This lasts, whatever failed before, until TUNERINIT,
\* TUNERSTDBY or another TUNERTUNE; the gains share registers with it.
\* With another reading the driver moves the field by one, without a word on
\* what the chip makes of it; below 27.66 MHz no divider fits, unnoticed.
TunedAsRequested ==
    LET r == chip.regs
        lo == Wanted \div (IF priv.harmonic = 0 THEN 1 ELSE priv.harmonic)
        word == Programmed(r.r14.nint, r.r16.hi, r.r15.low)
        RunsAt(divider) == Off(word, SdmSteps * lo * divider) <= Reference
    IN  hist.tuned # 0 /\ Fitting(lo) # {} =>
            /\ \E divider \in Fitting(lo) : RunsAt(divider)
            /\ chip.fine = VcoPowerRef =>
                   r.r10.div \in 0 .. 5 /\ RunsAt(2 ^ (r.r10.div + 1))
            /\ r.r12.sdmOff => r.r16.hi = 0 /\ r.r15.low = 0
            /\ {r.r17.band, r.r1a.band, r.r1b.band} = {RangeOf(Wanted)}

\* Since the last TUNERINIT and without a failed transfer, the input is the
\* one for the frequency last tuned, whatever the LNA in the same register
\* was set to.
InputFollows ==
    hist.clean /\ hist.tuned # 0 =>
        chip.regs.r05.input = IF hist.tuned > AirFrom THEN "air" ELSE "cable"

\* Once the attenuator was set without an error, LNA and mixer are at the
\* gains of that step and under manual control, whatever is tuned after it
\* and whatever transfer failed before it.
GainAsRequested ==
    hist.att # NoIndex =>
        /\ chip.regs.r05.manual /\ chip.regs.r05.lna = LnaGain(hist.att)
        /\ ~chip.regs.r07.auto /\ chip.regs.r07.mixer = MixerGain(hist.att)

\* "Update VGA Gain" (tuner_r82xx.c:2365): once the VGA was set without an
\* error, the chip has that gain.
VgaAsRequested == hist.vga # NoIndex => chip.regs.r0c.vga = hist.vga

=============================================================================
