-------------------------- MODULE R82xxTunerProofs --------------------------
(***************************************************************************)
(* Safety of the tuner driver for every reference, oscillator range and    *)
(* resolution, all frequencies and gain steps, and a transfer that fails   *)
(* anywhere in a request; and what the arithmetic of r82xx_set_pll gives.  *)
(***************************************************************************)
EXTENDS R82xxTuner, TLAPS

-----------------------------------------------------------------------------
(* Arithmetic of the oscillator.                                           *)


\* Quotient and remainder.
LEMMA DivMod ==
    ASSUME NEW a \in Nat, NEW b \in Nat \ {0}
    PROVE  /\ a \div b \in Nat
           /\ a % b \in Nat
           /\ a = b * (a \div b) + (a % b)
           /\ a % b < b
  BY SMT

LEMMA Product ==
    ASSUME NEW a \in Nat, NEW b \in Nat
    PROVE  a * b = b * a /\ a * b \in Nat
  BY SMT

\* Rounding a quotient by adding half of the divisor first.
LEMMA Rounding ==
    ASSUME NEW x \in Nat, NEW r \in Nat \ {0}
    PROVE  LET q == (r + x) \div (2 * r)
           IN  /\ q \in Nat
               /\ 2 * r * q <= x + r
               /\ x <= 2 * r * q + r
<1> DEFINE q == (r + x) \div (2 * r)
<1>1. /\ r + x \in Nat
      /\ 2 * r \in Nat \ {0}
  OBVIOUS
<1>2. /\ q \in Nat
      /\ (r + x) % (2 * r) \in Nat
      /\ r + x = (2 * r) * q + ((r + x) % (2 * r))
      /\ (r + x) % (2 * r) < 2 * r
  BY <1>1, DivMod
<1>3. (2 * r) * q \in Nat
  BY <1>2, SMT
<1> HIDE DEF q
<1>4. QED
  BY <1>2, <1>3, SMT DEF q

\* The two halves of the fractional word and the integer word together are
\* vco_div, as long as the integer part fits its 8 bits.
LEMMA WordsJoin ==
    ASSUME PllAssumption, NEW vco \in Nat, VcoDiv(vco) \in Nat,
           VcoDiv(vco) \div SdmSteps < 256
    PROVE  Programmed(Nint(vco), SdmHi(vco), SdmLo(vco)) =
               2 * Reference * VcoDiv(vco)
<1> DEFINE n == VcoDiv(vco) \div SdmSteps
           f == VcoDiv(vco) % SdmSteps
<1>1. /\ n \in Nat /\ f \in Nat
      /\ VcoDiv(vco) = SdmSteps * n + f
  BY DivMod, ZenonT(60) DEF PllAssumption
<1>2. /\ f \div SdmLow \in Nat /\ f % SdmLow \in Nat
      /\ f = SdmLow * (f \div SdmLow) + (f % SdmLow)
  BY <1>1, DivMod, ZenonT(60) DEF PllAssumption
<1>3. Nint(vco) = n
  <2>1. n % 256 = n
    <3> HIDE DEF n
    <3>1. n \in Nat /\ n < 256
      BY <1>1 DEF n
    <3>2. QED
      BY <3>1, SMT
  <2>2. QED
    BY <2>1 DEF Nint
<1>4. /\ SdmHi(vco) = f \div SdmLow
      /\ SdmLo(vco) = f % SdmLow
  BY DEF SdmHi, SdmLo, Sdm
<1>5. Nint(vco) * SdmSteps + SdmHi(vco) * SdmLow + SdmLo(vco) = VcoDiv(vco)
  <2>1. /\ n * SdmSteps = SdmSteps * n
        /\ (f \div SdmLow) * SdmLow = SdmLow * (f \div SdmLow)
        /\ SdmSteps * n \in Nat /\ SdmLow * (f \div SdmLow) \in Nat
    BY <1>1, <1>2, Product, ZenonT(60) DEF PllAssumption
  <2> HIDE DEF n, f
  <2>2. QED
    BY <1>1, <1>2, <1>3, <1>4, <2>1
<1>6. QED
  BY <1>5 DEF Programmed

\* The words set the oscillator to within half a step of what is wanted,
\* for every oscillator frequency the integer word can express: "We want to
\* approximate" of r82xx_set_pll.
THEOREM PllAccurate ==
    ASSUME PllAssumption, NEW vco \in Nat,
           VcoDiv(vco) \div SdmSteps < 256
    PROVE  Off(Programmed(Nint(vco), SdmHi(vco), SdmLo(vco)), SdmSteps * vco)
               <= Reference
<1> DEFINE x == SdmSteps * vco
           q == VcoDiv(vco)
<1>1. x \in Nat /\ Reference \in Nat \ {0}
  BY SMT DEF PllAssumption
<1>2. /\ q \in Nat
      /\ 2 * Reference * q <= x + Reference
      /\ x <= 2 * Reference * q + Reference
  <2> HIDE DEF x
  <2>1. QED
    BY <1>1, Rounding DEF VcoDiv, x
<1>3. Programmed(Nint(vco), SdmHi(vco), SdmLo(vco)) = 2 * Reference * q
  BY <1>2, WordsJoin
<1>4. 2 * Reference * q \in Nat
  BY <1>1, <1>2, SMT
<1> HIDE DEF x, q
<1>5. QED
  BY <1>1, <1>2, <1>3, <1>4 DEF Off, x

\* No two dividers fit a frequency, so that the loop's first is the only one,
\* and from VcoMin / 64 to VcoMin exactly one does.
THEOREM OneDivider ==
    ASSUME PllAssumption, NEW lo \in Nat
    PROVE  /\ \A m, n \in Fitting(lo) : m = n
           /\ (Fitting(lo) # {}) <=> (VcoMin <= 64 * lo /\ lo < VcoMin)
<1>1. VcoMin \in Nat \ {0}
  BY DEF PllAssumption
<1>2. \A m, n \in Fitting(lo) : m = n
  BY <1>1, SMT DEF Fitting, Dividers
<1>3. ASSUME Fitting(lo) # {}
      PROVE  VcoMin <= 64 * lo /\ lo < VcoMin
  BY <1>1, <1>3, SMT DEF Fitting, Dividers
<1>4. ASSUME VcoMin <= 64 * lo, lo < VcoMin
      PROVE  Fitting(lo) # {}
  <2>1. \E m \in Dividers : lo * m >= VcoMin /\ lo * m < 2 * VcoMin
    <3>1. CASE lo * 2 >= VcoMin BY <1>1, <1>4, <3>1, SMT DEF Dividers
    <3>2. CASE lo * 2 < VcoMin /\ lo * 4 >= VcoMin
      BY <1>1, <3>2, SMT DEF Dividers
    <3>3. CASE lo * 4 < VcoMin /\ lo * 8 >= VcoMin
      BY <1>1, <3>3, SMT DEF Dividers
    <3>4. CASE lo * 8 < VcoMin /\ lo * 16 >= VcoMin
      BY <1>1, <3>4, SMT DEF Dividers
    <3>5. CASE lo * 16 < VcoMin /\ lo * 32 >= VcoMin
      BY <1>1, <3>5, SMT DEF Dividers
    <3>6. CASE lo * 32 < VcoMin
      BY <1>1, <1>4, <3>6, SMT DEF Dividers
    <3>7. QED
      BY <1>1, <3>1, <3>2, <3>3, <3>4, <3>5, <3>6
  <2>2. QED
    BY <2>1 DEF Fitting
<1>5. QED
  BY <1>2, <1>3, <1>4

-----------------------------------------------------------------------------
(* The invariant.                                                          *)

Privs ==
    [cfg : BOOLEAN, rf : Nat, if : Nat, input : Inputs, vco : {"min", "max"},
     harmonic : {0, Harmonic}]

History ==
    [vhf : BOOLEAN, clean : BOOLEAN, tuned : Nat, att : Indices, vga : Indices]

TypeInv ==
    /\ chip \in [regs : Registers, fine : FineTunings]
    /\ regs \in Registers /\ priv \in Privs /\ vga \in Indices /\ hist \in History

\* In VHF mode the driver reckons with the IF of the host. Until a transfer
\* fails, register 5 of the chip is the shadow's, with the cached input.
Attuned(registers, shadow, p, clean) ==
    /\ p.if = IfCarrier
    /\ clean => /\ registers.r05 = shadow.r05
                /\ shadow.r05.input = p.input

\* The gains of step i, in the chip or in its shadow.
HasGain(r, i) ==
    /\ r.r05.manual /\ r.r05.lna = LnaGain(i)
    /\ ~r.r07.auto /\ r.r07.mixer = MixerGain(i)

InputFor(frequency) == IF frequency > AirFrom THEN "air" ELSE "cable"

TunerInv ==
    /\ TypeInv
    /\ hist.vhf => Attuned(chip.regs, regs, priv, hist.clean)
    /\ hist.tuned # 0 => hist.vhf
    /\ hist.clean /\ hist.tuned # 0 => priv.input = InputFor(hist.tuned)
    /\ hist.att # NoIndex => HasGain(chip.regs, hist.att) /\ HasGain(regs, hist.att)
    /\ TunedAsRequested

\* What a request works on.
States ==
    [chip : Registers, fine : FineTunings, priv : Privs, regs : Registers,
     vga : Indices, clean : BOOLEAN, ok : BOOLEAN, left : Nat, late : BOOLEAN]

-----------------------------------------------------------------------------
(* Transfers and registers.                                                *)

RegNames == DOMAIN InitRegs

\* From s to t the register was written, or not; a transfer that failed
\* leaves it half done and the state neither ok nor clean.
Written(s, t, reg, contents) ==
    /\ t \in States
    /\ t.fine = s.fine /\ t.priv = s.priv /\ t.vga = s.vga
    /\ t.clean => s.clean
    /\ t.ok => s.ok
    /\ ~s.ok => t = s
    /\ t.chip \in {s.chip, [s.chip EXCEPT ![reg] = contents]}
    /\ t.regs \in {s.regs, [s.regs EXCEPT ![reg] = contents]}
    /\ s.ok /\ (t.ok \/ t.clean) =>
           /\ t.chip = [s.chip EXCEPT ![reg] = contents]
           /\ t.regs = [s.regs EXCEPT ![reg] = contents]

LEMMA WriteStep ==
    ASSUME NEW s \in States, NEW reg, NEW contents,
           [s.chip EXCEPT ![reg] = contents] \in Registers,
           [s.regs EXCEPT ![reg] = contents] \in Registers
    PROVE  Written(s, Write(s, reg, contents), reg, contents)
<1> DEFINE c == [s.chip EXCEPT ![reg] = contents]
           r == [s.regs EXCEPT ![reg] = contents]
           stored == [s EXCEPT !.regs = r]
<1> HIDE DEF c, r
<1>1. /\ stored \in States
      /\ stored.regs = r
      /\ stored.chip = s.chip /\ stored.fine = s.fine /\ stored.priv = s.priv
      /\ stored.vga = s.vga /\ stored.clean = s.clean /\ stored.ok = s.ok
  BY DEF States, c, r
<1>2. Write(s, reg, contents) = IfOk(s, Transfer(stored, c))
  BY DEF Write, c, r
<1> HIDE DEF stored
<1> DEFINE t == Transfer(stored, c)
<1>3. /\ t \in States
      /\ t.fine = stored.fine /\ t.priv = stored.priv /\ t.vga = stored.vga
      /\ t.regs = stored.regs
      /\ t.chip \in {stored.chip, c}
      /\ t.clean => stored.clean
      /\ t.ok => stored.ok
      /\ t.ok \/ t.clean => t.chip = c
  <2>1. c \in Registers
    BY DEF c
  <2>2. CASE stored.left > 0
    <3>1. stored.left \in Nat /\ stored.left - 1 \in Nat
      BY <1>1, <2>2 DEF States
    <3>2. t = [stored EXCEPT !.chip = c, !.left = stored.left - 1]
      BY <2>2 DEF Transfer
    <3>3. QED
      BY <1>1, <2>1, <3>1, <3>2 DEF States
  <2>3. CASE ~(stored.left > 0)
    BY <1>1, <2>1, <2>3, ZenonT(60) DEF States, Transfer, Never
  <2>4. QED
    BY <2>2, <2>3
<1> HIDE DEF t
<1>4. QED
  BY <1>1, <1>2, <1>3 DEF Written, IfOk, c, r, t

\* What tuning leaves alone: the registers of the gains and of the input, all
\* that the driver has cached but the VCO's current, and a failure.
Retuned(s, t) ==
    /\ t \in States
    /\ t.fine = s.fine /\ t.vga = s.vga
    /\ t.chip.r05 = s.chip.r05 /\ t.chip.r07 = s.chip.r07
    /\ t.regs.r05 = s.regs.r05 /\ t.regs.r07 = s.regs.r07
    /\ t.priv.cfg = s.priv.cfg /\ t.priv.rf = s.priv.rf /\ t.priv.if = s.priv.if
    /\ t.priv.input = s.priv.input /\ t.priv.harmonic = s.priv.harmonic
    /\ t.clean => s.clean
    /\ t.ok => s.ok

LEMMA RetunedTwice ==
    ASSUME NEW s, NEW t, NEW u, Retuned(s, t), Retuned(t, u)
    PROVE  Retuned(s, u)
  BY DEF Retuned

TuningRegs == {"r0c", "r0f", "r10", "r12", "r14", "r15", "r16", "r17", "r1a", "r1b"}

LEMMA WrittenRetunes ==
    ASSUME NEW s \in States, NEW t, NEW reg \in TuningRegs, NEW contents,
           Written(s, t, reg, contents)
    PROVE  Retuned(s, t)
<1>1. s.chip \in Registers /\ s.regs \in Registers
  BY DEF States
<1>2. \A r \in Registers : /\ [r EXCEPT ![reg] = contents].r05 = r.r05
                           /\ [r EXCEPT ![reg] = contents].r07 = r.r07
  BY DEF Registers, TuningRegs
<1>3. QED
  BY <1>1, <1>2 DEF Written, Retuned

\* A field of the shadow's register changed, in the chip or in the shadow.
Changed(r, shadow, reg, field, value) ==
    [r EXCEPT ![reg] = [shadow[reg] EXCEPT ![field] = value]]

Bands == 0 .. Len(RangeStarts)
R05 == [input : Inputs, manual : BOOLEAN, lna : 0 .. 15]
R07 == [auto : BOOLEAN, mixer : 0 .. 15]
R0c == [vga : 0 .. 15]
R0f == [cali : BOOLEAN]
R10 == [div : 0 .. 7]
R12 == [vco : {"min", "max"}, sdmOff : BOOLEAN]
R14 == [nint : 0 .. 255]
R15 == [low : 0 .. SdmLow - 1]
R16 == [hi : 0 .. (SdmSteps \div SdmLow) - 1]
R17 == [band : Bands]
R1a == [band : Bands, autotune : BOOLEAN]

LEMMA RegisterTypes ==
    Registers = [r05 : R05, r07 : R07, r0c : R0c, r0f : R0f, r10 : R10, r12 : R12,
                 r14 : R14, r15 : R15, r16 : R16, r17 : R17, r1a : R1a, r1b : R17]
  BY DEF Registers, R05, R07, R0c, R0f, R10, R12, R14, R15, R16, R17, R1a, Bands

LEMMA RegisterUpdates ==
    ASSUME NEW r \in Registers
    PROVE  /\ \A c \in R05 : [r EXCEPT !["r05"] = c] \in Registers
           /\ \A c \in R07 : [r EXCEPT !["r07"] = c] \in Registers
           /\ \A c \in R0c : [r EXCEPT !["r0c"] = c] \in Registers
           /\ \A c \in R0f : [r EXCEPT !["r0f"] = c] \in Registers
           /\ \A c \in R10 : [r EXCEPT !["r10"] = c] \in Registers
           /\ \A c \in R12 : [r EXCEPT !["r12"] = c] \in Registers
           /\ \A c \in R14 : [r EXCEPT !["r14"] = c] \in Registers
           /\ \A c \in R15 : [r EXCEPT !["r15"] = c] \in Registers
           /\ \A c \in R16 : [r EXCEPT !["r16"] = c] \in Registers
           /\ \A c \in R17 : /\ [r EXCEPT !["r17"] = c] \in Registers
                            /\ [r EXCEPT !["r1b"] = c] \in Registers
           /\ \A c \in R1a : [r EXCEPT !["r1a"] = c] \in Registers
  BY RegisterTypes

\* Fields in a register of their own or shared with others.
LEMMA FieldUpdates ==
    ASSUME NEW q \in Registers
    PROVE  /\ \A i \in Inputs : [q["r05"] EXCEPT !["input"] = i] \in R05
           /\ \A b \in BOOLEAN : [q["r05"] EXCEPT !["manual"] = b] \in R05
           /\ \A g \in 0 .. 15 : [q["r05"] EXCEPT !["lna"] = g] \in R05
           /\ \A b \in BOOLEAN : [q["r07"] EXCEPT !["auto"] = b] \in R07
           /\ \A g \in 0 .. 15 : [q["r07"] EXCEPT !["mixer"] = g] \in R07
           /\ \A g \in 0 .. 15 : [q["r0c"] EXCEPT !["vga"] = g] \in R0c
           /\ \A b \in BOOLEAN : [q["r0f"] EXCEPT !["cali"] = b] \in R0f
           /\ \A d \in 0 .. 7 : [q["r10"] EXCEPT !["div"] = d] \in R10
           /\ \A c \in {"min", "max"} : [q["r12"] EXCEPT !["vco"] = c] \in R12
           /\ \A b \in BOOLEAN : [q["r12"] EXCEPT !["sdmOff"] = b] \in R12
           /\ \A n \in 0 .. 255 : [q["r14"] EXCEPT !["nint"] = n] \in R14
           /\ \A l \in 0 .. SdmLow - 1 : [q["r15"] EXCEPT !["low"] = l] \in R15
           /\ \A h \in 0 .. (SdmSteps \div SdmLow) - 1 :
                  [q["r16"] EXCEPT !["hi"] = h] \in R16
           /\ \A b \in Bands : /\ [q["r17"] EXCEPT !["band"] = b] \in R17
                               /\ [q["r1a"] EXCEPT !["band"] = b] \in R1a
                               /\ [q["r1b"] EXCEPT !["band"] = b] \in R17
           /\ \A b \in BOOLEAN : [q["r1a"] EXCEPT !["autotune"] = b] \in R1a
<1>1. /\ q["r05"] \in R05 /\ q["r07"] \in R07 /\ q["r0c"] \in R0c /\ q["r0f"] \in R0f
      /\ q["r10"] \in R10 /\ q["r12"] \in R12 /\ q["r14"] \in R14 /\ q["r15"] \in R15
      /\ q["r16"] \in R16 /\ q["r17"] \in R17 /\ q["r1a"] \in R1a /\ q["r1b"] \in R17
  BY RegisterTypes
<1>2. /\ \A i \in Inputs : [q["r05"] EXCEPT !["input"] = i] \in R05
      /\ \A b \in BOOLEAN : [q["r05"] EXCEPT !["manual"] = b] \in R05
      /\ \A g \in 0 .. 15 : [q["r05"] EXCEPT !["lna"] = g] \in R05
  BY <1>1 DEF R05
<1>3. /\ \A b \in BOOLEAN : [q["r07"] EXCEPT !["auto"] = b] \in R07
      /\ \A g \in 0 .. 15 : [q["r07"] EXCEPT !["mixer"] = g] \in R07
  BY <1>1 DEF R07
<1>4. /\ \A g \in 0 .. 15 : [q["r0c"] EXCEPT !["vga"] = g] \in R0c
      /\ \A b \in BOOLEAN : [q["r0f"] EXCEPT !["cali"] = b] \in R0f
      /\ \A d \in 0 .. 7 : [q["r10"] EXCEPT !["div"] = d] \in R10
  BY <1>1, SMTT(30) DEF R0c, R0f, R10
<1>5. /\ \A c \in {"min", "max"} : [q["r12"] EXCEPT !["vco"] = c] \in R12
      /\ \A b \in BOOLEAN : [q["r12"] EXCEPT !["sdmOff"] = b] \in R12
  BY <1>1 DEF R12
<1>6. /\ \A n \in 0 .. 255 : [q["r14"] EXCEPT !["nint"] = n] \in R14
      /\ \A l \in 0 .. SdmLow - 1 : [q["r15"] EXCEPT !["low"] = l] \in R15
      /\ \A h \in 0 .. (SdmSteps \div SdmLow) - 1 : [q["r16"] EXCEPT !["hi"] = h] \in R16
  BY <1>1, ZenonT(60) DEF R14, R15, R16
<1>7. /\ \A b \in Bands : /\ [q["r17"] EXCEPT !["band"] = b] \in R17
                          /\ [q["r1a"] EXCEPT !["band"] = b] \in R1a
                          /\ [q["r1b"] EXCEPT !["band"] = b] \in R17
      /\ \A b \in BOOLEAN : [q["r1a"] EXCEPT !["autotune"] = b] \in R1a
  BY <1>1 DEF R17, R1a
<1>8. QED
  BY <1>2, <1>3, <1>4, <1>5, <1>6, <1>7, ZenonT(60)

\* Which values fit which field.
Fits(reg, field, value) ==
    \/ reg = "r05" /\ field = "input" /\ value \in Inputs
    \/ reg = "r05" /\ field = "manual" /\ value \in BOOLEAN
    \/ reg = "r05" /\ field = "lna" /\ value \in 0 .. 15
    \/ reg = "r07" /\ field = "auto" /\ value \in BOOLEAN
    \/ reg = "r07" /\ field = "mixer" /\ value \in 0 .. 15
    \/ reg = "r0c" /\ field = "vga" /\ value \in 0 .. 15
    \/ reg = "r0f" /\ field = "cali" /\ value \in BOOLEAN
    \/ reg = "r10" /\ field = "div" /\ value \in 0 .. 7
    \/ reg = "r12" /\ field = "vco" /\ value \in {"min", "max"}
    \/ reg = "r12" /\ field = "sdmOff" /\ value \in BOOLEAN
    \/ reg = "r14" /\ field = "nint" /\ value \in 0 .. 255
    \/ reg = "r15" /\ field = "low" /\ value \in 0 .. SdmLow - 1
    \/ reg = "r16" /\ field = "hi" /\ value \in 0 .. (SdmSteps \div SdmLow) - 1
    \/ reg \in {"r17", "r1a", "r1b"} /\ field = "band" /\ value \in Bands
    \/ reg = "r1a" /\ field = "autotune" /\ value \in BOOLEAN

LEMMA ChangeFits ==
    ASSUME NEW r \in Registers, NEW q \in Registers,
           NEW reg, NEW field, NEW value, Fits(reg, field, value)
    PROVE  Changed(r, q, reg, field, value) \in Registers
<1> DEFINE c == [q[reg] EXCEPT ![field] = value]
<1>1. \/ reg = "r05" /\ c \in R05
      \/ reg = "r07" /\ c \in R07
      \/ reg = "r0c" /\ c \in R0c
      \/ reg = "r0f" /\ c \in R0f
      \/ reg = "r10" /\ c \in R10
      \/ reg = "r12" /\ c \in R12
      \/ reg = "r14" /\ c \in R14
      \/ reg = "r15" /\ c \in R15
      \/ reg = "r16" /\ c \in R16
      \/ reg \in {"r17", "r1b"} /\ c \in R17
      \/ reg = "r1a" /\ c \in R1a
  <2>1. CASE reg = "r05" BY <2>1, FieldUpdates, ZenonT(60) DEF Fits
  <2>2. CASE reg = "r07" BY <2>2, FieldUpdates, ZenonT(60) DEF Fits
  <2>3. CASE reg \in {"r0c", "r0f", "r10"} BY <2>3, FieldUpdates, ZenonT(60) DEF Fits
  <2>4. CASE reg = "r12" BY <2>4, FieldUpdates, ZenonT(60) DEF Fits
  <2>5. CASE reg \in {"r14", "r15", "r16"} BY <2>5, FieldUpdates, ZenonT(60) DEF Fits
  <2>6. CASE reg \in {"r17", "r1b"} BY <2>6, FieldUpdates, ZenonT(60) DEF Fits
  <2>7. CASE reg = "r1a" BY <2>7, FieldUpdates, ZenonT(60) DEF Fits
  <2>8. QED
    BY <2>1, <2>2, <2>3, <2>4, <2>5, <2>6, <2>7 DEF Fits
<1> HIDE DEF c
<1>2. [r EXCEPT ![reg] = c] \in Registers
  BY <1>1, RegisterUpdates
<1>3. QED
  BY <1>2 DEF Changed, c

\* A masked write.
LEMMA SetFieldStep ==
    ASSUME NEW s \in States, NEW reg, NEW field, NEW value, Fits(reg, field, value)
    PROVE  Written(s, SetField(s, reg, field, value), reg,
                   [s.regs[reg] EXCEPT ![field] = value])
<1>1. s.chip \in Registers /\ s.regs \in Registers
  BY DEF States
<1>2. /\ Changed(s.chip, s.regs, reg, field, value) \in Registers
      /\ Changed(s.regs, s.regs, reg, field, value) \in Registers
  BY <1>1, ChangeFits
<1>3. QED
  BY <1>2, WriteStep DEF SetField, Changed

LEMMA SetFieldRetunes ==
    ASSUME NEW s \in States, NEW reg \in TuningRegs, NEW field, NEW value,
           Fits(reg, field, value)
    PROVE  Retuned(s, SetField(s, reg, field, value))
  BY SetFieldStep, WrittenRetunes

\* A write of what the shadow has already.
LEMMA ResendStep ==
    ASSUME NEW s \in States, NEW reg \in {"r10", "r1a"}
    PROVE  /\ Written(s, Resend(s, reg), reg, s.regs[reg])
           /\ Retuned(s, Resend(s, reg))
<1>1. s.chip \in Registers /\ s.regs \in Registers
  BY DEF States
<1>2. s.regs["r10"] \in R10 /\ s.regs["r1a"] \in R1a
  BY <1>1, RegisterTypes
<1>3. /\ [s.chip EXCEPT ![reg] = s.regs[reg]] \in Registers
      /\ [s.regs EXCEPT ![reg] = s.regs[reg]] \in Registers
  BY <1>1, <1>2, RegisterUpdates
<1>4. Written(s, Resend(s, reg), reg, s.regs[reg])
  BY <1>3, WriteStep DEF Resend
<1>5. QED
  BY <1>4, WrittenRetunes DEF TuningRegs

\* A failed transfer that changes nothing in the chip.
LEMMA GivenUp ==
    ASSUME NEW s \in States
    PROVE  LET t == [s EXCEPT !.ok = FALSE, !.clean = FALSE, !.left = 99]
           IN  /\ t \in States
               /\ ~t.ok /\ ~t.clean
               /\ t.chip = s.chip /\ t.regs = s.regs /\ t.priv = s.priv
               /\ t.fine = s.fine /\ t.vga = s.vga
<1>1. FALSE \in BOOLEAN /\ 99 \in Nat
  OBVIOUS
<1>2. QED
  BY <1>1, ZenonT(60) DEF States

\* Transfers that leave the registers alone.
LEMMA ReadStep ==
    ASSUME NEW s \in States
    PROVE  /\ Retuned(s, Read(s))
           /\ Read(s).chip = s.chip /\ Read(s).regs = s.regs
           /\ Read(s).priv = s.priv
<1>1. CASE ~s.ok
  BY <1>1 DEF Read, IfOk, Retuned
<1>2. CASE s.ok /\ s.left > 0
  <2>1. s.left \in Nat /\ s.left - 1 \in Nat
    BY <1>2 DEF States
  <2>2. Read(s) = [s EXCEPT !.chip = s.chip, !.left = s.left - 1]
    BY <1>2 DEF Read, IfOk, Transfer
  <2>3. QED
    BY <2>1, <2>2 DEF States, Retuned
<1>3. CASE s.ok /\ ~(s.left > 0)
  <2>1. Read(s) = [s EXCEPT !.ok = FALSE, !.clean = FALSE, !.left = 99]
    BY <1>3, ZenonT(60) DEF Read, IfOk, Transfer, Never, States
  <2>2. QED
    BY <1>3, <2>1, GivenUp, ZenonT(60) DEF Retuned
<1>4. QED
  BY <1>1, <1>2, <1>3

LEMMA OthersStep ==
    ASSUME NEW s \in States, NEW n \in Nat
    PROVE  /\ Retuned(s, Others(s, n))
           /\ Others(s, n).chip = s.chip /\ Others(s, n).regs = s.regs
           /\ Others(s, n).priv = s.priv
<1>1. CASE ~s.ok
  BY <1>1 DEF Others, IfOk, Retuned
<1>2. CASE s.ok /\ s.left >= n
  <2>1. s.left \in Nat /\ s.left - n \in Nat
    BY <1>2 DEF States
  <2>2. Others(s, n) = [s EXCEPT !.left = s.left - n]
    BY <1>2 DEF Others, IfOk
  <2>3. QED
    BY <2>1, <2>2 DEF States, Retuned
<1>3. CASE s.ok /\ ~(s.left >= n)
  <2>1. Others(s, n) = [s EXCEPT !.ok = FALSE, !.clean = FALSE, !.left = 99]
    BY <1>3 DEF Others, IfOk, Never
  <2>2. QED
    BY <1>3, <2>1, GivenUp, ZenonT(60) DEF Retuned
<1>4. QED
  BY <1>1, <1>2, <1>3

-----------------------------------------------------------------------------
(* Values that fit.                                                        *)

\* Every frequency has its range.
LEMMA RangeExists ==
    ASSUME NEW lo \in Nat
    PROVE  RangeOf(lo) \in Bands
<1> DEFINE InRange(i) == /\ RangeStarts[i] <= lo
                         /\ i = Len(RangeStarts) \/ lo < RangeStarts[i + 1]
<1>1. /\ Len(RangeStarts) = 21 /\ DOMAIN RangeStarts = 1 .. 21
      /\ RangeStarts[1] = 0 /\ RangeStarts[2] = 5000 /\ RangeStarts[3] = 5500
      /\ RangeStarts[4] = 6000 /\ RangeStarts[5] = 6500 /\ RangeStarts[6] = 7000
      /\ RangeStarts[7] = 7500 /\ RangeStarts[8] = 8000 /\ RangeStarts[9] = 9000
      /\ RangeStarts[10] = 10000 /\ RangeStarts[11] = 11000
      /\ RangeStarts[12] = 12000 /\ RangeStarts[13] = 14000
      /\ RangeStarts[14] = 18000 /\ RangeStarts[15] = 22000
      /\ RangeStarts[16] = 25000 /\ RangeStarts[17] = 28000
      /\ RangeStarts[18] = 31000 /\ RangeStarts[19] = 45000
      /\ RangeStarts[20] = 58800 /\ RangeStarts[21] = 65000
  BY DEF RangeStarts
<1>2. \E i \in 1 .. 21 : InRange(i)
  <2>1. CASE lo < 7000
    <3>1. InRange(1) \/ InRange(2) \/ InRange(3) \/ InRange(4) \/ InRange(5)
      BY <1>1, <2>1
    <3>2. QED
      BY <3>1
  <2>2. CASE 7000 <= lo /\ lo < 14000
    <3>1. \/ InRange(6) \/ InRange(7) \/ InRange(8) \/ InRange(9)
          \/ InRange(10) \/ InRange(11) \/ InRange(12)
      BY <1>1, <2>2
    <3>2. QED
      BY <3>1
  <2>3. CASE 14000 <= lo
    <3>1. \/ InRange(13) \/ InRange(14) \/ InRange(15) \/ InRange(16) \/ InRange(17)
          \/ InRange(18) \/ InRange(19) \/ InRange(20) \/ InRange(21)
      BY <1>1, <2>3
    <3>2. QED
      BY <3>1
  <2>4. QED
    BY <2>1, <2>2, <2>3
<1>3. RangeOf(lo) \in DOMAIN RangeStarts
  BY <1>1, <1>2 DEF RangeOf
<1>4. QED
  BY <1>1, <1>3 DEF Bands

\* The words for the oscillator fit their registers.
LEMMA OscillatorFits ==
    ASSUME NEW vco \in Nat
    PROVE  /\ VcoDiv(vco) \in Nat
           /\ Nint(vco) \in 0 .. 255
           /\ SdmHi(vco) \in 0 .. (SdmSteps \div SdmLow) - 1
           /\ SdmLo(vco) \in 0 .. SdmLow - 1
           /\ Sdm(vco) = 0 => SdmHi(vco) = 0 /\ SdmLo(vco) = 0
<1> USE PllAssumption DEF PllAssumption
<1>1. VcoDiv(vco) \in Nat
  <2>1. SdmSteps * vco \in Nat
    BY Product
  <2>2. Reference + SdmSteps * vco \in Nat /\ 2 * Reference \in Nat \ {0}
    BY <2>1
  <2>3. QED
    BY <2>2, DivMod DEF VcoDiv
<1> DEFINE f == Sdm(vco)
           k == SdmSteps \div SdmLow
<1>2. /\ f \in Nat /\ f < SdmSteps
      /\ VcoDiv(vco) \div SdmSteps \in Nat
  BY <1>1, DivMod DEF Sdm
<1>3. Nint(vco) \in 0 .. 255
  BY <1>2, SMT DEF Nint
<1>4. /\ k \in Nat /\ SdmSteps = SdmLow * k
  BY DivMod
<1>5. /\ SdmHi(vco) \in Nat /\ SdmLo(vco) \in Nat
      /\ f = SdmLow * SdmHi(vco) + SdmLo(vco)
      /\ SdmLo(vco) < SdmLow
  BY <1>2, DivMod DEF SdmHi, SdmLo
<1>6. SdmHi(vco) < k
  <2>1. ASSUME NEW h \in Nat, NEW m \in Nat, m <= h
        PROVE  SdmLow * m <= SdmLow * h
    BY <2>1, SMT
  <2>2. SdmLow * SdmHi(vco) \in Nat /\ SdmLow * k \in Nat
    BY <1>4, <1>5, Product
  <2> HIDE DEF f, k
  <2>3. QED
    BY <1>2, <1>4, <1>5, <2>1, <2>2
<1>7. ASSUME f = 0 PROVE SdmHi(vco) = 0 /\ SdmLo(vco) = 0
  BY <1>7, SMT DEF SdmHi, SdmLo
<1> HIDE DEF f, k
<1>8. QED
  BY <1>1, <1>3, <1>4, <1>5, <1>6, <1>7 DEF f, k

LEMMA DividerFits ==
    ASSUME NEW lo \in Nat, NEW fine \in FineTunings
    PROVE  /\ MixDiv(lo) \in Nat
           /\ DivNum(MixDiv(lo)) \in 0 .. 5
           /\ Correction(fine) \in {-1, 0, 1}
           /\ DivField(DivNum(MixDiv(lo)) + Correction(fine)) \in 0 .. 7
           /\ lo * MixDiv(lo) \in Nat
<1>1. MixDiv(lo) \in Dividers \union {128}
  BY DEF MixDiv, Fitting
<1>2. MixDiv(lo) \in Nat
  BY <1>1 DEF Dividers
<1>3. DivNum(MixDiv(lo)) \in 0 .. 5
  BY <1>2 DEF DivNum
<1>4. Correction(fine) \in {-1, 0, 1}
  BY DEF Correction
<1>5. QED
  BY <1>2, <1>3, <1>4, Product DEF DivField

\* Where a divider fits, that is the one.
LEMMA DividerIsFitting ==
    ASSUME NEW lo, Fitting(lo) # {}
    PROVE  MixDiv(lo) \in Fitting(lo)
  BY DEF MixDiv

\* Taken as it is, the code in the field stands for the divider chosen.
LEMMA FieldIsDivider ==
    ASSUME NEW lo \in Nat, Fitting(lo) # {}
    PROVE  LET field == DivField(DivNum(MixDiv(lo)) + Correction(VcoPowerRef))
           IN  field \in 0 .. 5 /\ 2 ^ (field + 1) = MixDiv(lo)
<1>1. MixDiv(lo) \in Dividers
  BY DividerIsFitting DEF Fitting
<1>2. /\ 2 ^ 1 = 2 /\ 2 ^ 2 = 4 /\ 2 ^ 3 = 8 /\ 2 ^ 4 = 16 /\ 2 ^ 5 = 32 /\ 2 ^ 6 = 64
  BY SMT
<1>3. \A d \in 0 .. 5 : DivField(d + Correction(VcoPowerRef)) = d
  BY SMT DEF DivField, Correction, VcoPowerRef
<1> DEFINE m == MixDiv(lo)
<1> HIDE DEF m
<1>4. 2 ^ (DivNum(m) + 1) = m /\ DivNum(m) \in 0 .. 5
  <2>1. m \in Dividers
    BY <1>1 DEF m
  <2>2. CASE m = 2 BY <1>2, <2>2 DEF DivNum
  <2>3. CASE m = 4 BY <1>2, <2>3 DEF DivNum
  <2>4. CASE m = 8 BY <1>2, <2>4 DEF DivNum
  <2>5. CASE m = 16 BY <1>2, <2>5 DEF DivNum
  <2>6. CASE m = 32 BY <1>2, <2>6 DEF DivNum
  <2>7. CASE m = 64 BY <1>2, <2>7 DEF DivNum
  <2>8. QED
    BY <2>1, <2>2, <2>3, <2>4, <2>5, <2>6, <2>7 DEF Dividers
<1>5. QED
  BY <1>3, <1>4 DEF m

\* What fits the oscillator's range fits the integer word.
LEMMA RangeFitsWord ==
    ASSUME NEW lo \in Nat, Fitting(lo) # {}
    PROVE  VcoDiv(lo * MixDiv(lo)) \div SdmSteps < 256
<1> USE PllAssumption DEF PllAssumption
<1> DEFINE vco == lo * MixDiv(lo)
           q == VcoDiv(vco)
<1>1. vco \in Nat /\ vco < 2 * VcoMin
  <2>1. MixDiv(lo) \in Fitting(lo)
    BY DividerIsFitting
  <2>2. QED
    BY <2>1, Product DEF Fitting, Dividers
<1> HIDE DEF vco
<1>2. /\ q \in Nat /\ q \div SdmSteps \in Nat
      /\ SdmSteps * (q \div SdmSteps) <= q
  <2>1. q \in Nat
    BY <1>1, OscillatorFits
  <2> HIDE DEF q
  <2>2. /\ q \div SdmSteps \in Nat /\ q % SdmSteps \in Nat
        /\ q = SdmSteps * (q \div SdmSteps) + (q % SdmSteps)
    BY <2>1, DivMod
  <2>3. SdmSteps * (q \div SdmSteps) \in Nat
    BY <2>2, Product
  <2>4. QED
    BY <2>1, <2>2, <2>3
<1>3. 2 * Reference * q <= SdmSteps * vco + Reference
  <2>1. SdmSteps * vco \in Nat /\ Reference \in Nat \ {0}
    BY <1>1, Product
  <2>2. QED
    BY <2>1, Rounding DEF VcoDiv
<1>4. SdmSteps * vco <= 510 * (Reference * SdmSteps)
  <2>1. vco <= 510 * Reference
    BY <1>1
  <2>2. ASSUME NEW a \in Nat, NEW b \in Nat, a <= b
        PROVE  SdmSteps * a <= SdmSteps * b
    BY <2>2, SMT
  <2>3. 510 * Reference \in Nat
    OBVIOUS
  <2>4. SdmSteps * (510 * Reference) = 510 * (Reference * SdmSteps)
    BY SMT
  <2>5. QED
    BY <1>1, <2>1, <2>2, <2>3, <2>4
<1>5. ASSUME q \div SdmSteps >= 256 PROVE FALSE
  <2> DEFINE n == q \div SdmSteps
  <2>1. SdmSteps * 256 <= SdmSteps * n
    <3>1. ASSUME NEW h \in Nat, h >= 256 PROVE SdmSteps * 256 <= SdmSteps * h
      BY <3>1, SMT
    <3>2. QED
      BY <1>2, <1>5, <3>1
  <2>2. SdmSteps * n \in Nat
    BY <1>2, Product
  <2>3. 256 * SdmSteps <= q
    <3> HIDE DEF n
    <3>1. SdmSteps * n <= q
      BY <1>2 DEF n
    <3>2. QED
      BY <1>2, <2>1, <2>2, <3>1
  <2>4. Reference * (256 * SdmSteps) <= Reference * q
    <3>1. ASSUME NEW a \in Nat, NEW b \in Nat, a <= b
          PROVE  Reference * a <= Reference * b
      BY <3>1, SMT
    <3>2. 256 * SdmSteps \in Nat
      OBVIOUS
    <3> HIDE DEF q
    <3>3. QED
      BY <1>2, <2>3, <3>1, <3>2
  <2>5. Reference * (256 * SdmSteps) = 256 * (Reference * SdmSteps)
    BY SMT
  <2>6. 2 * Reference * q = 2 * (Reference * q)
    <3> HIDE DEF q
    <3>1. QED BY <1>2, SMT
  <2>7. Reference * SdmSteps >= Reference /\ Reference * SdmSteps \in Nat
    BY SMT
  <2>8. SdmSteps * vco \in Nat /\ Reference * q \in Nat
    BY <1>1, <1>2, Product
  <2> HIDE DEF q
  <2>9. QED
    BY <1>3, <1>4, <2>4, <2>5, <2>6, <2>7, <2>8
<1>6. QED
  BY <1>2, <1>5 DEF vco

-----------------------------------------------------------------------------
(* Tuning.                                                                 *)

Filtered(r, lo) ==
    r.r17.band = RangeOf(lo) /\ r.r1a.band = RangeOf(lo) /\ r.r1b.band = RangeOf(lo)

Worded(r, div, vco) ==
    /\ r.r10.div = div
    /\ r.r14.nint = Nint(vco)
    /\ r.r12.sdmOff = (Sdm(vco) = 0)
    /\ r.r16.hi = SdmHi(vco) /\ r.r15.low = SdmLo(vco)

\* Chip and shadow are set for a frequency.
Filters(s, lo) == Filtered(s.chip, lo) /\ Filtered(s.regs, lo)
Words(s, div, vco) == Worded(s.chip, div, vco) /\ Worded(s.regs, div, vco)

\* A step that leaves what is set already, whether it fails or not.
Keeps(s, t) ==
    /\ Retuned(s, t)
    /\ \A lo : Filters(s, lo) => Filters(t, lo)
    /\ \A div, vco : Words(s, div, vco) => Words(t, div, vco)

LEMMA KeepsTwice ==
    ASSUME NEW s, NEW t, NEW u, Keeps(s, t), Keeps(t, u)
    PROVE  Keeps(s, u)
  BY RetunedTwice DEF Keeps

LEMMA RetunedState ==
    ASSUME NEW s, NEW t, Retuned(s, t)
    PROVE  t \in States
  BY DEF Retuned

LEMMA ReadKeeps ==
    ASSUME NEW s \in States
    PROVE  Keeps(s, Read(s))
  BY ReadStep DEF Keeps, Filters, Words

\* The fields that share a register with those of a frequency.
LEMMA SharedFieldKeeps ==
    ASSUME NEW s \in States, NEW reg, NEW field, NEW value, Fits(reg, field, value),
           \/ reg = "r1a" /\ field = "autotune"
           \/ reg = "r12" /\ field = "vco"
           \/ reg = "r0f" /\ field = "cali"
    PROVE  Keeps(s, SetField(s, reg, field, value))
<1> DEFINE t == SetField(s, reg, field, value)
<1>1. Written(s, t, reg, [s.regs[reg] EXCEPT ![field] = value])
  BY SetFieldStep
<1>2. Retuned(s, t)
  BY SetFieldRetunes DEF TuningRegs
<1>3. s.chip \in Registers /\ s.regs \in Registers
  BY DEF States
<1>4. \A r \in {s.chip, s.regs} :
          LET q == Changed(r, s.regs, reg, field, value)
          IN  /\ q.r17 = r.r17 /\ q.r1b = r.r1b /\ q.r10 = r.r10
              /\ q.r14 = r.r14 /\ q.r15 = r.r15 /\ q.r16 = r.r16
              /\ q.r1a.band \in {r.r1a.band, s.regs.r1a.band}
              /\ q.r12.sdmOff \in {r.r12.sdmOff, s.regs.r12.sdmOff}
  <2>1. s.regs["r1a"] \in R1a /\ s.regs["r12"] \in R12
    BY <1>3, RegisterTypes
  <2>2. [s.regs["r1a"] EXCEPT !["autotune"] = value].band = s.regs.r1a.band
    BY <2>1 DEF R1a
  <2>3. [s.regs["r12"] EXCEPT !["vco"] = value].sdmOff = s.regs.r12.sdmOff
    BY <2>1 DEF R12
  <2>4. CASE reg = "r1a" /\ field = "autotune"
    BY <1>3, <2>2, <2>4, RegisterTypes DEF Changed
  <2>5. CASE reg = "r12" /\ field = "vco"
    BY <1>3, <2>3, <2>5, RegisterTypes DEF Changed
  <2>6. CASE reg = "r0f" /\ field = "cali"
    BY <1>3, <2>6, RegisterTypes DEF Changed
  <2>7. QED
    BY <2>4, <2>5, <2>6
<1>5. /\ t.chip \in {s.chip, Changed(s.chip, s.regs, reg, field, value)}
      /\ t.regs \in {s.regs, Changed(s.regs, s.regs, reg, field, value)}
  BY <1>1 DEF Written, Changed
<1> HIDE DEF t
<1>6. \A lo : Filters(s, lo) => Filters(t, lo)
  BY <1>4, <1>5 DEF Filters, Filtered
<1>7. \A div, vco : Words(s, div, vco) => Words(t, div, vco)
  BY <1>4, <1>5 DEF Words, Worded
<1>8. QED
  BY <1>2, <1>6, <1>7 DEF Keeps, t

LEMMA SetVcoCurrentKeeps ==
    ASSUME NEW s \in States, NEW current \in {"min", "max"}
    PROVE  Keeps(s, SetVcoCurrent(s, current))
<1>1. CASE ~s.ok \/ s.priv.vco = current
  BY <1>1 DEF SetVcoCurrent, Keeps, Retuned
<1>2. CASE ~(~s.ok \/ s.priv.vco = current)
  <2> DEFINE w == SetField(s, "r12", "vco", current)
             t == [w EXCEPT !.priv.vco = current]
  <2>1. Keeps(s, w)
    BY SharedFieldKeeps DEF Fits
  <2>2. w \in States
    BY <2>1, RetunedState DEF Keeps
  <2>3. SetVcoCurrent(s, current) \in {w, t}
    BY <1>2 DEF SetVcoCurrent, IfOk
  <2> HIDE DEF w
  <2>4. Keeps(w, t)
    <3>1. /\ t \in States
          /\ t.chip = w.chip /\ t.regs = w.regs /\ t.fine = w.fine /\ t.vga = w.vga
          /\ t.clean = w.clean /\ t.ok = w.ok
          /\ t.priv = [w.priv EXCEPT !.vco = current] /\ w.priv \in Privs
      BY <2>2 DEF States, Privs
    <3> HIDE DEF t
    <3>2. QED
      BY <3>1 DEF Keeps, Retuned, Filters, Words, Privs
  <2>5. Keeps(s, t)
    BY <2>1, <2>4, KeepsTwice
  <2>6. QED
    BY <2>1, <2>3, <2>5
<1>3. QED
  BY <1>1, <1>2

LEMMA NoLockKeeps ==
    ASSUME NEW s \in States
    PROVE  Keeps(s, [s EXCEPT !.ok = FALSE])
  BY DEF States, Keeps, Retuned, Filters, Words

LEMMA AwaitLockKeeps ==
    ASSUME NEW s \in States, NEW lock
    PROVE  Keeps(s, AwaitLock(s, lock))
<1> DEFINE first == Read(s)
           current == SetVcoCurrent(first, "max")
           second == Read(current)
           last == IF lock = "min" THEN first ELSE second
<1>1. Keeps(s, first) /\ first \in States
  BY ReadKeeps, RetunedState DEF Keeps
<1>2. Keeps(first, current) /\ current \in States
  BY <1>1, SetVcoCurrentKeeps, RetunedState DEF Keeps
<1>3. Keeps(current, second) /\ second \in States
  BY <1>2, ReadKeeps, RetunedState DEF Keeps
<1>4. AwaitLock(s, lock) \in
          {[last EXCEPT !.ok = FALSE], SetField(last, "r1a", "autotune", TRUE)}
  BY DEF AwaitLock
<1> HIDE DEF first, current, second
<1>5. Keeps(s, last) /\ last \in States
  BY <1>1, <1>2, <1>3, KeepsTwice
<1> HIDE DEF last
<1>6. /\ Keeps(last, [last EXCEPT !.ok = FALSE])
      /\ Keeps(last, SetField(last, "r1a", "autotune", TRUE))
  BY <1>5, NoLockKeeps, SharedFieldKeeps DEF Fits
<1>7. Keeps(s, [last EXCEPT !.ok = FALSE])
  BY <1>5, <1>6, KeepsTwice
<1>8. Keeps(s, SetField(last, "r1a", "autotune", TRUE))
  BY <1>5, <1>6, KeepsTwice
<1>9. QED
  BY <1>4, <1>7, <1>8

\* A field written without a failure is in the chip and in the shadow.
LEMMA SetFieldDone ==
    ASSUME NEW s \in States, NEW reg, NEW field, NEW value, Fits(reg, field, value),
           SetField(s, reg, field, value).ok
    PROVE  LET t == SetField(s, reg, field, value)
           IN  /\ t.chip = Changed(s.chip, s.regs, reg, field, value)
               /\ t.regs = Changed(s.regs, s.regs, reg, field, value)
<1> DEFINE t == SetField(s, reg, field, value)
<1>1. Written(s, t, reg, [s.regs[reg] EXCEPT ![field] = value]) /\ t.ok
  BY SetFieldStep
<1> HIDE DEF t
<1>2. /\ t.chip = Changed(s.chip, s.regs, reg, field, value)
      /\ t.regs = Changed(s.regs, s.regs, reg, field, value)
  BY <1>1 DEF Written, Changed
<1>3. QED
  BY <1>2 DEF t

\* The filters of the range.
LEMMA SetMuxStep ==
    ASSUME NEW s \in States, NEW lo \in Nat
    PROVE  /\ Retuned(s, SetMux(s, lo))
           /\ SetMux(s, lo).ok => Filters(SetMux(s, lo), lo)
<1> DEFINE b == RangeOf(lo)
           opened == SetField(s, "r17", "band", b)
           muxed == SetField(opened, "r1a", "band", b)
           filtered == SetField(muxed, "r1b", "band", b)
           t == Resend(filtered, "r10")
<1>1. SetMux(s, lo) = t
  BY DEF SetMux
<1>2. b \in Bands
  BY RangeExists
<1> HIDE DEF b
<1>3. Retuned(s, opened) /\ opened \in States
  BY <1>2, SetFieldRetunes, RetunedState DEF Fits, TuningRegs
<1>4. opened.ok => /\ opened.chip = Changed(s.chip, s.regs, "r17", "band", b)
                   /\ opened.regs = Changed(s.regs, s.regs, "r17", "band", b)
  BY <1>2, SetFieldDone DEF Fits
<1> HIDE DEF opened
<1>5. Retuned(opened, muxed) /\ muxed \in States
  BY <1>2, <1>3, SetFieldRetunes, RetunedState DEF Fits, TuningRegs
<1>6. muxed.ok => /\ muxed.chip = Changed(opened.chip, opened.regs, "r1a", "band", b)
                  /\ muxed.regs = Changed(opened.regs, opened.regs, "r1a", "band", b)
  BY <1>2, <1>3, SetFieldDone DEF Fits
<1> HIDE DEF muxed
<1>7. Retuned(muxed, filtered) /\ filtered \in States
  BY <1>2, <1>5, SetFieldRetunes, RetunedState DEF Fits, TuningRegs
<1>8. filtered.ok =>
          /\ filtered.chip = Changed(muxed.chip, muxed.regs, "r1b", "band", b)
          /\ filtered.regs = Changed(muxed.regs, muxed.regs, "r1b", "band", b)
  BY <1>2, <1>5, SetFieldDone DEF Fits
<1> HIDE DEF filtered
<1>9. Retuned(filtered, t) /\ Written(filtered, t, "r10", filtered.regs["r10"])
  BY <1>7, ResendStep
<1> HIDE DEF t
<1>10. Retuned(s, t)
  BY <1>3, <1>5, <1>7, <1>9, RetunedTwice
<1>11. ASSUME t.ok PROVE Filters(t, lo)
  <2>1. opened.ok /\ muxed.ok /\ filtered.ok
    BY <1>5, <1>7, <1>9, <1>11 DEF Retuned
  <2>2. /\ s.chip \in Registers /\ s.regs \in Registers
        /\ opened.chip \in Registers /\ opened.regs \in Registers
        /\ muxed.chip \in Registers /\ muxed.regs \in Registers
        /\ filtered.chip \in Registers /\ filtered.regs \in Registers
    BY <1>3, <1>5, <1>7 DEF States
  <2>3. opened.chip.r17.band = b /\ opened.regs.r17.band = b
    BY <1>4, <2>1, <2>2, RegisterTypes DEF Changed, R17
  <2>4. /\ muxed.chip.r17.band = b /\ muxed.regs.r17.band = b
        /\ muxed.chip.r1a.band = b /\ muxed.regs.r1a.band = b
    BY <1>6, <2>1, <2>2, <2>3, RegisterTypes DEF Changed, R1a
  <2>5. /\ filtered.chip.r17.band = b /\ filtered.regs.r17.band = b
        /\ filtered.chip.r1a.band = b /\ filtered.regs.r1a.band = b
        /\ filtered.chip.r1b.band = b /\ filtered.regs.r1b.band = b
    BY <1>8, <2>1, <2>2, <2>4, RegisterTypes, SMTT(30) DEF Changed, R17
  <2>6. /\ t.chip.r17 = filtered.chip.r17 /\ t.regs.r17 = filtered.regs.r17
        /\ t.chip.r1a = filtered.chip.r1a /\ t.regs.r1a = filtered.regs.r1a
        /\ t.chip.r1b = filtered.chip.r1b /\ t.regs.r1b = filtered.regs.r1b
    BY <1>9, <2>2, RegisterTypes DEF Written
  <2>7. QED
    BY <2>5, <2>6 DEF Filters, Filtered, b
<1>12. QED
  BY <1>1, <1>10, <1>11

\* The words, behind a divider that is set already.
LEMMA SetWordsStep ==
    ASSUME NEW s \in States, NEW vco \in Nat
    PROVE  LET t == SetWords(s, vco)
           IN  /\ Retuned(s, t)
               /\ \A lo : Filters(s, lo) => Filters(t, lo)
               /\ \A div : t.ok /\ s.chip.r10.div = div /\ s.regs.r10.div = div =>
                      Words(t, div, vco)
<1>1. CASE ~s.ok \/ Nint(vco) > NintMax
  <2>1. SetWords(s, vco) = [s EXCEPT !.ok = FALSE]
    BY <1>1 DEF SetWords
  <2>2. Keeps(s, SetWords(s, vco)) /\ ~SetWords(s, vco).ok
    BY <2>1, NoLockKeeps DEF States
  <2>3. QED
    BY <2>2 DEF Keeps
<1>2. CASE ~(~s.ok \/ Nint(vco) > NintMax)
  <2> DEFINE whole == SetField(s, "r14", "nint", Nint(vco))
             off == (Sdm(vco) = 0)
             modulated == SetField(whole, "r12", "sdmOff", off)
             high == SetField(modulated, "r16", "hi", SdmHi(vco))
             t == SetField(high, "r15", "low", SdmLo(vco))
  <2>1. SetWords(s, vco) = t
    BY <1>2 DEF SetWords
  <2>2. /\ Fits("r14", "nint", Nint(vco)) /\ Fits("r12", "sdmOff", off)
        /\ Fits("r16", "hi", SdmHi(vco)) /\ Fits("r15", "low", SdmLo(vco))
    BY OscillatorFits DEF Fits
  <2> HIDE DEF off
  <2>3. Retuned(s, whole) /\ whole \in States
    BY <2>2, SetFieldRetunes, RetunedState DEF TuningRegs
  <2>4. Retuned(whole, modulated) /\ modulated \in States
    BY <2>2, <2>3, SetFieldRetunes, RetunedState DEF TuningRegs
  <2>5. Retuned(modulated, high) /\ high \in States
    BY <2>2, <2>4, SetFieldRetunes, RetunedState DEF TuningRegs
  <2>6. Retuned(high, t) /\ t \in States
    BY <2>2, <2>5, SetFieldRetunes, RetunedState DEF TuningRegs
  <2>7. Retuned(s, t)
    BY <2>3, <2>4, <2>5, <2>6, RetunedTwice
  <2>8. /\ Written(s, whole, "r14", [s.regs["r14"] EXCEPT !["nint"] = Nint(vco)])
        /\ Written(whole, modulated, "r12", [whole.regs["r12"] EXCEPT !["sdmOff"] = off])
        /\ Written(modulated, high, "r16",
                   [modulated.regs["r16"] EXCEPT !["hi"] = SdmHi(vco)])
        /\ Written(high, t, "r15", [high.regs["r15"] EXCEPT !["low"] = SdmLo(vco)])
    BY <2>2, <2>3, <2>4, <2>5, SetFieldStep
  <2> HIDE DEF whole, modulated, high, t
  <2>9. /\ s.chip \in Registers /\ s.regs \in Registers
        /\ whole.chip \in Registers /\ whole.regs \in Registers
        /\ modulated.chip \in Registers /\ modulated.regs \in Registers
        /\ high.chip \in Registers /\ high.regs \in Registers
        /\ t.chip \in Registers /\ t.regs \in Registers
    BY <2>3, <2>4, <2>5, <2>6 DEF States
  <2> DEFINE Same(v, w) == /\ w.chip.r17 = v.chip.r17 /\ w.regs.r17 = v.regs.r17
                           /\ w.chip.r1a = v.chip.r1a /\ w.regs.r1a = v.regs.r1a
                           /\ w.chip.r1b = v.chip.r1b /\ w.regs.r1b = v.regs.r1b
                           /\ w.chip.r10 = v.chip.r10 /\ w.regs.r10 = v.regs.r10
  <2>10. ASSUME NEW v, NEW w, NEW reg \in {"r12", "r14", "r15", "r16"}, NEW c,
                Written(v, w, reg, c), v.chip \in Registers, v.regs \in Registers
         PROVE  Same(v, w)
    BY <2>10, RegisterTypes DEF Written
  <2>11. /\ t.chip.r17 = s.chip.r17 /\ t.regs.r17 = s.regs.r17
         /\ t.chip.r1a = s.chip.r1a /\ t.regs.r1a = s.regs.r1a
         /\ t.chip.r1b = s.chip.r1b /\ t.regs.r1b = s.regs.r1b
         /\ t.chip.r10 = s.chip.r10 /\ t.regs.r10 = s.regs.r10
    <3> HIDE DEF Same
    <3>1. Same(s, whole) /\ Same(whole, modulated)
      BY <2>8, <2>9, <2>10
    <3>2. Same(modulated, high) /\ Same(high, t)
      BY <2>8, <2>9, <2>10
    <3>3. QED
      BY <3>1, <3>2 DEF Same
  <2>12. \A lo : Filters(s, lo) => Filters(t, lo)
    BY <2>11 DEF Filters, Filtered
  <2>13. ASSUME NEW div, t.ok, s.chip.r10.div = div, s.regs.r10.div = div
         PROVE  Words(t, div, vco)
    <3>1. s.ok /\ whole.ok /\ modulated.ok /\ high.ok
      BY <2>3, <2>4, <2>5, <2>6, <2>13, SMTT(30) DEF Retuned
    <3>2. whole.chip.r14.nint = Nint(vco) /\ whole.regs.r14.nint = Nint(vco)
      BY <2>8, <2>9, <3>1, RegisterTypes DEF Written, R14
    <3>3. /\ modulated.chip.r14.nint = Nint(vco) /\ modulated.regs.r14.nint = Nint(vco)
          /\ modulated.chip.r12.sdmOff = off /\ modulated.regs.r12.sdmOff = off
      BY <2>8, <2>9, <3>1, <3>2, RegisterTypes, SMTT(30) DEF Written, R12
    <3>4. /\ high.chip.r14.nint = Nint(vco) /\ high.regs.r14.nint = Nint(vco)
          /\ high.chip.r12.sdmOff = off /\ high.regs.r12.sdmOff = off
          /\ high.chip.r16.hi = SdmHi(vco) /\ high.regs.r16.hi = SdmHi(vco)
      BY <2>8, <2>9, <3>1, <3>3, RegisterTypes, SMTT(30) DEF Written, R16
    <3>5. /\ t.chip.r14.nint = Nint(vco) /\ t.regs.r14.nint = Nint(vco)
          /\ t.chip.r12.sdmOff = off /\ t.regs.r12.sdmOff = off
          /\ t.chip.r16.hi = SdmHi(vco) /\ t.regs.r16.hi = SdmHi(vco)
          /\ t.chip.r15.low = SdmLo(vco) /\ t.regs.r15.low = SdmLo(vco)
      BY <2>8, <2>9, <2>13, <3>1, <3>4, RegisterTypes, SMTT(30) DEF Written, R15
    <3>6. QED
      BY <2>11, <2>13, <3>5 DEF Words, Worded, off
  <2>14. QED
    BY <2>1, <2>7, <2>12, <2>13
<1>3. QED
  BY <1>1, <1>2

\* The oscillator and its divider, behind filters that are set already.
LEMMA SetPllStep ==
    ASSUME NEW s \in States, NEW l \in Nat, NEW lock
    PROVE  LET t == SetPll(s, l, lock)
           IN  /\ Retuned(s, t)
               /\ \A lo : t.ok /\ Filters(s, lo) =>
                      /\ Filters(t, lo)
                      /\ Words(t, DivField(DivNum(MixDiv(l)) + Correction(s.fine)),
                               l * MixDiv(l))
<1> DEFINE d == DivField(DivNum(MixDiv(l)) + Correction(s.fine))
           vco == l * MixDiv(l)
           resent == Resend(s, "r10")
           start == SetField(resent, "r1a", "autotune", FALSE)
           current == SetVcoCurrent(start, "min")
           status == Read(current)
           divided == SetField(status, "r10", "div", d)
           worded == SetWords(divided, vco)
           t == AwaitLock(worded, lock)
<1>1. SetPll(s, l, lock) = t
  BY DEF SetPll
<1>2. s.fine \in FineTunings
  BY DEF States
<1>3. d \in 0 .. 7 /\ vco \in Nat
  BY <1>2, DividerFits
<1> HIDE DEF d, vco
<1>4. Retuned(s, resent) /\ resent \in States
  BY ResendStep, RetunedState
<1>5. \A lo : Filters(s, lo) => Filters(resent, lo)
  <2>1. s.chip \in Registers /\ s.regs \in Registers
    BY DEF States
  <2>2. Written(s, resent, "r10", s.regs["r10"])
    BY ResendStep
  <2> HIDE DEF resent
  <2>3. /\ resent.chip.r17 = s.chip.r17 /\ resent.regs.r17 = s.regs.r17
        /\ resent.chip.r1a = s.chip.r1a /\ resent.regs.r1a = s.regs.r1a
        /\ resent.chip.r1b = s.chip.r1b /\ resent.regs.r1b = s.regs.r1b
    BY <2>1, <2>2, RegisterTypes DEF Written
  <2>4. QED
    BY <2>3 DEF Filters, Filtered
<1> HIDE DEF resent
<1>6. Keeps(resent, start) /\ start \in States
  BY <1>4, SharedFieldKeeps, RetunedState DEF Fits, Keeps
<1> HIDE DEF start
<1>7. Keeps(start, current) /\ current \in States
  BY <1>6, SetVcoCurrentKeeps, RetunedState DEF Keeps
<1> HIDE DEF current
<1>8. Keeps(current, status) /\ status \in States
  BY <1>7, ReadKeeps, RetunedState DEF Keeps
<1> HIDE DEF status
<1>9. Fits("r10", "div", d)
  BY <1>3 DEF Fits
<1>10. Retuned(status, divided) /\ divided \in States
  BY <1>8, <1>9, SetFieldRetunes, RetunedState DEF TuningRegs
<1>11. /\ \A lo : Filters(status, lo) => Filters(divided, lo)
       /\ divided.ok => divided.chip.r10.div = d /\ divided.regs.r10.div = d
  <2>1. Written(status, divided, "r10", [status.regs["r10"] EXCEPT !["div"] = d])
    BY <1>8, <1>9, SetFieldStep
  <2>2. status.chip \in Registers /\ status.regs \in Registers
    BY <1>8 DEF States
  <2> HIDE DEF divided
  <2>3. /\ divided.chip.r17 = status.chip.r17 /\ divided.regs.r17 = status.regs.r17
        /\ divided.chip.r1a = status.chip.r1a /\ divided.regs.r1a = status.regs.r1a
        /\ divided.chip.r1b = status.chip.r1b /\ divided.regs.r1b = status.regs.r1b
    BY <2>1, <2>2, RegisterTypes DEF Written
  <2>4. divided.ok => divided.chip.r10.div = d /\ divided.regs.r10.div = d
    BY <2>1, <2>2, RegisterTypes DEF Written, R10
  <2>5. QED
    BY <2>3, <2>4 DEF Filters, Filtered
<1> HIDE DEF divided
<1>12. /\ Retuned(divided, worded) /\ worded \in States
       /\ \A lo : Filters(divided, lo) => Filters(worded, lo)
       /\ worded.ok /\ divided.chip.r10.div = d /\ divided.regs.r10.div = d =>
              Words(worded, d, vco)
  BY <1>3, <1>10, SetWordsStep, RetunedState
<1> HIDE DEF worded
<1>13. Keeps(worded, t)
  BY <1>12, AwaitLockKeeps
<1> HIDE DEF t
<1>14. Retuned(s, t)
  <2>1. Retuned(s, status)
    BY <1>4, <1>6, <1>7, <1>8, RetunedTwice DEF Keeps
  <2>2. Retuned(s, worded)
    BY <2>1, <1>10, <1>12, RetunedTwice
  <2>3. QED
    BY <2>2, <1>13, RetunedTwice DEF Keeps
<1>15. ASSUME NEW lo, t.ok, Filters(s, lo)
       PROVE  Filters(t, lo) /\ Words(t, d, vco)
  <2>1. worded.ok /\ divided.ok
    BY <1>12, <1>13, <1>15 DEF Retuned, Keeps
  <2>2. Filters(status, lo)
    BY <1>5, <1>6, <1>7, <1>8, <1>15 DEF Keeps
  <2>3. Filters(worded, lo) /\ Words(worded, d, vco)
    BY <1>11, <1>12, <2>1, <2>2
  <2>4. QED
    BY <1>13, <2>3 DEF Keeps
<1>16. QED
  BY <1>1, <1>14, <1>15 DEF d, vco

\* What an attempt leaves alone, with or without a harmonic.
Attempted(s, t) ==
    /\ t \in States
    /\ t.fine = s.fine /\ t.vga = s.vga
    /\ t.chip.r05 = s.chip.r05 /\ t.chip.r07 = s.chip.r07
    /\ t.regs.r05 = s.regs.r05 /\ t.regs.r07 = s.regs.r07
    /\ t.priv.cfg = s.priv.cfg /\ t.priv.rf = s.priv.rf /\ t.priv.if = s.priv.if
    /\ t.priv.input = s.priv.input
    /\ t.clean => s.clean

LEMMA RetunedAttempted ==
    ASSUME NEW s, NEW t, Retuned(s, t)
    PROVE  Attempted(s, t)
  BY DEF Retuned, Attempted

LEMMA AttemptedTwice ==
    ASSUME NEW s, NEW t, NEW u, Attempted(s, t), Attempted(t, u)
    PROVE  Attempted(s, u)
  BY DEF Attempted

HarmonicOf(p) == IF p.harmonic = 0 THEN 1 ELSE p.harmonic

\* The registers are those of the frequency in the driver's state.
Generates(r, fine, p) ==
    LET lo == p.rf + p.if
        l == lo \div HarmonicOf(p)
    IN  /\ Filtered(r, lo)
        /\ Worded(r, DivField(DivNum(MixDiv(l)) + Correction(fine)), l * MixDiv(l))

LEMMA AttemptStep ==
    ASSUME NEW s \in States, NEW n \in {1, Harmonic}, NEW lock
    PROVE  LET t == Attempt(s, n, lock).s
           IN  /\ Attempted(s, t)
               /\ t.ok => Generates(t.chip, t.fine, t.priv)
<1> DEFINE lo == s.priv.rf + s.priv.if
           h == IF n = 1 THEN 0 ELSE n
           s0 == [s EXCEPT !.priv.harmonic = h]
           muxed == SetMux(s0, lo)
           t == SetPll(muxed, lo \div n, lock)
<1>1. Attempt(s, n, lock).s = t
  BY DEF Attempt
<1>2. /\ s.priv \in Privs /\ lo \in Nat /\ h \in {0, Harmonic}
      /\ lo \div n \in Nat
  BY DEF States, Privs, Harmonic
<1>3. /\ s0 \in States /\ s0.priv = [s.priv EXCEPT !.harmonic = h]
      /\ s0.fine = s.fine /\ s0.vga = s.vga /\ s0.chip = s.chip /\ s0.regs = s.regs
      /\ s0.clean = s.clean
  <2> HIDE DEF h
  <2>1. [s.priv EXCEPT !.harmonic = h] \in Privs
    BY <1>2 DEF Privs
  <2>2. QED
    BY <2>1 DEF States
<1> HIDE DEF h
<1> HIDE DEF s0
<1>4. /\ s0.priv.harmonic = h /\ s0.priv.rf = s.priv.rf /\ s0.priv.if = s.priv.if
      /\ s0.priv.cfg = s.priv.cfg /\ s0.priv.input = s.priv.input
  BY <1>2, <1>3 DEF Privs
<1>5. Attempted(s, s0)
  BY <1>3, <1>4 DEF Attempted
<1>6. /\ Retuned(s0, muxed) /\ muxed \in States
      /\ muxed.ok => Filters(muxed, lo)
  BY <1>2, <1>3, SetMuxStep, RetunedState
<1> HIDE DEF muxed
<1>7. /\ Retuned(muxed, t)
      /\ t.ok /\ Filters(muxed, lo) =>
             /\ Filters(t, lo)
             /\ Words(t, DivField(DivNum(MixDiv(lo \div n)) + Correction(muxed.fine)),
                      (lo \div n) * MixDiv(lo \div n))
  BY <1>2, <1>6, SetPllStep
<1> HIDE DEF t
<1>8. Retuned(s0, t)
  BY <1>6, <1>7, RetunedTwice
<1>9. Attempted(s, t)
  BY <1>5, <1>8, RetunedAttempted, AttemptedTwice
<1>10. ASSUME t.ok PROVE Generates(t.chip, t.fine, t.priv)
  <2>1. t.priv.rf + t.priv.if = lo /\ HarmonicOf(t.priv) = n
    BY <1>2, <1>4, <1>8 DEF Retuned, HarmonicOf, h, Harmonic
  <2>2. t.fine = muxed.fine
    BY <1>7 DEF Retuned
  <2>3. muxed.ok
    BY <1>7, <1>10 DEF Retuned
  <2> HIDE DEF lo
  <2>4. QED
    BY <1>6, <1>7, <1>10, <2>1, <2>2, <2>3 DEF Generates, Filters, Words
<1>11. QED
  BY <1>1, <1>9, <1>10

LEMMA TuneHarmonicsStep ==
    ASSUME NEW s \in States, NEW freq \in Nat, NEW locks
    PROVE  LET t == TuneHarmonics(s, freq, locks)
           IN  /\ Attempted(s, t)
               /\ t.ok => Generates(t.chip, t.fine, t.priv)
<1> DEFINE plain == Attempt(s, 1, locks[1])
           again == [plain.s EXCEPT !.ok = TRUE]
<1>1. Harmonic \in {1, Harmonic} /\ 1 \in {1, Harmonic}
  OBVIOUS
<1>2. /\ Attempted(s, plain.s)
      /\ plain.s.ok => Generates(plain.s.chip, plain.s.fine, plain.s.priv)
  BY <1>1, AttemptStep
<1>3. LET t == Attempt(s, Harmonic, locks[2]).s
      IN  /\ Attempted(s, t)
          /\ t.ok => Generates(t.chip, t.fine, t.priv)
  BY <1>1, AttemptStep
<1>4. LET t == Attempt(again, Harmonic, locks[2]).s
      IN  /\ Attempted(s, t)
          /\ t.ok => Generates(t.chip, t.fine, t.priv)
  <2>1. plain.s \in States
    BY <1>2 DEF Attempted
  <2>2. again \in States /\ Attempted(plain.s, again)
    <3> DEFINE u == plain.s
    <3>1. u \in States
      BY <2>1
    <3> HIDE DEF u
    <3>2. [u EXCEPT !.ok = TRUE] \in States /\ Attempted(u, [u EXCEPT !.ok = TRUE])
      BY <3>1 DEF States, Attempted
    <3>3. QED
      BY <3>2 DEF u
  <2> HIDE DEF plain, again
  <2>3. Attempted(s, again)
    BY <1>2, <2>2, AttemptedTwice
  <2> DEFINE t == Attempt(again, Harmonic, locks[2]).s
  <2>4. /\ Attempted(again, t)
        /\ t.ok => Generates(t.chip, t.fine, t.priv)
    BY <1>1, <2>2, AttemptStep
  <2> HIDE DEF t
  <2>5. Attempted(s, t)
    BY <2>3, <2>4, AttemptedTwice
  <2>6. QED
    BY <2>4, <2>5 DEF t
<1>5. TuneHarmonics(s, freq, locks) \in
          {plain.s, Attempt(s, Harmonic, locks[2]).s, Attempt(again, Harmonic, locks[2]).s}
  BY DEF TuneHarmonics
<1> HIDE DEF plain, again
<1>6. QED
  BY <1>2, <1>3, <1>4, <1>5

\* Register 5 of the chip is known, and its input is the cached one.
InputKnown(s) ==
    s.clean => s.chip.r05 = s.regs.r05 /\ s.regs.r05.input = s.priv.input

LEMMA SelectInputStep ==
    ASSUME NEW s \in States, NEW freq \in Nat
    PROVE  LET t == SelectInput(s, freq)
           IN  /\ t \in States
               /\ t.fine = s.fine /\ t.vga = s.vga
               /\ t.priv.rf = s.priv.rf /\ t.priv.if = s.priv.if
               /\ t.clean => s.clean
               /\ t.ok => s.ok
               /\ t.ok => t.priv.input = InputFor(freq)
               /\ InputKnown(s) => InputKnown(t)
               /\ t.ok /\ Generates(s.chip, s.fine, s.priv) =>
                      Generates(t.chip, t.fine, t.priv)
               /\ \A i : HasGain(s.chip, i) /\ HasGain(s.regs, i) =>
                             HasGain(t.chip, i) /\ HasGain(t.regs, i)
<1> DEFINE input == InputFor(freq)
<1>1. input \in Inputs
  BY DEF InputFor, Inputs
<1>2. CASE ~s.ok \/ s.priv.input = input
  <2>1. SelectInput(s, freq) = s
    BY <1>2 DEF SelectInput, InputFor
  <2>2. QED
    BY <1>2, <2>1
<1>3. CASE ~(~s.ok \/ s.priv.input = input)
  <2> DEFINE noted == [s EXCEPT !.priv.input = input]
             t == SetField(noted, "r05", "input", input)
  <2>1. SelectInput(s, freq) = t
    BY <1>3 DEF SelectInput, InputFor
  <2> HIDE DEF input
  <2>2. /\ noted \in States
        /\ noted.chip = s.chip /\ noted.regs = s.regs /\ noted.fine = s.fine
        /\ noted.vga = s.vga /\ noted.clean = s.clean /\ noted.ok = s.ok
        /\ noted.priv.rf = s.priv.rf /\ noted.priv.if = s.priv.if
        /\ noted.priv.harmonic = s.priv.harmonic /\ noted.priv.input = input
    <3>1. s.priv \in Privs
      BY DEF States
    <3>2. [s.priv EXCEPT !.input = input] \in Privs
      BY <1>1, <3>1 DEF Privs
    <3>3. noted = [s EXCEPT !.priv = [s.priv EXCEPT !.input = input]]
      OBVIOUS
    <3>4. QED
      BY <3>1, <3>2, <3>3 DEF States, Privs
  <2> HIDE DEF noted
  <2>3. Written(noted, t, "r05", [noted.regs["r05"] EXCEPT !["input"] = input])
    BY <1>1, <2>2, SetFieldStep DEF Fits
  <2> HIDE DEF t
  <2>4. s.chip \in Registers /\ s.regs \in Registers
    BY DEF States
  <2> DEFINE c == [s.regs["r05"] EXCEPT !["input"] = input]
  <2>5. s.regs["r05"] \in R05 /\ s.chip["r05"] \in R05
    BY <2>4, RegisterTypes
  <2>6. c.input = input /\ c.manual = s.regs.r05.manual /\ c.lna = s.regs.r05.lna
    BY <2>5 DEF R05
  <2> HIDE DEF c
  <2>7. \A r \in {s.chip, s.regs} :
            LET q == [r EXCEPT !["r05"] = c]
            IN  /\ q.r05 = c /\ q.r07 = r.r07 /\ q.r10 = r.r10 /\ q.r12 = r.r12
                /\ q.r14 = r.r14 /\ q.r15 = r.r15 /\ q.r16 = r.r16 /\ q.r17 = r.r17
                /\ q.r1a = r.r1a /\ q.r1b = r.r1b
    BY <2>4, RegisterTypes
  <2>8. /\ t.chip \in {s.chip, [s.chip EXCEPT !["r05"] = c]}
        /\ t.regs \in {s.regs, [s.regs EXCEPT !["r05"] = c]}
        /\ t.priv = noted.priv
        /\ t.ok \/ t.clean => /\ t.chip = [s.chip EXCEPT !["r05"] = c]
                              /\ t.regs = [s.regs EXCEPT !["r05"] = c]
        /\ t \in States /\ t.fine = s.fine /\ t.vga = s.vga
        /\ t.clean => s.clean
        /\ t.ok => s.ok
    BY <1>3, <2>2, <2>3 DEF Written, c
  <2> HIDE DEF input
  <2>9. InputKnown(t)
    <3> SUFFICES ASSUME t.clean
                 PROVE  t.chip.r05 = t.regs.r05 /\ t.regs.r05.input = t.priv.input
      BY DEF InputKnown
    <3>1. t.chip.r05 = c /\ t.regs.r05 = c
      BY <2>7, <2>8
    <3>2. t.priv.input = input
      BY <2>2, <2>8
    <3>3. QED
      BY <2>6, <3>1, <3>2
  <2>10. Generates(s.chip, s.fine, s.priv) => Generates(t.chip, t.fine, t.priv)
    <3>1. /\ t.chip.r10 = s.chip.r10 /\ t.chip.r12 = s.chip.r12
          /\ t.chip.r14 = s.chip.r14 /\ t.chip.r15 = s.chip.r15
          /\ t.chip.r16 = s.chip.r16 /\ t.chip.r17 = s.chip.r17
          /\ t.chip.r1a = s.chip.r1a /\ t.chip.r1b = s.chip.r1b
      BY <2>7, <2>8
    <3>2. HarmonicOf(t.priv) = HarmonicOf(s.priv)
      BY <2>2, <2>8 DEF HarmonicOf
    <3>3. t.priv.rf = s.priv.rf /\ t.priv.if = s.priv.if /\ t.fine = s.fine
      BY <2>2, <2>8
    <3>4. QED
      BY <3>1, <3>2, <3>3 DEF Generates, Filtered, Worded
  <2>11. ASSUME NEW i, HasGain(s.chip, i), HasGain(s.regs, i)
         PROVE  HasGain(t.chip, i) /\ HasGain(t.regs, i)
    <3>1. /\ t.chip.r05 \in {s.chip.r05, c} /\ t.regs.r05 \in {s.regs.r05, c}
          /\ t.chip.r07 = s.chip.r07 /\ t.regs.r07 = s.regs.r07
      BY <2>7, <2>8
    <3>2. /\ s.regs.r05.manual /\ s.regs.r05.lna = LnaGain(i)
          /\ s.chip.r05.manual /\ s.chip.r05.lna = LnaGain(i)
          /\ ~s.chip.r07.auto /\ s.chip.r07.mixer = MixerGain(i)
          /\ ~s.regs.r07.auto /\ s.regs.r07.mixer = MixerGain(i)
      BY <2>11 DEF HasGain
    <3>3. c.manual /\ c.lna = LnaGain(i)
      BY <2>6, <3>2
    <3>4. QED
      BY <3>1, <3>2, <3>3 DEF HasGain
  <2>12. QED
    BY <2>1, <2>2, <2>8, <2>9, <2>10, <2>11 DEF input
<1>4. QED
  BY <1>2, <1>3

\* A request to tune: the input and the gains go with it.
LEMMA SetFreq64Step ==
    ASSUME NEW s \in States, NEW asked \in Nat, NEW locks, InputKnown(s)
    PROVE  LET t == SetFreq64(s, asked, locks)
           IN  /\ t \in States
               /\ t.fine = s.fine
               /\ t.priv.if = s.priv.if
               /\ t.clean => s.clean
               /\ InputKnown(t)
               /\ t.ok => /\ t.priv.input = InputFor(t.priv.rf)
                          /\ Generates(t.chip, t.fine, t.priv)
               /\ \A i : HasGain(s.chip, i) /\ HasGain(s.regs, i) =>
                             HasGain(t.chip, i) /\ HasGain(t.regs, i)
<1> DEFINE freq == IF asked = 0 THEN s.priv.rf ELSE asked
           begun == [s EXCEPT !.priv.rf = freq]
           tuned == TuneHarmonics(begun, asked, locks)
           t == SelectInput(tuned, freq)
<1>1. SetFreq64(s, asked, locks) = t
  BY DEF SetFreq64
<1>2. s.priv \in Privs
  BY DEF States
<1>3. freq \in Nat
  BY <1>2 DEF Privs
<1> HIDE DEF freq
<1>4. /\ begun \in States
      /\ begun.chip = s.chip /\ begun.regs = s.regs /\ begun.fine = s.fine
      /\ begun.clean = s.clean
      /\ begun.priv.rf = freq /\ begun.priv.if = s.priv.if
      /\ begun.priv.input = s.priv.input
  <2>1. [s.priv EXCEPT !.rf = freq] \in Privs
    BY <1>2, <1>3 DEF Privs
  <2>2. begun = [s EXCEPT !.priv = [s.priv EXCEPT !.rf = freq]]
    OBVIOUS
  <2>3. QED
    BY <1>2, <2>1, <2>2 DEF States, Privs
<1> HIDE DEF begun
<1>5. /\ Attempted(begun, tuned) /\ tuned \in States
      /\ tuned.ok => Generates(tuned.chip, tuned.fine, tuned.priv)
  BY <1>3, <1>4, TuneHarmonicsStep DEF Attempted
<1> HIDE DEF tuned
<1>6. InputKnown(tuned)
  BY <1>4, <1>5 DEF Attempted, InputKnown
<1>7. /\ t \in States
      /\ t.fine = tuned.fine
      /\ t.priv.rf = tuned.priv.rf /\ t.priv.if = tuned.priv.if
      /\ t.clean => tuned.clean
      /\ t.ok => tuned.ok
      /\ t.ok => t.priv.input = InputFor(freq)
      /\ InputKnown(tuned) => InputKnown(t)
      /\ t.ok /\ Generates(tuned.chip, tuned.fine, tuned.priv) =>
             Generates(t.chip, t.fine, t.priv)
      /\ \A i : HasGain(tuned.chip, i) /\ HasGain(tuned.regs, i) =>
                    HasGain(t.chip, i) /\ HasGain(t.regs, i)
  BY <1>3, <1>5, SelectInputStep
<1> HIDE DEF t
<1>8. \A i : HasGain(s.chip, i) /\ HasGain(s.regs, i) =>
                 HasGain(tuned.chip, i) /\ HasGain(tuned.regs, i)
  BY <1>4, <1>5 DEF Attempted, HasGain
<1>9. tuned.priv.rf = freq /\ tuned.priv.if = s.priv.if /\ tuned.fine = s.fine
  BY <1>4, <1>5 DEF Attempted
<1>10. tuned.clean => s.clean
  BY <1>4, <1>5 DEF Attempted
<1>11. QED
  BY <1>1, <1>5, <1>6, <1>7, <1>8, <1>9, <1>10

-----------------------------------------------------------------------------
(* Gains.                                                                  *)

\* What a gain leaves alone: all of the tuning.
Gained(s, t) ==
    /\ t \in States
    /\ t.fine = s.fine /\ t.priv = s.priv
    /\ t.clean => s.clean
    /\ t.ok => s.ok
    /\ InputKnown(s) => InputKnown(t)
    /\ t.chip.r10 = s.chip.r10 /\ t.chip.r12 = s.chip.r12 /\ t.chip.r14 = s.chip.r14
    /\ t.chip.r15 = s.chip.r15 /\ t.chip.r16 = s.chip.r16 /\ t.chip.r17 = s.chip.r17
    /\ t.chip.r1a = s.chip.r1a /\ t.chip.r1b = s.chip.r1b

LEMMA GainedTwice ==
    ASSUME NEW s, NEW t, NEW u, Gained(s, t), Gained(t, u)
    PROVE  Gained(s, u)
  BY DEF Gained

LEMMA GainFieldStep ==
    ASSUME NEW s \in States, NEW reg \in {"r05", "r07", "r0c"}, NEW field, NEW value,
           Fits(reg, field, value), field # "input"
    PROVE  Gained(s, SetField(s, reg, field, value))
<1> DEFINE t == SetField(s, reg, field, value)
           c == [s.regs[reg] EXCEPT ![field] = value]
<1>1. Written(s, t, reg, c)
  BY SetFieldStep
<1>2. s.chip \in Registers /\ s.regs \in Registers
  BY DEF States
<1>3. reg = "r05" => c.input = s.regs.r05.input
  BY <1>2, RegisterTypes DEF R05
<1> HIDE DEF t, c
<1>4. \A r \in {s.chip, s.regs} :
          LET q == [r EXCEPT ![reg] = c]
          IN  /\ q.r05 = IF reg = "r05" THEN c ELSE r.r05
              /\ q.r10 = r.r10 /\ q.r12 = r.r12
              /\ q.r14 = r.r14 /\ q.r15 = r.r15 /\ q.r16 = r.r16 /\ q.r17 = r.r17
              /\ q.r1a = r.r1a /\ q.r1b = r.r1b
  BY <1>2, RegisterTypes
<1>5. InputKnown(s) => InputKnown(t)
  <2>1. CASE ~s.ok
    BY <1>1, <2>1 DEF Written
  <2>2. CASE s.ok
    <3> SUFFICES ASSUME InputKnown(s), t.clean
                 PROVE  t.chip.r05 = t.regs.r05 /\ t.regs.r05.input = t.priv.input
      BY DEF InputKnown
    <3>1. /\ t.chip = [s.chip EXCEPT ![reg] = c]
          /\ t.regs = [s.regs EXCEPT ![reg] = c]
          /\ t.priv = s.priv /\ s.clean
      BY <1>1, <2>2 DEF Written
    <3>2. s.chip.r05 = s.regs.r05 /\ s.regs.r05.input = s.priv.input
      BY <3>1 DEF InputKnown
    <3>3. QED
      BY <1>3, <1>4, <3>1, <3>2
  <2>3. QED
    BY <2>1, <2>2
<1>6. Gained(s, t)
  BY <1>1, <1>4, <1>5 DEF Written, Gained
<1>7. QED
  BY <1>6 DEF t

LEMMA GainsInRange ==
    ASSUME NEW i \in 0 .. 28
    PROVE  LnaGain(i) \in 0 .. 15 /\ MixerGain(i) \in 0 .. 15
  BY DEF LnaGain, MixerGain

\* Both stages have the gains of a step, in the chip and in the shadow.
LEMMA SetAllGainsStep ==
    ASSUME NEW s \in States, NEW i \in 0 .. 28
    PROVE  LET t == SetAllGains(s, i)
           IN  /\ Gained(s, t)
               /\ t.ok => HasGain(t.chip, i) /\ HasGain(t.regs, i)
<1> DEFINE first == SetField(s, "r05", "manual", TRUE)
           second == SetField(first, "r07", "auto", FALSE)
           manual == Read(second)
           lna == SetField(manual, "r05", "lna", LnaGain(i))
           t == SetField(lna, "r07", "mixer", MixerGain(i))
<1>1. SetAllGains(s, i) = t
  BY DEF SetAllGains
<1>2. /\ Fits("r05", "manual", TRUE) /\ Fits("r07", "auto", FALSE)
      /\ Fits("r05", "lna", LnaGain(i)) /\ Fits("r07", "mixer", MixerGain(i))
  BY GainsInRange DEF Fits
<1>3. Gained(s, first) /\ first \in States
  <2>1. Gained(s, first)
    BY <1>2, GainFieldStep
  <2>2. QED
    BY <2>1 DEF Gained
<1>4. first.ok => /\ first.chip = Changed(s.chip, s.regs, "r05", "manual", TRUE)
                  /\ first.regs = Changed(s.regs, s.regs, "r05", "manual", TRUE)
  BY <1>2, SetFieldDone
<1> HIDE DEF first
<1>5. Gained(first, second) /\ second \in States
  BY <1>2, <1>3, GainFieldStep, ZenonT(60) DEF Gained
<1>6. second.ok => /\ second.chip = Changed(first.chip, first.regs, "r07", "auto", FALSE)
                   /\ second.regs = Changed(first.regs, first.regs, "r07", "auto", FALSE)
  BY <1>2, <1>3, SetFieldDone, ZenonT(60)
<1> HIDE DEF second
<1>7. /\ Retuned(second, manual) /\ manual \in States
      /\ manual.chip = second.chip /\ manual.regs = second.regs
      /\ manual.priv = second.priv
  BY <1>5, ReadStep, RetunedState
<1> HIDE DEF manual
<1>8. Gained(second, manual)
  BY <1>7 DEF Gained, Retuned, InputKnown
<1>9. Gained(manual, lna) /\ lna \in States
  BY <1>2, <1>7, GainFieldStep DEF Gained
<1>10. lna.ok => /\ lna.chip = Changed(manual.chip, manual.regs, "r05", "lna", LnaGain(i))
                 /\ lna.regs = Changed(manual.regs, manual.regs, "r05", "lna", LnaGain(i))
  BY <1>2, <1>7, SetFieldDone
<1> HIDE DEF lna
<1>11. Gained(lna, t) /\ t \in States
  BY <1>2, <1>9, GainFieldStep DEF Gained
<1>12. t.ok => /\ t.chip = Changed(lna.chip, lna.regs, "r07", "mixer", MixerGain(i))
               /\ t.regs = Changed(lna.regs, lna.regs, "r07", "mixer", MixerGain(i))
  BY <1>2, <1>9, SetFieldDone
<1> HIDE DEF t
<1>13. Gained(s, t)
  BY <1>3, <1>5, <1>8, <1>9, <1>11, GainedTwice
<1>14. ASSUME t.ok PROVE HasGain(t.chip, i) /\ HasGain(t.regs, i)
  <2>1. first.ok /\ second.ok /\ manual.ok /\ lna.ok
    BY <1>5, <1>8, <1>9, <1>11, <1>14 DEF Gained
  <2>2. /\ s.chip \in Registers /\ s.regs \in Registers
        /\ first.chip \in Registers /\ first.regs \in Registers
        /\ second.chip \in Registers /\ second.regs \in Registers
        /\ lna.chip \in Registers /\ lna.regs \in Registers
    BY <1>3, <1>5, <1>9 DEF States
  <2>3. first.chip.r05.manual /\ first.regs.r05.manual
    <3>1. s.regs["r05"] \in R05
      BY <2>2, RegisterTypes
    <3> DEFINE c == [s.regs["r05"] EXCEPT !["manual"] = TRUE]
    <3>2. c.manual = TRUE
      BY <3>1 DEF R05
    <3> HIDE DEF c
    <3>3. /\ first.chip = [s.chip EXCEPT !["r05"] = c]
          /\ first.regs = [s.regs EXCEPT !["r05"] = c]
      BY <1>4, <2>1 DEF Changed, c
    <3>4. QED
      BY <2>2, <3>2, <3>3, RegisterTypes
  <2>4. /\ second.chip.r05 = first.chip.r05 /\ second.regs.r05 = first.regs.r05
        /\ second.chip.r07.auto = FALSE /\ second.regs.r07.auto = FALSE
    <3>1. first.regs["r07"] \in R07
      BY <2>2, RegisterTypes
    <3> DEFINE c == [first.regs["r07"] EXCEPT !["auto"] = FALSE]
    <3>2. c.auto = FALSE
      BY <3>1 DEF R07
    <3> HIDE DEF c
    <3>3. /\ second.chip = [first.chip EXCEPT !["r07"] = c]
          /\ second.regs = [first.regs EXCEPT !["r07"] = c]
      BY <1>6, <2>1 DEF Changed, c
    <3>4. QED
      BY <2>2, <3>2, <3>3, RegisterTypes
  <2>5. /\ lna.chip.r07 = second.chip.r07 /\ lna.regs.r07 = second.regs.r07
        /\ lna.chip.r05.lna = LnaGain(i) /\ lna.regs.r05.lna = LnaGain(i)
        /\ lna.chip.r05.manual /\ lna.regs.r05.manual
    <3>1. second.regs["r05"] \in R05
      BY <2>2, RegisterTypes
    <3> DEFINE c == [second.regs["r05"] EXCEPT !["lna"] = LnaGain(i)]
    <3>2. c.lna = LnaGain(i) /\ c.manual = second.regs.r05.manual
      BY <3>1 DEF R05
    <3> HIDE DEF c
    <3>3. /\ lna.chip = [second.chip EXCEPT !["r05"] = c]
          /\ lna.regs = [second.regs EXCEPT !["r05"] = c]
      BY <1>7, <1>10, <2>1 DEF Changed, c
    <3>4. QED
      BY <2>2, <2>3, <2>4, <3>2, <3>3, RegisterTypes
  <2>6. /\ t.chip.r05 = lna.chip.r05 /\ t.regs.r05 = lna.regs.r05
        /\ t.chip.r07.mixer = MixerGain(i) /\ t.regs.r07.mixer = MixerGain(i)
        /\ t.chip.r07.auto = FALSE /\ t.regs.r07.auto = FALSE
    <3>1. lna.regs["r07"] \in R07
      BY <2>2, RegisterTypes
    <3> DEFINE c == [lna.regs["r07"] EXCEPT !["mixer"] = MixerGain(i)]
    <3>2. c.mixer = MixerGain(i) /\ c.auto = lna.regs.r07.auto
      BY <3>1 DEF R07
    <3> HIDE DEF c
    <3>3. /\ t.chip = [lna.chip EXCEPT !["r07"] = c]
          /\ t.regs = [lna.regs EXCEPT !["r07"] = c]
      BY <1>12, <1>14 DEF Changed, c
    <3>4. QED
      BY <2>2, <2>4, <2>5, <3>2, <3>3, RegisterTypes
  <2>7. QED
    BY <2>5, <2>6 DEF HasGain
<1>15. QED
  BY <1>1, <1>13, <1>14

LEMMA SetVgaGainStep ==
    ASSUME NEW s \in States, NEW i \in 0 .. 15
    PROVE  LET t == SetVgaGain(s, i)
           IN  /\ Gained(s, t)
               /\ t.chip.r05 = s.chip.r05 /\ t.chip.r07 = s.chip.r07
               /\ t.regs.r05 = s.regs.r05 /\ t.regs.r07 = s.regs.r07
<1>1. CASE s.vga = i
  BY <1>1 DEF SetVgaGain, Gained
<1>2. CASE s.vga # i
  <2> DEFINE w == SetField(s, "r0c", "vga", i)
             t == [w EXCEPT !.vga = i]
  <2>1. Gained(s, w) /\ Retuned(s, w) /\ w \in States
    BY GainFieldStep, SetFieldRetunes DEF Fits, TuningRegs, Gained
  <2>2. SetVgaGain(s, i) \in {w, t}
    BY <1>2 DEF SetVgaGain, IfOk
  <2> HIDE DEF w
  <2>3. i \in Indices
    BY DEF Indices
  <2>4. /\ t \in States /\ t.chip = w.chip /\ t.regs = w.regs /\ t.fine = w.fine
        /\ t.priv = w.priv /\ t.clean = w.clean /\ t.ok = w.ok
    BY <2>1, <2>3 DEF States
  <2> HIDE DEF t
  <2>5. Gained(w, t)
    BY <2>4 DEF Gained, InputKnown
  <2>6. Gained(s, t)
    BY <2>1, <2>5, GainedTwice
  <2>7. QED
    BY <2>1, <2>2, <2>4, <2>6 DEF Retuned
<1>3. QED
  BY <1>1, <1>2

-----------------------------------------------------------------------------
(* Initialisation and standby.                                             *)

Sane(t) == t \in States /\ InputKnown(t)

LEMMA RetunedSane ==
    ASSUME NEW s, NEW t, Sane(s), Retuned(s, t)
    PROVE  Sane(t) /\ t.priv.if = s.priv.if
  BY DEF Sane, Retuned, InputKnown

\* The input is cached, then written.
LEMMA InputNoted ==
    ASSUME NEW s \in States, s.ok, NEW input \in Inputs
    PROVE  Sane(SetField([s EXCEPT !.priv.input = input], "r05", "input", input))
<1> DEFINE noted == [s EXCEPT !.priv.input = input]
           t == SetField(noted, "r05", "input", input)
           c == [noted.regs["r05"] EXCEPT !["input"] = input]
<1>1. noted \in States /\ noted.ok /\ noted.priv.input = input
  <2>1. s.priv \in Privs
    BY DEF States
  <2>2. [s.priv EXCEPT !.input = input] \in Privs
    BY <2>1 DEF Privs
  <2>3. noted = [s EXCEPT !.priv = [s.priv EXCEPT !.input = input]]
    OBVIOUS
  <2>4. QED
    BY <2>1, <2>2, <2>3 DEF States, Privs
<1> HIDE DEF noted
<1>2. Written(noted, t, "r05", c)
  BY <1>1, SetFieldStep DEF Fits
<1>3. noted.chip \in Registers /\ noted.regs \in Registers
  BY <1>1 DEF States
<1>4. c.input = input
  BY <1>3, RegisterTypes DEF R05
<1> HIDE DEF t, c
<1>5. ASSUME t.clean PROVE t.chip.r05 = t.regs.r05 /\ t.regs.r05.input = t.priv.input
  <2>1. /\ t.chip = [noted.chip EXCEPT !["r05"] = c]
        /\ t.regs = [noted.regs EXCEPT !["r05"] = c]
        /\ t.priv = noted.priv
    BY <1>1, <1>2, <1>5 DEF Written
  <2>2. t.chip.r05 = c /\ t.regs.r05 = c
    BY <1>3, <2>1, RegisterTypes
  <2>3. QED
    BY <1>1, <1>4, <2>1, <2>2
<1>6. Sane(t)
  BY <1>2, <1>5 DEF Sane, InputKnown, Written
<1>7. QED
  BY <1>6 DEF t, noted

LEMMA InitialTypes == InitRegs \in Registers /\ NewPriv \in Privs
<1>1. 0 \in 0 .. (SdmSteps \div SdmLow) - 1 /\ 0 \in 0 .. SdmLow - 1
  <2>1. /\ SdmHi(0) \in 0 .. (SdmSteps \div SdmLow) - 1
        /\ SdmSteps \div SdmLow \in Nat
    BY OscillatorFits, DivMod, PllAssumption DEF PllAssumption
  <2>2. QED
    BY <2>1, PllAssumption DEF PllAssumption
<1>2. 0 \in Bands
  BY DEF Bands, RangeStarts
<1>3. InitRegs \in Registers
  BY <1>1, <1>2, RegisterTypes
     DEF InitRegs, R05, R07, R0c, R0f, R10, R12, R14, R15, R16, R17, R1a, Inputs
<1>4. NewPriv \in Privs
  BY DEF NewPriv, Privs, Inputs
<1>5. QED
  BY <1>3, <1>4

LEMMA InitArrayStep ==
    ASSUME NEW s \in States
    PROVE  Sane(InitArray(s))
<1> DEFINE new == [s EXCEPT !.priv = NewPriv, !.regs = InitRegs, !.clean = TRUE]
           t == InitArray(s)
<1>1. new \in States /\ new.regs = InitRegs /\ new.priv = NewPriv
  BY InitialTypes DEF States
<1>2. t = [Transfer(new, InitRegs) EXCEPT !.ok = TRUE]
  BY DEF InitArray
<1> HIDE DEF new
<1>3. CASE new.left > 0
  <2>1. new.left \in Nat /\ new.left - 1 \in Nat
    BY <1>1, <1>3 DEF States
  <2>2. t = [new EXCEPT !.chip = InitRegs, !.left = new.left - 1, !.ok = TRUE]
    BY <1>1, <1>2, <1>3 DEF Transfer, States
  <2>3. t \in States /\ t.chip = InitRegs /\ t.regs = InitRegs /\ t.priv = NewPriv
    BY <1>1, <2>1, <2>2, InitialTypes DEF States
  <2>4. QED
    BY <2>3 DEF Sane, InputKnown, InitRegs, NewPriv
<1>4. CASE ~(new.left > 0)
  <2> DEFINE c == IF new.late THEN InitRegs ELSE new.chip
             u == [new EXCEPT !.chip = c, !.ok = FALSE, !.clean = FALSE, !.left = 99]
  <2>1. Transfer(new, InitRegs) = u
    BY <1>4 DEF Transfer, Never
  <2>2. c \in Registers
    BY <1>1, InitialTypes DEF States
  <2> HIDE DEF c
  <2>3. FALSE \in BOOLEAN /\ TRUE \in BOOLEAN /\ 99 \in Nat
    OBVIOUS
  <2>4. u \in States /\ ~u.clean
    BY <1>1, <2>2, <2>3, ZenonT(60) DEF States
  <2> HIDE DEF u
  <2>5. t \in States /\ ~t.clean
    BY <1>2, <2>1, <2>3, <2>4 DEF States
  <2>6. QED
    BY <2>5 DEF Sane, InputKnown
<1>5. QED
  BY <1>3, <1>4

LEMMA CalibrateStep ==
    ASSUME NEW s \in States, NEW lock
    PROVE  Retuned(s, Calibrate(s, lock)) /\ Calibrate(s, lock) \in States
<1> DEFINE on == SetField(s, "r0f", "cali", TRUE)
           set == SetPll(on, s.priv.rf, lock)
           triggered == Others(set, 2)
           off == SetField(triggered, "r0f", "cali", FALSE)
<1>1. Calibrate(s, lock) = Read(off)
  BY DEF Calibrate
<1>2. s.priv.rf \in Nat
  BY DEF States, Privs
<1>3. Fits("r0f", "cali", TRUE) /\ Fits("r0f", "cali", FALSE)
  BY DEF Fits
<1>4. Retuned(s, on) /\ on \in States
  BY <1>3, SetFieldRetunes, RetunedState DEF TuningRegs
<1> HIDE DEF on
<1>5. Retuned(on, set) /\ set \in States
  BY <1>2, <1>4, SetPllStep, RetunedState
<1> HIDE DEF set
<1>6. Retuned(set, triggered) /\ triggered \in States
  BY <1>5, OthersStep, RetunedState
<1> HIDE DEF triggered
<1>7. Retuned(triggered, off) /\ off \in States
  BY <1>3, <1>6, SetFieldRetunes, RetunedState DEF TuningRegs
<1> HIDE DEF off
<1>8. Retuned(off, Read(off)) /\ Read(off) \in States
  BY <1>7, ReadStep, RetunedState
<1>9. QED
  BY <1>1, <1>4, <1>5, <1>6, <1>7, <1>8, RetunedTwice

LEMMA DefaultSane ==
    ASSUME NEW s, Sane(s), NEW rf \in Nat, NEW carrier \in Nat
    PROVE  Sane([s EXCEPT !.priv = [@ EXCEPT !.rf = rf, !.if = carrier]])
<1> DEFINE p == [s.priv EXCEPT !.rf = rf, !.if = carrier]
           t == [s EXCEPT !.priv = p]
<1>1. s \in States /\ s.priv \in Privs
  BY DEF Sane, States
<1>2. p \in Privs /\ p.input = s.priv.input
  BY <1>1 DEF Privs
<1> HIDE DEF p
<1>3. /\ t \in States /\ t.chip = s.chip /\ t.regs = s.regs
      /\ t.clean = s.clean /\ t.priv.input = s.priv.input
  BY <1>1, <1>2 DEF States
<1> HIDE DEF t
<1>4. QED
  BY <1>3 DEF Sane, InputKnown, t, p

LEMMA SetTvStandardStep ==
    ASSUME NEW s, Sane(s), NEW lock, NEW code
    PROVE  Sane(SetTvStandard(s, lock, code))
<1> DEFINE top == Others(s, 1)
           noted == [top EXCEPT !.priv = [@ EXCEPT !.rf = 5600, !.if = 357]]
           default == IfOk(top, noted)
           first == Calibrate(default, lock)
           second == Calibrate(first, lock)
           done == IF code THEN first ELSE second
<1>1. SetTvStandard(s, lock, code) = Others(done, 1)
  BY DEF SetTvStandard
<1>2. Sane(top) /\ top \in States
  BY OthersStep, RetunedSane DEF Sane
<1> HIDE DEF top
<1>3. Sane(noted)
  <2> DEFINE Noted(a, b) == [top EXCEPT !.priv = [@ EXCEPT !.rf = a, !.if = b]]
  <2>1. \A a, b \in Nat : Sane(Noted(a, b))
    BY <1>2, DefaultSane
  <2>2. noted = Noted(5600, 357)
    OBVIOUS
  <2> HIDE DEF Noted, noted
  <2>3. 5600 \in Nat /\ 357 \in Nat
    OBVIOUS
  <2>4. QED
    BY <2>1, <2>2, <2>3
<1>4. Sane(default) /\ default \in States
  BY <1>2, <1>3 DEF IfOk, Sane
<1> HIDE DEF default
<1>5. Sane(first) /\ first \in States
  BY <1>4, CalibrateStep, RetunedSane
<1> HIDE DEF first
<1>6. Sane(second)
  BY <1>5, CalibrateStep, RetunedSane
<1> HIDE DEF second
<1>7. Sane(done) /\ done \in States
  BY <1>5, <1>6 DEF Sane
<1> HIDE DEF done
<1>8. QED
  BY <1>1, <1>7, OthersStep, RetunedSane

LEMMA SysfreqSelStep ==
    ASSUME NEW s, Sane(s)
    PROVE  Sane(SysfreqSel(s))
<1> DEFINE air == IfOk(s, [s EXCEPT !.priv.input = "air"])
           input == SetField(air, "r05", "input", "air")
           some == Others(input, 3)
           top == Resend(some, "r1a")
           more == Others(top, 1)
<1>1. SysfreqSel(s) = Resend(more, "r1a")
  BY DEF SysfreqSel
<1>2. Sane(input) /\ input \in States
  <2>1. "air" \in Inputs /\ s \in States
    BY DEF Inputs, Sane
  <2>2. CASE s.ok
    <3>1. Sane(SetField([s EXCEPT !.priv.input = "air"], "r05", "input", "air"))
      BY <2>1, <2>2, InputNoted
    <3>2. air = [s EXCEPT !.priv.input = "air"]
      BY <2>2 DEF IfOk
    <3>3. QED
      BY <3>1, <3>2 DEF Sane
  <2>3. CASE ~s.ok
    <3>1. air = s
      BY <2>3 DEF IfOk
    <3>2. SetField(s, "r05", "input", "air") = s
      BY <2>3 DEF SetField, Write, IfOk
    <3>3. QED
      BY <2>1, <3>1, <3>2
  <2>4. QED
    BY <2>2, <2>3
<1> HIDE DEF input
<1>3. Sane(some) /\ some \in States
  BY <1>2, OthersStep, RetunedSane DEF Sane
<1> HIDE DEF some
<1>4. Sane(top) /\ top \in States
  BY <1>3, ResendStep, RetunedSane DEF Sane
<1> HIDE DEF top
<1>5. Sane(more) /\ more \in States
  BY <1>4, OthersStep, RetunedSane DEF Sane
<1> HIDE DEF more
<1>6. Sane(Resend(more, "r1a"))
  BY <1>5, ResendStep, RetunedSane
<1>7. QED
  BY <1>1, <1>6

LEMMA SetBandwidthStep ==
    ASSUME NEW s, Sane(s)
    PROVE  Sane(SetBandwidth(s)) /\ SetBandwidth(s).priv.if = IfCarrier
<1> DEFINE begun == [s EXCEPT !.ok = TRUE, !.priv.if = IfCarrier]
           done == Others(begun, 3)
<1>1. SetBandwidth(s) = [done EXCEPT !.ok = s.ok]
  BY DEF SetBandwidth
<1>2. s \in States /\ s.priv \in Privs /\ s.ok \in BOOLEAN
  BY DEF Sane, States
<1>3. Sane(begun) /\ begun.priv.if = IfCarrier
  <2>1. [s.priv EXCEPT !.if = IfCarrier] \in Privs
    BY <1>2 DEF Privs, IfCarrier
  <2>2. begun = [s EXCEPT !.ok = TRUE, !.priv = [s.priv EXCEPT !.if = IfCarrier]]
    OBVIOUS
  <2>3. /\ begun \in States /\ begun.chip = s.chip /\ begun.regs = s.regs
        /\ begun.clean = s.clean /\ begun.priv.input = s.priv.input
        /\ begun.priv.if = IfCarrier
    BY <1>2, <2>1, <2>2 DEF States, Privs
  <2> HIDE DEF begun
  <2>4. QED
    BY <2>3 DEF Sane, InputKnown
<1> HIDE DEF begun
<1>4. Sane(done) /\ done.priv.if = IfCarrier
  <2>1. begun \in States
    BY <1>3 DEF Sane
  <2>2. Retuned(begun, done)
    BY <2>1, OthersStep
  <2>3. QED
    BY <1>3, <2>2, RetunedSane
<1> HIDE DEF done
<1>5. QED
  BY <1>1, <1>2, <1>4 DEF Sane, States, InputKnown

\* After TUNERINIT the driver reckons with the host's IF, and knows the input
\* unless a transfer failed.
LEMMA InitializeStep ==
    ASSUME NEW s \in States, NEW lock, NEW code
    PROVE  LET t == Initialize(s, lock, code)
           IN  Sane(t) /\ t.priv.if = IfCarrier
<1>1. Sane(InitArray(s))
  BY InitArrayStep
<1>2. Sane(SetTvStandard(InitArray(s), lock, code))
  BY <1>1, SetTvStandardStep
<1>3. Sane(SysfreqSel(SetTvStandard(InitArray(s), lock, code)))
  BY <1>2, SysfreqSelStep
<1>4. QED
  BY <1>3, SetBandwidthStep DEF Initialize

LEMMA StandbyStep ==
    ASSUME NEW s \in States
    PROVE  Standby(s) \in States
<1> DEFINE first == Others(s, 1)
           c05 == [input |-> "off", manual |-> FALSE, lna |-> 0]
           off == Write(first, "r05", c05)
           c07 == [auto |-> TRUE, mixer |-> 10]
           mixer == Write(off, "r07", c07)
           some == Others(mixer, 3)
           vgaOff == Write(some, "r0c", [vga |-> 5])
           caliOff == Write(vgaOff, "r0f", [cali |-> FALSE])
           more == Others(caliOff, 1)
           open == Write(more, "r17", [band |-> 0])
<1>1. Standby(s) = Others(open, 1)
  BY DEF Standby
<1>2. ASSUME NEW t \in States, NEW reg, NEW c,
             \A r \in Registers : [r EXCEPT ![reg] = c] \in Registers
      PROVE  Write(t, reg, c) \in States
  <2>1. t.chip \in Registers /\ t.regs \in Registers
    BY DEF States
  <2>2. QED
    BY <1>2, <2>1, WriteStep DEF Written
<1>3. ASSUME NEW t \in States, NEW n \in Nat PROVE Others(t, n) \in States
  BY OthersStep, RetunedState
<1>4. /\ c05 \in R05 /\ c07 \in R07 /\ [vga |-> 5] \in R0c
      /\ [cali |-> FALSE] \in R0f /\ [band |-> 0] \in R17
  BY DEF R05, R07, R0c, R0f, R17, Bands, RangeStarts, Inputs
<1> HIDE DEF c05, c07
<1>5. \A r \in Registers : /\ [r EXCEPT !["r05"] = c05] \in Registers
                           /\ [r EXCEPT !["r07"] = c07] \in Registers
                           /\ [r EXCEPT !["r0c"] = [vga |-> 5]] \in Registers
                           /\ [r EXCEPT !["r0f"] = [cali |-> FALSE]] \in Registers
                           /\ [r EXCEPT !["r17"] = [band |-> 0]] \in Registers
  BY <1>4, RegisterUpdates
<1>6. first \in States BY <1>3
<1> HIDE DEF first
<1>7. off \in States BY <1>2, <1>5, <1>6
<1> HIDE DEF off
<1>8. mixer \in States BY <1>2, <1>5, <1>7
<1> HIDE DEF mixer
<1>9. some \in States BY <1>3, <1>8
<1> HIDE DEF some
<1>10. vgaOff \in States BY <1>2, <1>5, <1>9
<1> HIDE DEF vgaOff
<1>11. caliOff \in States BY <1>2, <1>5, <1>10
<1> HIDE DEF caliOff
<1>12. more \in States BY <1>3, <1>11
<1> HIDE DEF more
<1>13. open \in States BY <1>2, <1>5, <1>12
<1> HIDE DEF open
<1>14. QED
  BY <1>1, <1>3, <1>13

-----------------------------------------------------------------------------
(* What was requested.                                                     *)

\* TunedAsRequested of any registers, driver's state and frequency.
AsRequested(r, fine, p, tuned) ==
    LET lo == (tuned + IfCarrier) \div HarmonicOf(p)
        word == Programmed(r.r14.nint, r.r16.hi, r.r15.low)
        RunsAt(divider) == Off(word, SdmSteps * lo * divider) <= Reference
    IN  tuned # 0 /\ Fitting(lo) # {} =>
            /\ \E divider \in Fitting(lo) : RunsAt(divider)
            /\ fine = VcoPowerRef =>
                   r.r10.div \in 0 .. 5 /\ RunsAt(2 ^ (r.r10.div + 1))
            /\ r.r12.sdmOff => r.r16.hi = 0 /\ r.r15.low = 0
            /\ {r.r17.band, r.r1a.band, r.r1b.band} = {RangeOf(tuned + IfCarrier)}

LEMMA RequestOfState ==
    /\ TunedAsRequested <=> AsRequested(chip.regs, chip.fine, priv, hist.tuned)
    /\ TunedAsRequested' <=> AsRequested(chip'.regs, chip'.fine, priv', hist'.tuned)
  BY DEF TunedAsRequested, AsRequested, Wanted, HarmonicOf

\* The divider chosen fits, the word is rounded to half a step, the field is
\* the divider's code if it is taken as it is, and without a fraction the
\* modulator is off.
LEMMA GeneratesRequested ==
    ASSUME NEW r, NEW fine \in FineTunings, NEW p \in Privs,
           p.if = IfCarrier, Generates(r, fine, p)
    PROVE  AsRequested(r, fine, p, p.rf)
<1> DEFINE wanted == p.rf + IfCarrier
           lo == wanted \div HarmonicOf(p)
           m == MixDiv(lo)
           RunsAt(divider) ==
               Off(Programmed(r.r14.nint, r.r16.hi, r.r15.low),
                   SdmSteps * lo * divider) <= Reference
<1>1. HarmonicOf(p) \in {1, 5} /\ wanted \in Nat
  BY DEF HarmonicOf, Harmonic, Privs, IfCarrier
<1>2. lo \in Nat
  <2> HIDE DEF wanted
  <2>1. QED
    BY <1>1
<1>3. /\ Filtered(r, wanted)
      /\ Worded(r, DivField(DivNum(m) + Correction(fine)), lo * m)
  BY DEF Generates
<1> SUFFICES ASSUME p.rf # 0, Fitting(lo) # {}
             PROVE  /\ \E divider \in Fitting(lo) : RunsAt(divider)
                    /\ fine = VcoPowerRef =>
                           r.r10.div \in 0 .. 5 /\ RunsAt(2 ^ (r.r10.div + 1))
                    /\ r.r12.sdmOff => r.r16.hi = 0 /\ r.r15.low = 0
                    /\ {r.r17.band, r.r1a.band, r.r1b.band} = {RangeOf(wanted)}
  BY DEF AsRequested
<1> HIDE DEF lo, wanted
<1>4. m \in Fitting(lo) /\ m \in Nat /\ lo * m \in Nat
  BY <1>2, DividerIsFitting, DividerFits
<1>5. VcoDiv(lo * m) \div SdmSteps < 256
  BY <1>2, RangeFitsWord
<1>6. RunsAt(m)
  <2> DEFINE vco == lo * m
  <2>1. SdmSteps * lo * m = SdmSteps * vco
    <3>1. SdmSteps \in Nat
      BY PllAssumption DEF PllAssumption
    <3> HIDE DEF m
    <3>2. QED
      BY <1>2, <1>4, <3>1, SMT
  <2> HIDE DEF vco
  <2>2. Off(Programmed(r.r14.nint, r.r16.hi, r.r15.low), SdmSteps * vco) <= Reference
    BY <1>3, <1>4, <1>5, PllAccurate, PllAssumption DEF Worded, vco
  <2>3. QED
    BY <2>1, <2>2
<1>7. ASSUME fine = VcoPowerRef
      PROVE  r.r10.div \in 0 .. 5 /\ RunsAt(2 ^ (r.r10.div + 1))
  <2>1. r.r10.div \in 0 .. 5 /\ 2 ^ (r.r10.div + 1) = m
    BY <1>2, <1>3, <1>7, FieldIsDivider DEF Worded
  <2> HIDE DEF m, RunsAt
  <2>2. QED
    BY <1>6, <2>1
<1>8. ASSUME r.r12.sdmOff PROVE r.r16.hi = 0 /\ r.r15.low = 0
  <2> DEFINE vco == lo * m
  <2>1. Sdm(vco) = 0 /\ r.r16.hi = 0 \div SdmLow /\ r.r15.low = 0 % SdmLow
    BY <1>3, <1>8 DEF Worded, SdmHi, SdmLo
  <2>2. QED
    BY <2>1, PllAssumption DEF PllAssumption
<1>9. {r.r17.band, r.r1a.band, r.r1b.band} = {RangeOf(wanted)}
  BY <1>3 DEF Filtered
<1> HIDE DEF RunsAt, m
<1>10. QED
  BY <1>4, <1>6, <1>7, <1>8, <1>9

\* The gains share the chip with the tuning and leave it alone.
LEMMA GainedRequested ==
    ASSUME NEW s, NEW t, Gained(s, t), NEW fine, NEW p, NEW tuned,
           AsRequested(s.chip, fine, p, tuned)
    PROVE  AsRequested(t.chip, fine, p, tuned)
  BY DEF Gained, AsRequested

-----------------------------------------------------------------------------
(* The requests.                                                           *)

LEMMA BeginStep ==
    ASSUME TypeInv, NEW clean, NEW n \in Nat, NEW fault \in Faults(clean, n)
    PROVE  /\ Begin(fault) \in States
           /\ Begin(fault).chip = chip.regs /\ Begin(fault).fine = chip.fine
           /\ Begin(fault).priv = priv /\ Begin(fault).regs = regs
           /\ Begin(fault).clean = hist.clean
<1>1. fault.left \in Nat /\ fault.late \in BOOLEAN
  <2>1. CASE fault = Never
    BY <2>1 DEF Never
  <2>2. CASE fault \in [left : 0 .. n - 1, late : BOOLEAN]
    BY <2>2
  <2>3. QED
    BY <2>1, <2>2 DEF Faults
<1>2. hist.clean \in BOOLEAN /\ TRUE \in BOOLEAN
  BY DEF TypeInv, History
<1>3. QED
  BY <1>1, <1>2 DEF TypeInv, Begin, States

LEMMA EndStep ==
    ASSUME NEW s \in States, End(s)
    PROVE  /\ chip' \in [regs : Registers, fine : FineTunings]
           /\ regs' \in Registers /\ priv' \in Privs /\ vga' \in Indices
           /\ chip'.regs = s.chip /\ chip'.fine = s.fine
           /\ regs' = s.regs /\ priv' = s.priv
  BY DEF States, End

LEMMA Initially == Init => TunerInv
<1> SUFFICES ASSUME Init PROVE TunerInv
  OBVIOUS
<1>1. InitRegs \in Registers /\ NewPriv \in Privs
  BY InitialTypes
<1>2. chip \in [regs : Registers, fine : FineTunings]
  BY <1>1 DEF Init
<1>3. priv \in Privs
  BY <1>1 DEF Init, Privs
<1>4. hist \in History /\ vga \in Indices
  <2>1. NoIndex \in Indices /\ TRUE \in BOOLEAN /\ FALSE \in BOOLEAN /\ 0 \in Nat
    BY DEF Indices
  <2>2. QED
    BY <2>1 DEF Init, History
<1>5. ~hist.vhf /\ hist.tuned = 0 /\ hist.att = NoIndex
  BY DEF Init
<1>6. TypeInv
  BY <1>1, <1>2, <1>3, <1>4 DEF Init, TypeInv
<1>7. QED
  BY <1>5, <1>6 DEF TunerInv, TunedAsRequested

LEMMA TunerInitKeeps == TunerInv /\ TUNERINIT => TunerInv'
<1> SUFFICES ASSUME TunerInv, TUNERINIT PROVE TunerInv'
  OBVIOUS
<1>1. PICK fault \in Faults(TRUE, MaxTransfers), lock \in Locks, code \in BOOLEAN :
          LET s == Initialize(Begin(fault), lock, code)
          IN  /\ End(s)
              /\ hist' = [vhf |-> TRUE, clean |-> s.clean, tuned |-> 0,
                          att |-> NoIndex, vga |-> NoIndex]
  BY DEF TUNERINIT
<1> DEFINE s == Initialize(Begin(fault), lock, code)
<1>2. Begin(fault) \in States
  BY BeginStep, TunerAssumption DEF TunerInv, TunerAssumption
<1>3. s \in States /\ InputKnown(s) /\ s.priv.if = IfCarrier
  BY <1>2, InitializeStep DEF Sane
<1>4. End(s) /\ hist' = [vhf |-> TRUE, clean |-> s.clean, tuned |-> 0,
                         att |-> NoIndex, vga |-> NoIndex]
  BY <1>1
<1> HIDE DEF s
<1>5. hist' \in History
  <2>1. s.clean \in BOOLEAN /\ TRUE \in BOOLEAN /\ NoIndex \in Indices /\ 0 \in Nat
    BY <1>3 DEF States, Indices
  <2>2. QED
    BY <1>4, <2>1 DEF History
<1>6. TypeInv'
  BY <1>3, <1>4, <1>5, EndStep DEF TypeInv
<1>7. hist'.tuned = 0 /\ hist'.att = NoIndex /\ hist'.clean = s.clean
  BY <1>4
<1>8. Attuned(chip'.regs, regs', priv', hist'.clean)
  BY <1>3, <1>4, <1>7, EndStep DEF Attuned, InputKnown
<1>9. TunedAsRequested'
  BY <1>7, RequestOfState DEF AsRequested
<1>10. QED
  BY <1>6, <1>7, <1>8, <1>9 DEF TunerInv

LEMMA TunerStdbyKeeps == TunerInv /\ TUNERSTDBY => TunerInv'
<1> SUFFICES ASSUME TunerInv, TUNERSTDBY PROVE TunerInv'
  OBVIOUS
<1>1. PICK fault \in Faults(hist.clean, 11) :
          LET s == Standby(Begin(fault))
          IN  /\ End(IF priv.cfg THEN s ELSE [s EXCEPT !.chip = chip.regs])
              /\ hist' = [hist EXCEPT !.vhf = FALSE, !.clean = s.clean, !.tuned = 0,
                                      !.att = NoIndex, !.vga = NoIndex]
  BY DEF TUNERSTDBY
<1> DEFINE s == Standby(Begin(fault))
           t == IF priv.cfg THEN s ELSE [s EXCEPT !.chip = chip.regs]
<1>2. Begin(fault) \in States /\ chip.regs \in Registers /\ hist \in History
  <2>1. TypeInv /\ 11 \in Nat
    BY DEF TunerInv
  <2>2. QED
    BY <2>1, BeginStep DEF TypeInv
<1>3. s \in States
  BY <1>2, StandbyStep
<1>4. End(t)
  BY <1>1
<1>5. hist' = [hist EXCEPT !.vhf = FALSE, !.clean = s.clean, !.tuned = 0,
                           !.att = NoIndex, !.vga = NoIndex]
  BY <1>1
<1> HIDE DEF s
<1>6. t \in States
  BY <1>2, <1>3 DEF States
<1> HIDE DEF t
<1>7. s.clean \in BOOLEAN /\ FALSE \in BOOLEAN /\ NoIndex \in Indices /\ 0 \in Nat
  BY <1>3 DEF States, Indices
<1>8. hist' \in History /\ ~hist'.vhf /\ hist'.tuned = 0 /\ hist'.att = NoIndex
  BY <1>2, <1>5, <1>7 DEF History
<1>9. TypeInv'
  BY <1>4, <1>6, <1>8, EndStep DEF TypeInv
<1>10. TunedAsRequested'
  BY <1>8, RequestOfState DEF AsRequested
<1>11. QED
  BY <1>8, <1>9, <1>10 DEF TunerInv

LEMMA TunerTuneKeeps ==
    ASSUME TunerInv, NEW freq \in Frequencies, TUNERTUNE(freq)
    PROVE  TunerInv'
<1>1. hist.vhf
      /\ \E fault \in Faults(hist.clean, MaxTransfers), locks \in TurnLocks :
          LET s == SetFreq64(Begin(fault), freq, locks)
          IN  /\ End(s)
              /\ hist' = [hist EXCEPT !.clean = s.clean,
                                      !.tuned = IF s.ok THEN s.priv.rf ELSE 0]
  BY DEF TUNERTUNE
<1>2. PICK fault \in Faults(hist.clean, MaxTransfers), locks \in TurnLocks :
          LET s == SetFreq64(Begin(fault), freq, locks)
          IN  /\ End(s)
              /\ hist' = [hist EXCEPT !.clean = s.clean,
                                      !.tuned = IF s.ok THEN s.priv.rf ELSE 0]
  BY <1>1
<1> DEFINE begun == Begin(fault)
           s == SetFreq64(begun, freq, locks)
<1>3. TypeInv /\ Attuned(chip.regs, regs, priv, hist.clean)
  BY <1>1 DEF TunerInv
<1>4. /\ begun \in States
      /\ begun.chip = chip.regs /\ begun.fine = chip.fine
      /\ begun.priv = priv /\ begun.regs = regs /\ begun.clean = hist.clean
  BY <1>3, BeginStep, TunerAssumption DEF TunerAssumption
<1>5. End(s) /\ hist' = [hist EXCEPT !.clean = s.clean,
                                     !.tuned = IF s.ok THEN s.priv.rf ELSE 0]
  BY <1>2
<1> HIDE DEF begun
<1>6. InputKnown(begun) /\ begun.priv.if = IfCarrier
  BY <1>3, <1>4 DEF Attuned, InputKnown
<1>7. freq \in Nat
  BY TunerAssumption DEF TunerAssumption
<1>8. /\ s \in States
      /\ s.fine = begun.fine
      /\ s.priv.if = begun.priv.if
      /\ s.clean => begun.clean
      /\ InputKnown(s)
      /\ s.ok => /\ s.priv.input = InputFor(s.priv.rf)
                 /\ Generates(s.chip, s.fine, s.priv)
      /\ \A i : HasGain(begun.chip, i) /\ HasGain(begun.regs, i) =>
                    HasGain(s.chip, i) /\ HasGain(s.regs, i)
  BY <1>4, <1>6, <1>7, SetFreq64Step
<1> HIDE DEF s
<1>9. /\ s.clean \in BOOLEAN /\ s.priv \in Privs /\ s.priv.rf \in Nat
      /\ 0 \in Nat /\ s.fine \in FineTunings
  BY <1>8 DEF States, Privs
<1>10. /\ hist' \in History /\ hist'.vhf /\ hist'.att = hist.att
       /\ hist'.clean = s.clean
       /\ hist'.tuned = IF s.ok THEN s.priv.rf ELSE 0
  <2>1. (IF s.ok THEN s.priv.rf ELSE 0) \in Nat
    BY <1>9
  <2>2. hist \in History
    BY <1>3 DEF TypeInv
  <2>3. QED
    BY <1>1, <1>5, <1>9, <2>1, <2>2 DEF History
<1>11. /\ chip'.regs = s.chip /\ chip'.fine = s.fine
       /\ regs' = s.regs /\ priv' = s.priv
  BY <1>5, <1>8, EndStep
<1>12. TypeInv'
  BY <1>5, <1>8, <1>10, EndStep DEF TypeInv
<1>13. Attuned(chip'.regs, regs', priv', hist'.clean)
  BY <1>6, <1>8, <1>10, <1>11 DEF Attuned, InputKnown
<1>14. hist'.tuned # 0 => priv'.input = InputFor(hist'.tuned)
  BY <1>8, <1>10, <1>11
<1>15. hist'.att # NoIndex => HasGain(chip'.regs, hist'.att) /\ HasGain(regs', hist'.att)
  BY <1>4, <1>8, <1>10, <1>11 DEF TunerInv
<1>16. TunedAsRequested'
  <2>1. CASE ~s.ok
    BY <1>10, <2>1, RequestOfState DEF AsRequested
  <2>2. CASE s.ok
    <3>1. AsRequested(s.chip, s.fine, s.priv, s.priv.rf)
      BY <1>6, <1>8, <1>9, <2>2, GeneratesRequested
    <3>2. QED
      BY <1>10, <1>11, <2>2, <3>1, RequestOfState
  <2>3. QED
    BY <2>1, <2>2
<1>17. QED
  BY <1>10, <1>12, <1>13, <1>14, <1>15, <1>16 DEF TunerInv

\* What both gain requests keep, whatever becomes of the gains themselves.
LEMMA GainedKeeps ==
    ASSUME TunerInv, hist.vhf, NEW begun \in States,
           begun.chip = chip.regs, begun.fine = chip.fine, begun.priv = priv,
           begun.regs = regs, begun.clean = hist.clean,
           NEW s, Gained(begun, s), End(s),
           hist' \in History, hist'.vhf, hist'.clean = s.clean, hist'.tuned = hist.tuned
    PROVE  /\ TypeInv' /\ TunedAsRequested'
           /\ Attuned(chip'.regs, regs', priv', hist'.clean)
           /\ hist'.clean /\ hist'.tuned # 0 => priv'.input = InputFor(hist'.tuned)
           /\ chip'.regs = s.chip /\ regs' = s.regs
<1>1. /\ s \in States /\ s.fine = begun.fine /\ s.priv = begun.priv
      /\ s.clean => begun.clean
      /\ InputKnown(begun) => InputKnown(s)
  BY DEF Gained
<1>2. /\ chip'.regs = s.chip /\ chip'.fine = s.fine
      /\ regs' = s.regs /\ priv' = s.priv
  BY <1>1, EndStep
<1>3. TypeInv'
  BY <1>1, EndStep DEF TypeInv
<1>4. Attuned(chip.regs, regs, priv, hist.clean)
  BY DEF TunerInv
<1>5. Attuned(chip'.regs, regs', priv', hist'.clean)
  BY <1>1, <1>2, <1>4 DEF Attuned, InputKnown
<1>6. hist'.clean /\ hist'.tuned # 0 => priv'.input = InputFor(hist'.tuned)
  BY <1>1, <1>2 DEF TunerInv
<1>7. TunedAsRequested'
  <2>1. AsRequested(begun.chip, chip.fine, priv, hist.tuned)
    BY RequestOfState DEF TunerInv
  <2>2. AsRequested(s.chip, chip.fine, priv, hist.tuned)
    BY <2>1, GainedRequested
  <2>3. QED
    BY <1>1, <1>2, <2>2, RequestOfState
<1>8. QED
  BY <1>2, <1>3, <1>5, <1>6, <1>7

LEMMA AttenuatorKeeps ==
    ASSUME TunerInv, NEW i \in AttSteps, R82XX_ATTENUATOR(i)
    PROVE  TunerInv'
<1>1. hist.vhf /\ \E fault \in Faults(hist.clean, 5) :
          LET s == SetAllGains(Begin(fault), i)
          IN  /\ End(s)
              /\ hist' = [hist EXCEPT !.clean = s.clean,
                                      !.att = IF s.ok THEN i ELSE NoIndex]
  BY DEF R82XX_ATTENUATOR
<1>2. PICK fault \in Faults(hist.clean, 5) :
          LET s == SetAllGains(Begin(fault), i)
          IN  /\ End(s)
              /\ hist' = [hist EXCEPT !.clean = s.clean,
                                      !.att = IF s.ok THEN i ELSE NoIndex]
  BY <1>1
<1> DEFINE begun == Begin(fault)
           s == SetAllGains(begun, i)
<1>3. TypeInv /\ 5 \in Nat /\ i \in 0 .. 28
  BY TunerAssumption DEF TunerInv, TunerAssumption
<1>4. /\ begun \in States
      /\ begun.chip = chip.regs /\ begun.fine = chip.fine
      /\ begun.priv = priv /\ begun.regs = regs /\ begun.clean = hist.clean
  BY <1>3, BeginStep
<1>5. End(s) /\ hist' = [hist EXCEPT !.clean = s.clean,
                                     !.att = IF s.ok THEN i ELSE NoIndex]
  BY <1>2
<1> HIDE DEF begun
<1>6. /\ Gained(begun, s)
      /\ s.ok => HasGain(s.chip, i) /\ HasGain(s.regs, i)
  BY <1>3, <1>4, SetAllGainsStep
<1> HIDE DEF s
<1>7. s.clean \in BOOLEAN /\ (IF s.ok THEN i ELSE NoIndex) \in Indices
  BY <1>3, <1>6 DEF Gained, States, Indices
<1>8. /\ hist' \in History /\ hist'.vhf /\ hist'.clean = s.clean
      /\ hist'.tuned = hist.tuned
      /\ hist'.att = IF s.ok THEN i ELSE NoIndex
  BY <1>1, <1>3, <1>5, <1>7 DEF TypeInv, History
<1>9. /\ TypeInv' /\ TunedAsRequested'
      /\ Attuned(chip'.regs, regs', priv', hist'.clean)
      /\ hist'.clean /\ hist'.tuned # 0 => priv'.input = InputFor(hist'.tuned)
      /\ chip'.regs = s.chip /\ regs' = s.regs
  BY <1>1, <1>4, <1>5, <1>6, <1>8, GainedKeeps
<1>10. QED
  BY <1>6, <1>8, <1>9 DEF TunerInv

LEMMA VgaKeeps ==
    ASSUME TunerInv, NEW i \in VgaSteps, R82XX_VGA(i)
    PROVE  TunerInv'
<1>1. hist.vhf /\ \E fault \in Faults(hist.clean, 1) :
          LET s == SetVgaGain(Begin(fault), i)
          IN  /\ End(s)
              /\ hist' = [hist EXCEPT !.clean = s.clean,
                                      !.vga = IF s.ok THEN i ELSE NoIndex]
  BY DEF R82XX_VGA
<1>2. PICK fault \in Faults(hist.clean, 1) :
          LET s == SetVgaGain(Begin(fault), i)
          IN  /\ End(s)
              /\ hist' = [hist EXCEPT !.clean = s.clean,
                                      !.vga = IF s.ok THEN i ELSE NoIndex]
  BY <1>1
<1> DEFINE begun == Begin(fault)
           s == SetVgaGain(begun, i)
<1>3. TypeInv /\ 1 \in Nat /\ i \in 0 .. 15
  BY TunerAssumption DEF TunerInv, TunerAssumption
<1>4. /\ begun \in States
      /\ begun.chip = chip.regs /\ begun.fine = chip.fine
      /\ begun.priv = priv /\ begun.regs = regs /\ begun.clean = hist.clean
  BY <1>3, BeginStep
<1>5. End(s) /\ hist' = [hist EXCEPT !.clean = s.clean,
                                     !.vga = IF s.ok THEN i ELSE NoIndex]
  BY <1>2
<1> HIDE DEF begun
<1>6. /\ Gained(begun, s)
      /\ s.chip.r05 = begun.chip.r05 /\ s.chip.r07 = begun.chip.r07
      /\ s.regs.r05 = begun.regs.r05 /\ s.regs.r07 = begun.regs.r07
  BY <1>3, <1>4, SetVgaGainStep
<1> HIDE DEF s
<1>7. s.clean \in BOOLEAN /\ (IF s.ok THEN i ELSE NoIndex) \in Indices
  BY <1>3, <1>6 DEF Gained, States, Indices
<1>8. /\ hist' \in History /\ hist'.vhf /\ hist'.clean = s.clean
      /\ hist'.tuned = hist.tuned /\ hist'.att = hist.att
  BY <1>1, <1>3, <1>5, <1>7 DEF TypeInv, History
<1>9. /\ TypeInv' /\ TunedAsRequested'
      /\ Attuned(chip'.regs, regs', priv', hist'.clean)
      /\ hist'.clean /\ hist'.tuned # 0 => priv'.input = InputFor(hist'.tuned)
      /\ chip'.regs = s.chip /\ regs' = s.regs
  BY <1>1, <1>4, <1>5, <1>6, <1>8, GainedKeeps
<1>10. hist'.att # NoIndex => HasGain(chip'.regs, hist'.att) /\ HasGain(regs', hist'.att)
  BY <1>4, <1>6, <1>8, <1>9 DEF TunerInv, HasGain
<1>11. QED
  BY <1>8, <1>9, <1>10 DEF TunerInv

-----------------------------------------------------------------------------
(* The theorems.                                                           *)

LEMMA Stutters == TunerInv /\ UNCHANGED vars => TunerInv'
  BY DEF vars, TunerInv, TypeInv, Attuned, HasGain, InputFor, TunedAsRequested, Wanted

\* What the driver, its shadow copy and the chip agree on between two
\* requests holds throughout: no request, and no transfer that fails in the
\* middle of one, ends it.
THEOREM TunerInvariant == Spec => []TunerInv
<1>1. Init => TunerInv
  BY Initially
<1>2. TunerInv /\ [Next]_vars => TunerInv'
  <2> SUFFICES ASSUME TunerInv, [Next]_vars PROVE TunerInv'
    OBVIOUS
  <2>1. CASE TUNERINIT
    BY <2>1, TunerInitKeeps
  <2>2. CASE TUNERSTDBY
    BY <2>2, TunerStdbyKeeps
  <2>3. CASE \E freq \in Frequencies : TUNERTUNE(freq)
    BY <2>3, TunerTuneKeeps
  <2>4. CASE \E i \in AttSteps : R82XX_ATTENUATOR(i)
    BY <2>4, AttenuatorKeeps
  <2>5. CASE \E i \in VgaSteps : R82XX_VGA(i)
    BY <2>5, VgaKeeps
  <2>6. CASE UNCHANGED vars
    BY <2>6, Stutters
  <2>7. QED
    BY <2>1, <2>2, <2>3, <2>4, <2>5, <2>6 DEF Next
<1>3. QED
  BY <1>1, <1>2, PTL DEF Spec

\* Every register holds what fits into it: the sum with the fine tuning that
\* is shifted into the divider's field, and the words that are cut to bytes.
THEOREM TypeCorrect == Spec => []TypeOK
<1>1. TunerInv => TypeOK
  BY DEF TunerInv, TypeInv, TypeOK, Privs, History
<1>2. QED
  BY <1>1, TunerInvariant, PTL

\* After a TUNERTUNE that succeeded the oscillator runs, to half a step, at a
\* multiple in its range of the LO the host means, behind the filters of that
\* range, for every frequency a divider fits, every fine tuning and every
\* failure before; for the fine tuning the driver reckons with, the divider's
\* code is one the chip's description has and gives the mixer that LO.
\* Neither gain request changes that.
THEOREM ChipIsTuned == Spec => []TunedAsRequested
<1>1. TunerInv => TunedAsRequested
  BY DEF TunerInv
<1>2. QED
  BY <1>1, TunerInvariant, PTL

\* As long as no transfer failed, the input is the one for the frequency last
\* tuned, although r82xx_set_freq64 writes it only when its cached value
\* changes and set_all_gains rewrites the same register.
THEOREM InputIsFollowed == Spec => []InputFollows
<1>1. TunerInv => InputFollows
  <2> SUFFICES ASSUME TunerInv, hist.clean, hist.tuned # 0
               PROVE  chip.regs.r05.input = InputFor(hist.tuned)
    BY DEF InputFollows, InputFor
  <2>1. hist.vhf /\ priv.input = InputFor(hist.tuned)
    BY DEF TunerInv
  <2>2. chip.regs.r05.input = priv.input
    BY <2>1 DEF TunerInv, Attuned
  <2>3. QED
    BY <2>1, <2>2
<1>2. QED
  BY <1>1, TunerInvariant, PTL

\* The gains of a successful R82XX_ATTENUATOR stay in the chip, though tuning
\* rewrites register 5 from the shadow, and may fail on the way.
THEOREM GainIsKept == Spec => []GainAsRequested
<1>1. TunerInv => GainAsRequested
  BY DEF TunerInv, HasGain, GainAsRequested
<1>2. QED
  BY <1>1, TunerInvariant, PTL

=============================================================================
