------------------------------ MODULE TunerPll ------------------------------
(***************************************************************************)
(* The arithmetic of r82xx_set_pll (SDDC_FX3/driver/tuner_r82xx.c): which  *)
(* divider follows the oscillator, and the integer and fractional words    *)
(* that set the oscillator.  Frequencies are naturals in one unit.         *)
(***************************************************************************)
EXTENDS Integers

CONSTANTS
    Reference,  \* cfg->xtal (16 MHz)
    VcoMin,     \* vco_min (1770 MHz); the upper limit is twice as much
    SdmSteps,   \* steps of the fractional word (65536)
    SdmLow      \* steps of its low byte (256)

ASSUME PllAssumption ==
    /\ Reference \in Nat \ {0}
    /\ VcoMin \in Nat \ {0}
    /\ SdmSteps \in Nat \ {0}
    /\ SdmLow \in Nat \ {0}
    /\ SdmSteps % SdmLow = 0
    /\ VcoMin <= 255 * Reference   \* nint has 8 bits; 110 is enough here

Dividers == {2, 4, 8, 16, 32, 64}

\* The dividers that take the oscillator into its range.
Fitting(lo) == {m \in Dividers : lo * m >= VcoMin /\ lo * m < 2 * VcoMin}

\* mix_div after the loop; 128 if it ran out.
MixDiv(lo) ==
    LET fitting == Fitting(lo)
    IN  IF fitting = {} THEN 128 ELSE CHOOSE m \in fitting : TRUE

\* div_num: how often the divider is halved down to 2; 0 if there is none.
DivNum(mixDiv) ==
    CASE mixDiv = 4 -> 1 [] mixDiv = 8 -> 2 [] mixDiv = 16 -> 3
      [] mixDiv = 32 -> 4 [] mixDiv = 64 -> 5 [] OTHER -> 0

\* Mutant: cut off instead of rounded.
VcoDivTruncated(vco) == (SdmSteps * vco) \div (2 * Reference)

\* vco_div: the oscillator's frequency in steps of 2 * Reference / SdmSteps.
VcoDiv(vco) == (Reference + SdmSteps * vco) \div (2 * Reference)

\* The registers nint (8 bits), sdm >> 8 and sdm & 0xff.
Nint(vco) == (VcoDiv(vco) \div SdmSteps) % 256
Sdm(vco) == VcoDiv(vco) % SdmSteps
SdmHi(vco) == Sdm(vco) \div SdmLow
SdmLo(vco) == Sdm(vco) % SdmLow

\* (128 / vco_power_ref) - 1, with the R828D's vco_power_ref of 1.
NintMax == 127

\* What the registers make of the oscillator, times SdmSteps.
Programmed(nint, hi, low) == 2 * Reference * (nint * SdmSteps + hi * SdmLow + low)

Off(a, b) == IF a <= b THEN b - a ELSE a - b

=============================================================================
