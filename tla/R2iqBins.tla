------------------------------ MODULE R2iqBins ------------------------------
(***************************************************************************)
(* The arithmetic of Core/fft_mt_r2iq: which FFT bin the converter moves   *)
(* to zero, what is left for the fine mixer, which bins an output block is *)
(* made of and how the pieces fill it.                                     *)
(*                                                                         *)
(* Frequencies are natural numbers in a unit of the user's choice, and a   *)
(* fraction of the Nyquist frequency is a numerator and a denominator; the *)
(* code's floats are taken to be exact.                                    *)
(***************************************************************************)
EXTENDS Integers

CONSTANTS
    HalfSize,   \* BASE_FFT_HALF_SIZE (5120): bins of the forward FFT
    HalfScrap,  \* BASE_FFT_SCRAP_SIZE / 2 (1024)
    Alignment,  \* tuning_bin_alignment (20)
    FftsPerBlock \* ffts_per_blocks (8)

\* What the converter's constants have in common with the code's: the bins
\* of both ends are aligned, and a step by the alignment is a whole number
\* of turns between two FFTs.
ASSUME BinsAssumption ==
    /\ HalfSize \in Nat \ {0}
    /\ HalfScrap \in Nat
    /\ HalfScrap < HalfSize
    /\ Alignment \in Nat \ {0}
    /\ Alignment % 2 = 0
    /\ HalfSize % Alignment = 0
    /\ (2 * Alignment * (HalfSize - HalfScrap)) % (2 * HalfSize) = 0
    /\ FftsPerBlock \in Nat \ {0}

\* Samples the input advances from one FFT to the next, and in a block.
Advance == 2 * (HalfSize - HalfScrap)
BlockSize == FftsPerBlock * Advance

\* Decimation 0, 1, 2 .. divides by 1, 2, 4 ..
DecimationRatio == [d \in 0 .. 6 |-> 2 ^ d]

Least(a, b) == IF a <= b THEN a ELSE b
Greatest(a, b) == IF a <= b THEN b ELSE a

-----------------------------------------------------------------------------
(* fft_mt_r2iq::setFreqOffset(num / den).                                  *)

\* The aligned bin next to the offset.
NearestBin(num, den) ==
    ((num * HalfSize + (Alignment \div 2) * den) \div (Alignment * den))
        * Alignment

\* Mutant: an offset beyond the spectrum is used as it is.
TuningBinUnclamped(num, den) == NearestBin(num, den)

\* Offsets beyond Nyquist count as Nyquist.
TuningBin(num, den) == Least(NearestBin(Least(num, den), den), HalfSize)

\* What the bin misses, as a multiple of 1 / (HalfSize * den); delta in the
\* code, before it is multiplied by the decimation ratio.
Rest(num, den) == TuningBin(num, den) * den - Least(num, den) * HalfSize

-----------------------------------------------------------------------------
(* r2iqThreadf: the parts of the spectrum that make an output block of     *)
(* 2 * half bins around the tuning bin.                                    *)

OutputSize(ratio) == HalfSize \div ratio
OutputHalf(ratio) == OutputSize(ratio) \div 2

UpperLen(bin, half) == Least(HalfSize - bin, half)
LowerStart(bin, half) == Greatest(half - bin, 0)

\* Bins of the forward FFT read for output bin m; -1 where zero is written.
UpperSource(bin, half, m) == IF m < UpperLen(bin, half) THEN bin + m ELSE -1
LowerSource(bin, half, m) ==
    IF m >= LowerStart(bin, half) THEN bin - half + m ELSE -1

\* The pieces lie inside the FFT and inside the output.
WindowFits(bin, half) ==
    /\ 0 <= bin
    /\ 0 <= UpperLen(bin, half) /\ UpperLen(bin, half) <= half
    /\ bin + UpperLen(bin, half) <= HalfSize
    /\ 0 <= LowerStart(bin, half) /\ LowerStart(bin, half) <= half
    /\ 0 <= bin - half + LowerStart(bin, half)

\* The turn of the bin from one FFT to the next is whole.
WholeTurns(bin) == (bin * Advance) % (2 * HalfSize) = 0

\* Samples of an FFT that are kept, and those of a whole block.
UsefulSize(ratio) == OutputSize(ratio) - HalfScrap \div ratio
OutputOfBlock(ratio) == FftsPerBlock * UsefulSize(ratio)

=============================================================================
