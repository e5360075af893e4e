------------------------ MODULE RadioArithmeticProofs ------------------------
(***************************************************************************)
(* What the arithmetic behind the settings gives: that of fft_mt_r2iq for  *)
(* every FFT size, alignment and offset, and RadioHandler's choice of a    *)
(* gain step for every rising table and every wanted gain.                 *)
(***************************************************************************)
EXTENDS R2iqBins, GainSteps, WellFoundedInduction, TLAPS

-----------------------------------------------------------------------------
(* The converter's bins.                                                   *)

LEMMA QuotientRemainder ==
    ASSUME NEW a \in Nat, NEW b \in Nat \ {0}
    PROVE  /\ a \div b \in Nat
           /\ a % b \in Nat
           /\ a = b * (a \div b) + (a % b)
           /\ a % b < b
  BY SMT

LEMMA ProductNat ==
    ASSUME NEW a \in Nat, NEW b \in Nat
    PROVE  a * b \in Nat /\ a * b = b * a
  BY SMT

\* A multiple has no remainder.
LEMMA MultipleMod ==
    ASSUME NEW k \in Nat, NEW b \in Nat \ {0}
    PROVE  (k * b) % b = 0
<1> DEFINE q == (k * b) \div b
           r == (k * b) % b
<1>1. k * b \in Nat
  BY ProductNat
<1>2. /\ q \in Nat /\ r \in Nat
      /\ k * b = b * q + r
      /\ r < b
  BY <1>1, QuotientRemainder
<1> HIDE DEF q, r
<1>3. CASE k = q
  BY <1>2, <1>3, ProductNat, SMT
<1>4. CASE k > q
  <2>1. (k - q) * b >= b
    BY <1>2, <1>4, SMT
  <2>2. (k - q) * b = k * b - q * b
    BY <1>2, <1>4, SMT
  <2>3. b * q = q * b /\ q * b \in Nat
    BY <1>2, ProductNat
  <2>4. QED
    BY <1>1, <1>2, <2>1, <2>2, <2>3
<1>5. CASE k < q
  <2>1. (q - k) * b >= b
    BY <1>2, <1>5, SMT
  <2>2. (q - k) * b = q * b - k * b
    BY <1>2, <1>5, SMT
  <2>3. b * q = q * b /\ q * b \in Nat
    BY <1>2, ProductNat
  <2>4. QED
    BY <1>1, <1>2, <2>1, <2>2, <2>3
<1>6. QED
  BY <1>2, <1>3, <1>4, <1>5 DEF r

\* A natural multiple of something without remainder has none either.
LEMMA ProductMod ==
    ASSUME NEW k \in Nat, NEW a \in Nat, NEW b \in Nat \ {0}, a % b = 0
    PROVE  (k * a) % b = 0
<1> DEFINE q == a \div b
<1>1. q \in Nat /\ a = b * q
  BY QuotientRemainder
<1> HIDE DEF q
<1>2. k * a = (k * q) * b
  BY <1>1, SMT
<1>3. k * q \in Nat
  BY <1>1, ProductNat
<1>4. QED
  BY <1>2, <1>3, MultipleMod

\* The bin is a multiple of the alignment.
LEMMA NearestBinAligned ==
    ASSUME BinsAssumption, NEW num \in Nat, NEW den \in Nat \ {0}
    PROVE  \E k \in Nat : NearestBin(num, den) = k * Alignment
<1> DEFINE top == num * HalfSize + (Alignment \div 2) * den
<1>1. num * HalfSize \in Nat
  BY ProductNat DEF BinsAssumption
<1>2. Alignment \div 2 \in Nat
  BY QuotientRemainder, 2 \in Nat \ {0} DEF BinsAssumption
<1>3. (Alignment \div 2) * den \in Nat
  BY <1>2, ProductNat
<1>4. Alignment * den \in Nat \ {0}
  BY SMT DEF BinsAssumption
<1>5. top \in Nat
  BY <1>1, <1>3
<1> HIDE DEF top
<1>6. top \div (Alignment * den) \in Nat
  BY <1>4, <1>5, QuotientRemainder
<1>7. QED
  BY <1>6 DEF NearestBin, top

\* A bin on the alignment turns by whole turns from one FFT to the next.
LEMMA AlignedTurnsWhole ==
    ASSUME BinsAssumption, NEW bin \in Nat, bin % Alignment = 0
    PROVE  WholeTurns(bin)
<1> DEFINE turn == 2 * Alignment * (HalfSize - HalfScrap)
           j == bin \div Alignment
<1>1. /\ HalfSize \in Nat \ {0} /\ HalfScrap \in Nat /\ HalfScrap < HalfSize
      /\ Alignment \in Nat \ {0}
  BY DEF BinsAssumption
<1>2. j \in Nat /\ bin = Alignment * j
  BY <1>1, QuotientRemainder
<1>3. turn \in Nat /\ turn % (2 * HalfSize) = 0 /\ 2 * HalfSize \in Nat \ {0}
  <2>1. HalfSize - HalfScrap \in Nat /\ 2 * Alignment \in Nat
    BY <1>1
  <2>2. QED
    BY <1>1, <2>1, ProductNat DEF BinsAssumption
<1> HIDE DEF j
<1>4. bin * Advance = j * turn
  BY <1>1, <1>2, SMT DEF Advance
<1> HIDE DEF turn
<1>5. (j * turn) % (2 * HalfSize) = 0
  BY <1>2, <1>3, ProductMod
<1>6. QED
  BY <1>4, <1>5 DEF WholeTurns

\* Whatever the offset, setFreqOffset chooses a bin of the FFT, aligned so
\* that the output of consecutive FFTs joins without a step of the phase.
THEOREM TuningBinAligned ==
    ASSUME BinsAssumption, NEW num \in Nat, NEW den \in Nat \ {0}
    PROVE  /\ TuningBin(num, den) \in 0 .. HalfSize
           /\ TuningBin(num, den) % Alignment = 0
           /\ WholeTurns(TuningBin(num, den))
<1> DEFINE n == Least(num, den)
           bin == TuningBin(num, den)
<1>1. HalfSize \in Nat \ {0} /\ Alignment \in Nat \ {0} /\ HalfScrap \in Nat
      /\ HalfScrap < HalfSize /\ HalfSize % Alignment = 0
  BY DEF BinsAssumption
<1>2. n \in Nat
  BY DEF Least
<1>3. PICK k \in Nat : NearestBin(n, den) = k * Alignment
  BY <1>2, NearestBinAligned
<1> DEFINE ends == HalfSize \div Alignment
<1>4. ends \in Nat /\ HalfSize = ends * Alignment
  <2>1. ends \in Nat /\ HalfSize = Alignment * ends
    BY <1>1, QuotientRemainder
  <2> HIDE DEF ends
  <2>2. QED
    BY <1>1, <2>1, ProductNat
<1> HIDE DEF ends
<1>5. \E j \in Nat : bin = j * Alignment
  BY <1>3, <1>4 DEF TuningBin, Least
<1>6. PICK j \in Nat : bin = j * Alignment
  BY <1>5
<1>7. bin \in 0 .. HalfSize
  <2>1. k * Alignment \in Nat
    BY <1>1, ProductNat
  <2>2. QED
    BY <1>1, <1>3, <2>1, SMT DEF TuningBin, Least
<1>8. bin % Alignment = 0
  BY <1>1, <1>6, MultipleMod
<1>9. WholeTurns(bin)
  BY <1>7, <1>8, AlignedTurnsWhole
<1>10. QED
  BY <1>7, <1>8, <1>9

\* For every tuning bin and every decimation the two pieces the converter
\* copies lie inside the FFT and inside the output block.
THEOREM WindowAlwaysFits ==
    ASSUME BinsAssumption, NEW bin \in 0 .. HalfSize,
           NEW half \in Nat
    PROVE  WindowFits(bin, half)
  BY SMT DEF BinsAssumption, WindowFits, UpperLen, LowerStart, Least, Greatest

\* The bin an output bin is made of, counted from the tuning bin, is the one
\* as far from the centre, and zero is written for it exactly when that lies
\* outside of the spectrum: the decimated spectrum is the wanted piece of the
\* whole one.
THEOREM WindowIsSpectrum ==
    ASSUME BinsAssumption, NEW bin \in 0 .. HalfSize,
           NEW half \in Nat, NEW m \in 0 .. half - 1
    PROVE  /\ UpperSource(bin, half, m) =
                  IF bin + m \in 0 .. HalfSize - 1 THEN bin + m ELSE -1
           /\ LowerSource(bin, half, m) =
                  IF bin - half + m >= 0 THEN bin - half + m ELSE -1
  BY SMT DEF BinsAssumption, UpperSource, LowerSource, UpperLen, LowerStart,
             Least, Greatest

\* What the kept parts of all FFTs of a block make, undecimated, is exactly
\* one complex sample for two real ones of the block: no sample is lost or
\* doubled between blocks.
THEOREM BlockIsFilled ==
    ASSUME BinsAssumption, NEW ratio \in Nat \ {0},
           HalfSize % ratio = 0, HalfScrap % ratio = 0
    PROVE  2 * ratio * OutputOfBlock(ratio) = BlockSize
<1> DEFINE a == HalfSize \div ratio
           b == HalfScrap \div ratio
<1>1. a \in Nat /\ HalfSize = ratio * a
  BY QuotientRemainder DEF BinsAssumption
<1>2. b \in Nat /\ HalfScrap = ratio * b
  BY QuotientRemainder DEF BinsAssumption
<1>3. UsefulSize(ratio) = a - b
  BY DEF UsefulSize, OutputSize
<1> HIDE DEF a, b
<1>4. 2 * ratio * (FftsPerBlock * (a - b)) =
          FftsPerBlock * (2 * (ratio * a - ratio * b))
  BY <1>1, <1>2, SMT DEF BinsAssumption
<1>5. QED
  BY <1>1, <1>2, <1>3, <1>4 DEF OutputOfBlock, BlockSize, Advance

-----------------------------------------------------------------------------
(* The gain steps.                                                         *)

\* A set of naturals that is not empty has a least member.
LEMMA LeastMember ==
    ASSUME NEW S, S \subseteq Nat, S # {}
    PROVE  \E n \in S : \A k \in S : n <= k
<1> DEFINE R == {p \in Nat \X Nat : p[1] < p[2]}
<1>1. IsWellFoundedOn(R, Nat)
  BY NatLessThanWellFounded DEF OpToRel
<1> HIDE DEF R
<1>2. PICK n \in S : \A k \in S : ~ (<<k, n>> \in R)
  BY <1>1, WFMin
<1>3. \A k \in S : ~ (k < n)
  BY <1>2 DEF R
<1>4. QED
  BY <1>3

\* A table is a function on its indices.
LEMMA TableEntries ==
    ASSUME NEW steps, IsGainTable(steps)
    PROVE  /\ Len(steps) \in Nat \ {0}
           /\ \A i \in 1 .. Len(steps) : steps[i] \in Int
  BY DEF IsGainTable

\* Clamping leaves a gain between the ends of the table.
LEMMA ClampedBetween ==
    ASSUME NEW steps, IsGainTable(steps), NEW wanted \in Int
    PROVE  /\ Clamped(steps, wanted) \in Int
           /\ steps[1] <= Clamped(steps, wanted)
           /\ Clamped(steps, wanted) <= steps[Len(steps)]
<1>1. steps[1] \in Int /\ steps[Len(steps)] \in Int
  BY TableEntries
<1>2. steps[1] <= steps[Len(steps)]
  BY TableEntries DEF IsGainTable
<1>3. QED
  BY <1>1, <1>2 DEF Clamped

\* The loop of SetRFGain finds a pair, and the first pair it finds has the
\* gain in it.
LEMMA PairIsFound ==
    ASSUME NEW steps, IsGainTable(steps), NEW gain \in Int,
           steps[1] <= gain, gain <= steps[Len(steps)], Len(steps) > 1
    PROVE  \E i \in Brackets(steps, gain) :
               \A k \in Brackets(steps, gain) : i <= k
<1> DEFINE above == {i \in 2 .. Len(steps) : gain <= steps[i]}
<1>1. Len(steps) \in Nat \ {0} /\ \A i \in 1 .. Len(steps) : steps[i] \in Int
  BY TableEntries
<1>2. above \subseteq Nat /\ above # {}
  <2>1. Len(steps) \in above
    BY <1>1
  <2>2. QED
    BY <1>1, <2>1
<1>3. PICK i \in above : \A k \in above : i <= k
  BY <1>2, LeastMember
<1>4. steps[i - 1] <= gain
  <2>1. CASE i = 2
    BY <2>1
  <2>2. CASE i # 2
    <3>1. i - 1 \in 2 .. Len(steps) /\ i - 1 \notin above
      BY <1>1, <1>3, <2>2
    <3>2. QED
      BY <1>1, <3>1
  <2>3. QED
    BY <2>1, <2>2
<1>5. i \in Brackets(steps, gain)
  BY <1>3, <1>4 DEF Brackets
<1>6. Brackets(steps, gain) \subseteq above
  BY DEF Brackets
<1>7. QED
  BY <1>3, <1>5, <1>6

\* The step is the nearer end of the pair, or the only step there is.
LEMMA StepOfPair ==
    ASSUME NEW steps, IsGainTable(steps), NEW wanted \in Int, Len(steps) > 1
    PROVE  \E i \in 2 .. Len(steps) :
               LET gain == Clamped(steps, wanted) IN
               /\ steps[i - 1] <= gain /\ gain <= steps[i]
               /\ NearestStep(steps, wanted) =
                      IF 2 * (gain - steps[i - 1]) > steps[i] - steps[i - 1]
                      THEN i ELSE i - 1
<1> DEFINE gain == Clamped(steps, wanted)
           pairs == Brackets(steps, gain)
           least == CHOOSE i \in pairs : \A k \in pairs : i <= k
<1>1. \E i \in pairs : \A k \in pairs : i <= k
  BY ClampedBetween, PairIsFound
<1>2. least \in pairs /\ pairs # {}
  BY <1>1
<1>3. least \in 2 .. Len(steps) /\ steps[least - 1] <= gain /\ gain <= steps[least]
  BY <1>2 DEF Brackets
<1>4. NearestStep(steps, wanted) =
          IF 2 * (gain - steps[least - 1]) > steps[least] - steps[least - 1]
          THEN least ELSE least - 1
  BY <1>2 DEF NearestStep
<1> HIDE DEF least, gain
<1>5. QED
  BY <1>3, <1>4 DEF gain

\* A gain between two neighbours is as near to one of them as to any step.
LEMMA NeighbourIsNearest ==
    ASSUME NEW steps, IsGainTable(steps), NEW gain \in Int,
           NEW i \in 2 .. Len(steps), NEW n,
           steps[i - 1] <= gain, gain <= steps[i],
           n = IF 2 * (gain - steps[i - 1]) > steps[i] - steps[i - 1]
               THEN i ELSE i - 1
    PROVE  IsNearest(steps, gain, n)
<1>1. Len(steps) \in Nat \ {0} /\ \A j \in 1 .. Len(steps) : steps[j] \in Int
  BY TableEntries
<1>2. i \in 1 .. Len(steps) /\ i - 1 \in 1 .. Len(steps)
  BY <1>1
<1>3. n \in 1 .. Len(steps)
  BY <1>2
<1>4. ASSUME NEW j \in 1 .. Len(steps)
      PROVE  Distance(steps[n], gain) <= Distance(steps[j], gain)
  <2>1. CASE j <= i - 1
    <3>1. steps[j] <= steps[i - 1]
      BY <1>2, <2>1 DEF IsGainTable
    <3>2. steps[j] \in Int /\ steps[i] \in Int /\ steps[i - 1] \in Int
      BY <1>1, <1>2
    <3>3. QED
      BY <3>1, <3>2, SMTT(30) DEF Distance
  <2>2. CASE j >= i
    <3>1. steps[i] <= steps[j]
      BY <1>2, <2>2 DEF IsGainTable
    <3>2. steps[j] \in Int /\ steps[i] \in Int /\ steps[i - 1] \in Int
      BY <1>1, <1>2
    <3>3. QED
      BY <3>1, <3>2, SMTT(30) DEF Distance
  <2>3. QED
    BY <1>2, <2>1, <2>2
<1>5. QED
  BY <1>3, <1>4 DEF IsNearest

\* What is nearest to the clamped gain is nearest to the wanted one.
LEMMA ClampedIsNearest ==
    ASSUME NEW steps, IsGainTable(steps), NEW wanted \in Int, NEW n,
           IsNearest(steps, Clamped(steps, wanted), n)
    PROVE  IsNearest(steps, wanted, n)
<1> DEFINE gain == Clamped(steps, wanted)
           last == Len(steps)
<1>1. last \in Nat \ {0} /\ \A j \in 1 .. last : steps[j] \in Int
  BY TableEntries
<1>2. n \in 1 .. last /\ 1 \in 1 .. last /\ last \in 1 .. last
  BY <1>1 DEF IsNearest
<1>3. ASSUME NEW j \in 1 .. last
      PROVE  Distance(steps[n], wanted) <= Distance(steps[j], wanted)
  <2>1. /\ steps[1] <= steps[j] /\ steps[j] <= steps[last]
        /\ steps[1] <= steps[n] /\ steps[n] <= steps[last]
    BY <1>1, <1>2 DEF IsGainTable
  <2>2. /\ Distance(steps[n], gain) <= Distance(steps[1], gain)
        /\ Distance(steps[n], gain) <= Distance(steps[last], gain)
        /\ Distance(steps[n], gain) <= Distance(steps[j], gain)
    BY <1>2 DEF IsNearest
  <2>3. {steps[1], steps[last], steps[j], steps[n]} \subseteq Int
    BY <1>1, <1>2
  <2>4. CASE wanted <= steps[1]
    BY <2>1, <2>2, <2>3, <2>4, SMTT(30) DEF Clamped, Distance
  <2>5. CASE wanted > steps[1] /\ wanted >= steps[last]
    BY <2>1, <2>2, <2>3, <2>5, SMTT(30) DEF Clamped, Distance
  <2>6. CASE wanted > steps[1] /\ wanted < steps[last]
    BY <2>2, <2>3, <2>6 DEF Clamped
  <2>7. QED
    BY <2>3, <2>4, <2>5, <2>6
<1>4. QED
  BY <1>2, <1>3 DEF IsNearest

\* SetRFGain and SetIFGain choose a step of the table, and no other step is
\* nearer to the gain asked for, be it between steps, on one or beyond the
\* ends, and also when the table repeats a value or has a single step.
THEOREM NearestStepIsNearest ==
    ASSUME NEW steps, IsGainTable(steps), NEW wanted \in Int
    PROVE  IsNearest(steps, wanted, NearestStep(steps, wanted))
<1> DEFINE gain == Clamped(steps, wanted)
<1>1. Len(steps) \in Nat \ {0} /\ \A j \in 1 .. Len(steps) : steps[j] \in Int
  BY TableEntries
<1>2. gain \in Int
  BY ClampedBetween
<1>3. CASE Len(steps) = 1
  <2>1. Brackets(steps, gain) = {}
    BY <1>3 DEF Brackets
  <2>2. NearestStep(steps, wanted) = 1
    BY <2>1 DEF NearestStep
  <2>3. QED
    BY <1>1, <1>3, <2>2 DEF IsNearest, Distance
<1>4. CASE Len(steps) > 1
  <2>1. PICK i \in 2 .. Len(steps) :
            /\ steps[i - 1] <= gain /\ gain <= steps[i]
            /\ NearestStep(steps, wanted) =
                   IF 2 * (gain - steps[i - 1]) > steps[i] - steps[i - 1]
                   THEN i ELSE i - 1
    BY <1>4, StepOfPair
  <2>2. IsNearest(steps, gain, NearestStep(steps, wanted))
    BY <1>2, <2>1, NeighbourIsNearest
  <2>3. QED
    BY <2>2, ClampedIsNearest
<1>5. QED
  BY <1>1, <1>3, <1>4

=============================================================================
