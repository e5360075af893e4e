----------------------------- MODULE GainSteps -----------------------------
(***************************************************************************)
(* How RadioHandler chooses a step of a gain table: SetRFGain and          *)
(* SetIFGain clamp the value to the ends of the table and take the nearer  *)
(* of the two steps it lies between.  Gains are integers in a unit fine    *)
(* enough for the table; a step is an index of the table, from 1 (the code *)
(* counts from 0).                                                         *)
(***************************************************************************)
EXTENDS Integers, Sequences

\* The tables of the radio classes rise.
IsGainTable(steps) ==
    /\ steps \in Seq(Int)
    /\ steps # <<>>
    /\ \A i, j \in 1 .. Len(steps) : i <= j => steps[i] <= steps[j]

Clamped(steps, gain) ==
    IF gain <= steps[1] THEN steps[1]
    ELSE IF gain >= steps[Len(steps)] THEN steps[Len(steps)]
    ELSE gain

\* The pairs (i - 1, i) the loop stops at, should it get that far.
Brackets(steps, gain) ==
    {i \in 2 .. Len(steps) : steps[i - 1] <= gain /\ gain <= steps[i]}

\* Mutant: always the lower step of the pair.
NearestStepBelow(steps, wanted) ==
    LET gain == Clamped(steps, wanted) IN
    IF Brackets(steps, gain) = {} THEN 1
    ELSE (CHOOSE i \in Brackets(steps, gain) :
              \A k \in Brackets(steps, gain) : i <= k) - 1

\* Mutant: the upper end of the table is one too far.
NearestStepPastEnd(steps, wanted) ==
    IF wanted >= steps[Len(steps)] THEN Len(steps) + 1 ELSE 1

\* The step for a wanted gain; the first one if the loop finds no pair.
NearestStep(steps, wanted) ==
    LET gain == Clamped(steps, wanted) IN
    IF Brackets(steps, gain) = {} THEN 1
    ELSE LET i == CHOOSE i \in Brackets(steps, gain) :
                      \A k \in Brackets(steps, gain) : i <= k
         IN  IF 2 * (gain - steps[i - 1]) > steps[i] - steps[i - 1]
             THEN i ELSE i - 1

Distance(a, b) == IF a <= b THEN b - a ELSE a - b

\* What a caller may expect: no other step is nearer.
IsNearest(steps, wanted, step) ==
    /\ step \in 1 .. Len(steps)
    /\ \A i \in 1 .. Len(steps) :
           Distance(steps[step], wanted) <= Distance(steps[i], wanted)

=============================================================================
