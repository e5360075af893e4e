------------------------- MODULE SoapyStreamProofs --------------------------
(***************************************************************************)
(* Safety of SoapyStream for every number of buffers, of elements and of   *)
(* blocks, as long as the stream is not set up or activated with a block   *)
(* half read (SoapyRestart.cfg shows what happens then).                   *)
(*                                                                         *)
(* QueueInv says how the three variables of the queue relate while both    *)
(* sides are between two of their steps; OrderInv builds on it and says    *)
(* what the slots hold; GapInv says where numbers may be missing, and by   *)
(* what each gap is covered.                                               *)
(***************************************************************************)
EXTENDS SoapyStream, TLAPS

\* An index at most one turn too far, brought back into the ring.
Wrap(x) == IF x < NumBuffers THEN x ELSE x - NumBuffers

\* Slots from the read index on that hold a block not handed out yet: the
\* one handed out is still counted, the one just written is not yet.
Queued == buf_count - One(Held) + One(cb = "count")

IndexInv ==
    /\ samples_block_write = Wrap(samples_block_read + Queued)
    /\ Held => buf_count > 0 /\ samples_block_read = Wrap(currentHandle + 1)

\* What Callback has found out stays true: only it raises the count.
CallbackInv ==
    /\ cb \in {"copy", "count"} => buf_count < NumBuffers
    /\ cb \in {"full", "copy"} => next <= MaxBlocks

\* A block in hand is finished before another one is acquired.
ReaderInv ==
    /\ app = "copy" => bufferedElems > 0
    /\ app \notin {"idle", "copy"} => bufferedElems = 0
    /\ app = "take" => buf_count > 0

QueueInv == TypeOK /\ IndexInv /\ CallbackInv /\ ReaderInv

\* The k-th block of the queue, not handed out yet.
Waiting(k) == samples_buffer[Wrap(samples_block_read + k)]

Positions == 0 .. (Queued - 1)

\* The blocks wait in the order of their arrival.
SortedInv ==
    /\ last < next /\ first <= next
    /\ \A k \in Positions : last < Waiting(k) /\ Waiting(k) < next
    /\ \A j, k \in Positions : j < k => Waiting(j) < Waiting(k)

\* Once the queue has been reset after an activation, and for the block that
\* is written but not counted at any time, they are of this activation.
FreshInv ==
    \A k \in Positions :
        (~resetBuffer \/ app = "clear" \/ (cb = "count" /\ k = Queued - 1))
            => Waiting(k) >= first

\* The reader asks for a block only after the reset that is due.
ResetInv ==
    /\ app \in {"check", "discard", "overflow", "test", "lock", "asleep", "take"}
          => ~resetBuffer
    /\ app = "start" => resetBuffer

OrderInv == SortedInv /\ FreshInv /\ ResetInv

\* A number is missing before the k-th block of the queue or, for k = Queued,
\* before the one that is due.
Gap(k) ==
    (IF k < Queued THEN Waiting(k) ELSE next) # 1 + (IF k = 0 THEN last ELSE Waiting(k - 1))

Inside == 1 .. Queued

\* The queue will be discarded before it is read; the event will be cleared.
Outdated == resetBuffer /\ app # "clear"
Clearing == app \in {"clear", "overflow"}

\* What the reader and Callback have done when an event is about to be cleared:
\* the queue has been emptied, so that it has a gap only if it is full again.
ClearInv ==
    /\ app \in {"discard", "overflow"} => overflowEvent
    /\ app = "clear" => resetBuffer
    /\ resetBuffer /\ app # "start" => reported
    /\ cb = "count" => \A k \in Inside : k = Queued => ~Gap(k)
    /\ Clearing /\ cb = "full" => Queued \in {0, NumBuffers}
    /\ Clearing => \A k \in Inside : Gap(k) => swallowed /\ k = NumBuffers

\* Every gap is covered, the one at the head of the queue perhaps by what was
\* reported; an event that was swallowed covers one gap.
CoverInv ==
    ~Outdated =>
        /\ Gap(0) => \/ reported \/ overflowEvent \/ swallowed
                     \/ cb = "off" /\ Queued = 0
        /\ \A k \in Inside : Gap(k) => overflowEvent \/ swallowed
        /\ ~overflowEvent =>
               /\ \A j, k \in Inside : Gap(j) /\ Gap(k) => j = k
               /\ ~reported /\ Gap(0) => \A k \in Inside : ~Gap(k)

GapInv == ClearInv /\ CoverInv

-----------------------------------------------------------------------------
(* Arithmetic.                                                             *)

LEMMA Turns ==
    ASSUME NEW m \in Nat \ {0}, NEW x \in 0 .. m - 1
    PROVE  x % m = x /\ (x + m) % m = x /\ (x + m + m) % m = x
  OBVIOUS

LEMMA WrapIsMod ==
    ASSUME NEW x \in 0 .. 2 * NumBuffers - 1
    PROVE  /\ x % NumBuffers = Wrap(x)
           /\ (x + NumBuffers) % NumBuffers = Wrap(x)
           /\ Wrap(x) \in Slots
<1>1. NumBuffers \in Nat \ {0}
  BY SoapyAssumption DEF SoapyAssumption
<1>2. CASE x < NumBuffers
  BY <1>1, <1>2, Turns DEF Wrap, Slots
<1>3. CASE x >= NumBuffers
  <2> DEFINE y == x - NumBuffers
  <2>1. y \in 0 .. NumBuffers - 1 /\ x = y + NumBuffers
    BY <1>1, <1>3
  <2>2. (y + NumBuffers) % NumBuffers = y
        /\ (y + NumBuffers + NumBuffers) % NumBuffers = y
    BY <1>1, <2>1, Turns
  <2>3. QED
    BY <1>1, <1>3, <2>1, <2>2 DEF Wrap, Slots
<1>4. QED
  BY <1>1, <1>2, <1>3

\* The count never comes near the end of size_t.
LEMMA CountMoves ==
    ASSUME NEW n \in 0 .. NumBuffers
    PROVE  /\ (n + 1) % SizeMod = n + 1
           /\ n > 0 => (n + SizeMod - 1) % SizeMod = n - 1
<1>1. NumBuffers \in Nat \ {0} /\ SizeMod \in Nat \ {0}
      /\ n + 1 \in 0 .. SizeMod - 1
  BY SoapyAssumption DEF SoapyAssumption, SizeMod
<1>2. (n + 1) % SizeMod = n + 1
  BY <1>1, Turns
<1>3. ASSUME n > 0
      PROVE  (n + SizeMod - 1) % SizeMod = n - 1
  <2>1. n - 1 \in 0 .. SizeMod - 1 /\ n + SizeMod - 1 = (n - 1) + SizeMod
    BY <1>1, <1>3
  <2>2. QED
    BY <1>1, <2>1, Turns
<1>4. QED
  BY <1>2, <1>3

-----------------------------------------------------------------------------
(* QueueInv.                                                               *)

\* How many blocks are queued, and that the slot behind them is in the ring.
LEMMA QueuedRange ==
    ASSUME QueueInv
    PROVE  /\ NumBuffers \in Nat \ {0}
           /\ Queued \in 0 .. NumBuffers
           /\ samples_block_read \in 0 .. NumBuffers - 1
           /\ buf_count \in 0 .. NumBuffers
           /\ samples_block_read + Queued \in 0 .. 2 * NumBuffers - 1
<1>1. NumBuffers \in Nat \ {0}
  BY SoapyAssumption DEF SoapyAssumption
<1>2. buf_count \in 0 .. NumBuffers /\ samples_block_read \in 0 .. NumBuffers - 1
  BY DEF QueueInv, TypeOK, Slots
<1>3. Queued \in 0 .. NumBuffers
  BY <1>1, <1>2 DEF QueueInv, IndexInv, CallbackInv, Queued, One
<1>4. QED
  BY <1>1, <1>2, <1>3

LEMMA InitQueue == Init => QueueInv
<1> SUFFICES ASSUME Init PROVE QueueInv
  OBVIOUS
<1>1. NumBuffers \in Nat \ {0} /\ Elems \in Nat \ {0} /\ MaxBlocks \in Nat \ {0}
  BY SoapyAssumption DEF SoapyAssumption
<1>2. TypeOK
  <2>1. samples_buffer \in [Slots -> 0 .. MaxBlocks] /\ 0 \in Slots
    BY <1>1 DEF Init, Slots, NoBlock
  <2>2. {overflowEvent, resetBuffer, reported, swallowed} \subseteq BOOLEAN
    BY DEF Init
  <2>3. last \in 0 .. MaxBlocks /\ {next, first} \subseteq 1 .. (MaxBlocks + 1)
    BY <1>1 DEF Init, NoBlock
  <2>4. QED
    BY <1>1, <2>1, <2>2, <2>3 DEF Init, TypeOK
<1>3. IndexInv /\ CallbackInv /\ ReaderInv
  BY <1>1 DEF Init, IndexInv, CallbackInv, ReaderInv, Queued, Held, One, Wrap
<1>4. QED
  BY <1>2, <1>3 DEF QueueInv

\* Discarding what is counted leaves the block that is written but not
\* counted, if there is one.
LEMMA DiscardKeeps ==
    ASSUME QueueInv, DiscardBlocks, UNCHANGED <<fragment, cb>>,
           bufferedElems = 0, app # "release", app' # "release"
    PROVE  /\ IndexInv'
           /\ samples_block_read' \in Slots /\ buf_count' = 0
           /\ UNCHANGED <<samples_buffer, samples_block_write>>
<1> DEFINE written == One(cb = "count")
           all == samples_block_read + buf_count
<1>1. /\ NumBuffers \in Nat \ {0} /\ written \in {0, 1}
      /\ samples_block_read \in 0 .. NumBuffers - 1
      /\ buf_count \in 0 .. NumBuffers /\ Queued \in 0 .. NumBuffers
  BY QueuedRange DEF One
<1>2. ~Held /\ ~Held' /\ written' = written
  BY DEF Held, One, fragment
<1>3. Queued = buf_count + written /\ Queued' = written
  BY <1>1, <1>2 DEF Queued, DiscardBlocks, One
<1>4. samples_block_read' = Wrap(all) /\ Wrap(all) \in Slots
  <2>1. all \in 0 .. 2 * NumBuffers - 1
    BY <1>1
  <2>2. all % NumBuffers = Wrap(all) /\ Wrap(all) \in Slots
    BY <2>1, WrapIsMod
  <2>3. QED
    BY <2>2 DEF DiscardBlocks
<1>5. samples_block_write = Wrap(all + written)
  BY <1>1, <1>3 DEF QueueInv, IndexInv
<1>6. Wrap(all + written) = Wrap(Wrap(all) + written)
  BY <1>1, <1>3 DEF Wrap
<1>7. samples_block_write' = Wrap(samples_block_read' + Queued')
  BY <1>3, <1>4, <1>5, <1>6 DEF DiscardBlocks
<1>8. QED
  BY <1>2, <1>4, <1>7 DEF IndexInv, DiscardBlocks

LEMMA StepQueue ==
    ASSUME RestartMidBlock = FALSE, QueueInv, [Next]_vars
    PROVE  QueueInv'
<1>0. /\ TypeOK /\ IndexInv /\ CallbackInv /\ ReaderInv
      /\ NumBuffers \in Nat \ {0} /\ Elems \in Nat \ {0} /\ MaxBlocks \in Nat \ {0}
      /\ Queued \in 0 .. NumBuffers
      /\ samples_block_read + Queued \in 0 .. 2 * NumBuffers - 1
  BY QueuedRange, SoapyAssumption DEF QueueInv, SoapyAssumption
<1>1. CASE CallbackCheck
  <2>1. TypeOK'
    BY <1>0, <1>1 DEF CallbackCheck, Full, queue, events, fragment, history, TypeOK, ReaderInv,
       CallbackInv
  <2>2. IndexInv' /\ CallbackInv' /\ ReaderInv'
    BY <1>0, <1>1 DEF CallbackCheck, Full, queue, events, fragment, history, TypeOK,
       IndexInv, CallbackInv, ReaderInv, Queued, Held, One
  <2>3. QED
    BY <2>1, <2>2 DEF QueueInv
<1>2. CASE CallbackOverflow
  <2>1. TypeOK'
    BY <1>0, <1>2 DEF CallbackOverflow, queue, events, fragment, history, TypeOK, ReaderInv,
       CallbackInv
  <2>2. IndexInv' /\ CallbackInv' /\ ReaderInv'
    BY <1>0, <1>2 DEF CallbackOverflow, queue, events, fragment, history, TypeOK,
       IndexInv, CallbackInv, ReaderInv, Queued, Held, One
  <2>3. QED
    BY <2>1, <2>2 DEF QueueInv
<1>3. CASE CallbackNotify
  <2>1. TypeOK'
    BY <1>0, <1>3 DEF CallbackNotify, queue, events, fragment, history, TypeOK, ReaderInv,
       CallbackInv
  <2>2. IndexInv' /\ CallbackInv' /\ ReaderInv'
    BY <1>0, <1>3 DEF CallbackNotify, queue, events, fragment, history, TypeOK,
       IndexInv, CallbackInv, ReaderInv, Queued, Held, One
  <2>3. QED
    BY <2>1, <2>2 DEF QueueInv
<1>4. CASE ActivateStream
  <2>1. TypeOK'
    BY <1>0, <1>4 DEF ActivateStream, queue, events, fragment, history, TypeOK, ReaderInv,
       CallbackInv
  <2>2. IndexInv' /\ CallbackInv' /\ ReaderInv'
    BY <1>0, <1>4 DEF ActivateStream, queue, events, fragment, history, TypeOK,
       IndexInv, CallbackInv, ReaderInv, Queued, Held, One
  <2>3. QED
    BY <2>1, <2>2 DEF QueueInv
<1>5. CASE StartRadio
  <2>1. TypeOK'
    BY <1>0, <1>5 DEF StartRadio, queue, events, fragment, history, TypeOK, ReaderInv,
       CallbackInv
  <2>2. IndexInv' /\ CallbackInv' /\ ReaderInv'
    BY <1>0, <1>5 DEF StartRadio, queue, events, fragment, history, TypeOK,
       IndexInv, CallbackInv, ReaderInv, Queued, Held, One
  <2>3. QED
    BY <2>1, <2>2 DEF QueueInv
<1>6. CASE DeactivateStream
  <2>1. TypeOK'
    BY <1>0, <1>6 DEF DeactivateStream, queue, events, fragment, history, TypeOK, ReaderInv,
       CallbackInv
  <2>2. IndexInv' /\ CallbackInv' /\ ReaderInv'
    BY <1>0, <1>6 DEF DeactivateStream, queue, events, fragment, history, TypeOK,
       IndexInv, CallbackInv, ReaderInv, Queued, Held, One
  <2>3. QED
    BY <2>1, <2>2 DEF QueueInv
<1>7. CASE ReadStream
  <2>1. TypeOK'
    BY <1>0, <1>7 DEF ReadStream, queue, events, fragment, history, TypeOK, ReaderInv,
       CallbackInv
  <2>2. IndexInv' /\ CallbackInv' /\ ReaderInv'
    BY <1>0, <1>7 DEF ReadStream, queue, events, fragment, history, TypeOK,
       IndexInv, CallbackInv, ReaderInv, Queued, Held, One
  <2>3. QED
    BY <2>1, <2>2 DEF QueueInv
<1>8. CASE AcquireClear
  <2>1. TypeOK'
    BY <1>0, <1>8 DEF AcquireClear, queue, events, fragment, history, TypeOK, ReaderInv,
       CallbackInv
  <2>2. IndexInv' /\ CallbackInv' /\ ReaderInv'
    BY <1>0, <1>8 DEF AcquireClear, queue, events, fragment, history, TypeOK,
       IndexInv, CallbackInv, ReaderInv, Queued, Held, One
  <2>3. QED
    BY <2>1, <2>2 DEF QueueInv
<1>9. CASE AcquireCheck
  <2>1. TypeOK'
    BY <1>0, <1>9 DEF AcquireCheck, queue, events, fragment, history, TypeOK, ReaderInv,
       CallbackInv
  <2>2. IndexInv' /\ CallbackInv' /\ ReaderInv'
    BY <1>0, <1>9 DEF AcquireCheck, queue, events, fragment, history, TypeOK,
       IndexInv, CallbackInv, ReaderInv, Queued, Held, One
  <2>3. QED
    BY <2>1, <2>2 DEF QueueInv
<1>10. CASE ReturnOverflow
  <2>1. TypeOK'
    BY <1>0, <1>10 DEF ReturnOverflow, queue, events, fragment, history, TypeOK, ReaderInv,
       CallbackInv
  <2>2. IndexInv' /\ CallbackInv' /\ ReaderInv'
    BY <1>0, <1>10 DEF ReturnOverflow, queue, events, fragment, history, TypeOK,
       IndexInv, CallbackInv, ReaderInv, Queued, Held, One
  <2>3. QED
    BY <2>1, <2>2 DEF QueueInv
<1>11. CASE AcquireTest
  <2>1. TypeOK'
    BY <1>0, <1>11 DEF AcquireTest, queue, events, fragment, history, TypeOK, ReaderInv,
       CallbackInv
  <2>2. IndexInv' /\ CallbackInv' /\ ReaderInv'
    BY <1>0, <1>11 DEF AcquireTest, queue, events, fragment, history, TypeOK,
       IndexInv, CallbackInv, ReaderInv, Queued, Held, One
  <2>3. QED
    BY <2>1, <2>2 DEF QueueInv
<1>12. CASE AcquireWait
  <2>1. TypeOK'
    BY <1>0, <1>12 DEF AcquireWait, queue, events, fragment, history, TypeOK, ReaderInv,
       CallbackInv
  <2>2. IndexInv' /\ CallbackInv' /\ ReaderInv'
    BY <1>0, <1>12 DEF AcquireWait, queue, events, fragment, history, TypeOK,
       IndexInv, CallbackInv, ReaderInv, Queued, Held, One
  <2>3. QED
    BY <2>1, <2>2 DEF QueueInv
<1>13. CASE AcquireTimeout
  <2>1. TypeOK'
    BY <1>0, <1>13 DEF AcquireTimeout, queue, events, fragment, history, TypeOK, ReaderInv,
       CallbackInv
  <2>2. IndexInv' /\ CallbackInv' /\ ReaderInv'
    BY <1>0, <1>13 DEF AcquireTimeout, queue, events, fragment, history, TypeOK,
       IndexInv, CallbackInv, ReaderInv, Queued, Held, One
  <2>3. QED
    BY <2>1, <2>2 DEF QueueInv
<1>14. CASE ReadFragment
  <2>1. TypeOK'
    BY <1>0, <1>14 DEF ReadFragment, queue, events, fragment, history, TypeOK, ReaderInv,
       CallbackInv
  <2>2. IndexInv' /\ CallbackInv' /\ ReaderInv'
    BY <1>0, <1>14 DEF ReadFragment, queue, events, fragment, history, TypeOK,
       IndexInv, CallbackInv, ReaderInv, Queued, Held, One
  <2>3. QED
    BY <2>1, <2>2 DEF QueueInv
<1>15. CASE CallbackCopy
  <2>1. Queued' = Queued + 1 /\ Held' = Held /\ Queued < NumBuffers
    BY <1>0, <1>15 DEF CallbackCopy, fragment, Queued, Held, One, TypeOK, CallbackInv
  <2>2. samples_block_write' = Wrap(samples_block_write + 1)
        /\ samples_block_write' \in Slots
    <3> DEFINE x == samples_block_write + 1
    <3>1. x \in 0 .. 2 * NumBuffers - 1
      BY <1>0 DEF TypeOK, Slots
    <3>2. x % NumBuffers = Wrap(x) /\ Wrap(x) \in Slots
      BY <3>1, WrapIsMod
    <3>3. QED
      BY <1>15, <3>2 DEF CallbackCopy
  <2>3. Wrap(Wrap(samples_block_read + Queued) + 1)
            = Wrap(samples_block_read + (Queued + 1))
    BY <1>0, <2>1 DEF Wrap, TypeOK, Slots
  <2>4. IndexInv'
    BY <1>0, <1>15, <2>1, <2>2, <2>3 DEF CallbackCopy, fragment, IndexInv
  <2>5. TypeOK'
    BY <1>0, <1>15, <2>2 DEF CallbackCopy, queue, events, fragment, history, TypeOK, CallbackInv
  <2>6. CallbackInv' /\ ReaderInv'
    BY <1>0, <1>15 DEF CallbackCopy, queue, events, fragment, history, CallbackInv, ReaderInv
  <2>7. QED
    BY <2>4, <2>5, <2>6 DEF QueueInv
<1>16. CASE CallbackCount
  <2>1. buf_count' = buf_count + 1 /\ buf_count < NumBuffers
    BY <1>0, <1>16, CountMoves DEF CallbackCount, TypeOK, CallbackInv
  <2>2. TypeOK'
    BY <1>0, <1>16, <2>1 DEF CallbackCount, queue, events, fragment, history, TypeOK
  <2>3. Queued' = Queued /\ Held' = Held
    BY <1>0, <1>16, <2>1 DEF CallbackCount, fragment, Queued, Held, One, TypeOK
  <2>4. IndexInv' /\ CallbackInv' /\ ReaderInv'
    BY <1>0, <1>16, <2>1, <2>3
    DEF CallbackCount, queue, events, fragment, history, TypeOK, IndexInv, CallbackInv,
       ReaderInv
  <2>5. QED
    BY <2>2, <2>4 DEF QueueInv
<1>17. CASE SetupStream
  <2>1. ~Held' /\ Queued' = 0
    <3>1. app' = "idle" /\ bufferedElems' = 0 /\ cb' = "off" /\ buf_count' = 0
      BY <1>17, RestartMidBlock = FALSE DEF SetupStream, fragment
    <3>2. ~Held'
      BY <3>1 DEF Held
    <3>3. Queued' = 0
      BY <3>1 DEF Queued, One, Held
    <3>4. QED
      BY <3>2, <3>3
  <2>2. IndexInv'
    BY <1>0, <1>17, <2>1 DEF SetupStream, IndexInv, Wrap
  <2>3. TypeOK' /\ CallbackInv' /\ ReaderInv'
    BY <1>0, <1>17 DEF SetupStream, queue, events, fragment, history, TypeOK, CallbackInv,
       ReaderInv, Slots
  <2>4. QED
    BY <2>2, <2>3 DEF QueueInv
<1>18. CASE AcquireReset
  <2>1. CASE resetBuffer
    <3>1. bufferedElems = 0 /\ app = "acquire" /\ app' = "clear" /\ DiscardBlocks
      BY <1>0, <1>18, <2>1 DEF AcquireReset, ReaderInv
    <3>2. IndexInv' /\ samples_block_read' \in Slots /\ buf_count' = 0
          /\ UNCHANGED <<samples_buffer, samples_block_write>>
      BY <1>18, <3>1, DiscardKeeps DEF AcquireReset
    <3>3. TypeOK' /\ CallbackInv' /\ ReaderInv'
      BY <1>0, <1>18, <3>1, <3>2 DEF AcquireReset, queue, events, fragment, history, TypeOK,
         CallbackInv, ReaderInv
    <3>4. QED
      BY <3>2, <3>3 DEF QueueInv
  <2>2. CASE ~resetBuffer
    <3>1. TypeOK'
      BY <1>0, <1>18, <2>2 DEF AcquireReset, queue, events, fragment, history, TypeOK
    <3>2. IndexInv' /\ CallbackInv' /\ ReaderInv'
      BY <1>0, <1>18, <2>2 DEF AcquireReset, queue, events, fragment, history, TypeOK,
         IndexInv, CallbackInv,
                               ReaderInv, Queued, Held, One
    <3>3. QED
      BY <3>1, <3>2 DEF QueueInv
  <2>3. QED
    BY <2>1, <2>2
<1>19. CASE AcquireDiscard
  <2>1. bufferedElems = 0 /\ app = "discard" /\ app' = "overflow" /\ DiscardBlocks
    BY <1>0, <1>19 DEF AcquireDiscard, ReaderInv
  <2>2. IndexInv' /\ samples_block_read' \in Slots /\ buf_count' = 0
        /\ UNCHANGED <<samples_buffer, samples_block_write>>
    BY <1>19, <2>1, DiscardKeeps DEF AcquireDiscard
  <2>3. TypeOK' /\ CallbackInv' /\ ReaderInv'
    BY <1>0, <1>19, <2>1, <2>2 DEF AcquireDiscard, queue, events, fragment, history, TypeOK,
       CallbackInv, ReaderInv
  <2>4. QED
    BY <2>2, <2>3 DEF QueueInv
<1>20. CASE AcquireTake
  <2>1. ~Held /\ Held' /\ Queued' = Queued - 1 /\ Queued > 0 /\ buf_count > 0
    BY <1>0, <1>20 DEF AcquireTake, ReaderInv, Queued, Held, One, TypeOK
  <2>2. samples_block_read' = Wrap(samples_block_read + 1)
        /\ samples_block_read' \in Slots
    <3> DEFINE x == samples_block_read + 1
    <3>1. x \in 0 .. 2 * NumBuffers - 1
      BY <1>0 DEF TypeOK, Slots
    <3>2. x % NumBuffers = Wrap(x) /\ Wrap(x) \in Slots
      BY <3>1, WrapIsMod
    <3>3. QED
      BY <1>20, <3>2 DEF AcquireTake
  <2>3. Wrap(samples_block_read + Queued)
            = Wrap(Wrap(samples_block_read + 1) + (Queued - 1))
    BY <1>0, <2>1 DEF Wrap, TypeOK, Slots
  <2>4. IndexInv'
    BY <1>0, <1>20, <2>1, <2>2, <2>3 DEF AcquireTake, IndexInv
  <2>5. last' \in 0 .. MaxBlocks
    BY <1>0, <1>20 DEF AcquireTake, TypeOK
  <2>6. swallowed' \in BOOLEAN
    BY <1>20 DEF AcquireTake
  <2>7. TypeOK'
    <3>1. /\ currentHandle' = samples_block_read /\ bufferedElems' = Elems
          /\ app' = "copy" /\ reported' = FALSE
          /\ UNCHANGED <<samples_buffer, samples_block_write, buf_count,
                         overflowEvent, resetBuffer, cb, next, first>>
      BY <1>20 DEF AcquireTake, events
    <3>2. {overflowEvent', resetBuffer', reported', swallowed'} \subseteq BOOLEAN
      BY <1>0, <2>6, <3>1 DEF TypeOK
    <3>3. QED
      BY <1>0, <2>2, <2>5, <3>1, <3>2 DEF TypeOK
  <2>8. CallbackInv' /\ ReaderInv'
    BY <1>0, <1>20 DEF AcquireTake, queue, events, fragment, history, CallbackInv, ReaderInv
  <2>9. QED
    BY <2>4, <2>7, <2>8 DEF QueueInv
<1>21. CASE ReleaseReadBuffer
  <2>1. Held /\ ~Held' /\ buf_count > 0 /\ bufferedElems = 0
    BY <1>0, <1>21 DEF ReleaseReadBuffer, fragment, IndexInv, ReaderInv, Held
  <2>2. buf_count' = buf_count - 1
    BY <1>0, <1>21, <2>1, CountMoves DEF ReleaseReadBuffer, TypeOK
  <2>3. Queued' = Queued
    BY <1>0, <1>21, <2>1, <2>2 DEF ReleaseReadBuffer, Queued, One, TypeOK
  <2>4. TypeOK'
    BY <1>0, <1>21, <2>1, <2>2 DEF ReleaseReadBuffer, queue, events, fragment, history, TypeOK
  <2>5. IndexInv' /\ CallbackInv' /\ ReaderInv'
    BY <1>0, <1>21, <2>1, <2>2, <2>3
    DEF ReleaseReadBuffer, queue, events, fragment, history, TypeOK, IndexInv, CallbackInv,
       ReaderInv
  <2>6. QED
    BY <2>4, <2>5 DEF QueueInv
<1>22. CASE UNCHANGED vars
  <2>1. TypeOK'
    BY <1>0, <1>22 DEF vars, queue, events, fragment, history, TypeOK
  <2>2. IndexInv' /\ CallbackInv' /\ ReaderInv'
    BY <1>0, <1>22 DEF vars, queue, events, fragment, history, IndexInv, CallbackInv,
       ReaderInv, Queued, Held, One
  <2>3. QED
    BY <2>1, <2>2 DEF QueueInv
<1>23. QED
  BY <1>1, <1>2, <1>3, <1>4, <1>5, <1>6, <1>7, <1>8, <1>9, <1>10, <1>11, <1>12, <1>13, <1>14,
     <1>15, <1>16, <1>17, <1>18, <1>19, <1>20, <1>21, <1>22
  DEF Next, Callback, AcquireReadBuffer

\* The strengthening of the invariants below holds in every behaviour.
THEOREM QueueInvariant ==
    ASSUME RestartMidBlock = FALSE
    PROVE  Spec => []QueueInv
<1>1. Init => QueueInv
  BY InitQueue
<1>2. QueueInv /\ [Next]_vars => QueueInv'
  BY StepQueue
<1>3. QED
  BY <1>1, <1>2, PTL DEF Spec

\* Every variable keeps its type; above all buf_count, which both sides
\* change, stays between 0 and numBuffers and never wraps around.
THEOREM TypeCorrect ==
    ASSUME RestartMidBlock = FALSE
    PROVE  Spec => []TypeOK
<1>1. QueueInv => TypeOK
  BY DEF QueueInv
<1>2. QED
  BY <1>1, QueueInvariant, PTL

\* The read index, the write index and the count describe one queue at every
\* step of Callback, of readStream and of the discarding of the queue.
THEOREM IndicesAlwaysAgree ==
    ASSUME RestartMidBlock = FALSE
    PROVE  Spec => []IndicesAgree
<1>1. QueueInv => IndicesAgree
  <2> SUFFICES ASSUME QueueInv PROVE IndicesAgree
    OBVIOUS
  <2> DEFINE x == samples_block_read + Queued
  <2>1. x \in 0 .. 2 * NumBuffers - 1 /\ NumBuffers \in Nat \ {0}
    BY QueuedRange
  <2>2. (x + NumBuffers) % NumBuffers = Wrap(x)
    BY <2>1, WrapIsMod
  <2>3. samples_block_write = Wrap(x)
    BY DEF QueueInv, IndexInv
  <2>4. samples_block_read + buf_count + NumBuffers - One(Held) + One(cb = "count")
            = x + NumBuffers
    BY <2>1, QueuedRange DEF Queued, One
  <2>5. QED
    BY <2>2, <2>3, <2>4 DEF IndicesAgree
<1>2. QED
  BY <1>1, QueueInvariant, PTL

\* Callback never copies into the block the application still reads.
THEOREM BlocksAreNotTorn ==
    ASSUME RestartMidBlock = FALSE
    PROVE  Spec => []NoTornBlock
<1>1. QueueInv => NoTornBlock
  <2> SUFFICES ASSUME QueueInv, Held, cb = "copy"
               PROVE  samples_block_write # currentHandle
    BY DEF NoTornBlock
  <2>1. /\ NumBuffers \in Nat \ {0}
        /\ buf_count \in 1 .. NumBuffers - 1 /\ Queued = buf_count - 1
        /\ currentHandle \in 0 .. NumBuffers - 1
    BY QueuedRange, SMTT(30) DEF QueueInv, TypeOK, IndexInv, CallbackInv, Queued, One, Slots
  <2>2. samples_block_write = Wrap(Wrap(currentHandle + 1) + (buf_count - 1))
    BY <2>1 DEF QueueInv, IndexInv
  <2>3. QED
    BY <2>1, <2>2 DEF Wrap
<1>2. QED
  BY <1>1, QueueInvariant, PTL

\* The reader's test of the count and its falling asleep lose no wake-up.
THEOREM NoBlockIsMissed ==
    ASSUME RestartMidBlock = FALSE
    PROVE  Spec => []NoMissedBlock
<1>1. Init => NoMissedBlock
  BY DEF Init, NoMissedBlock
<1>2. ASSUME QueueInv, NoMissedBlock, [Next]_vars
      PROVE  NoMissedBlock'
  <2>1. buf_count \in Nat
    BY <1>2, QueuedRange DEF QueueInv, TypeOK
  <2>2. CASE AcquireWait
    BY <2>1, <2>2 DEF AcquireWait, queue, NoMissedBlock
  <2>3. CASE app = "asleep" /\ ~AcquireWait
    BY <1>2, <2>1, <2>3
    DEF NoMissedBlock, QueueInv, TypeOK, Next, Callback, AcquireReadBuffer,
        CallbackCheck, CallbackOverflow, CallbackCopy, CallbackCount, CallbackNotify,
        SetupStream, ActivateStream, StartRadio, DeactivateStream, ReadStream,
        AcquireReset, AcquireClear, AcquireCheck, AcquireDiscard, ReturnOverflow,
        AcquireTest, AcquireTimeout, AcquireTake, ReadFragment, ReleaseReadBuffer,
        vars, queue
  <2>4. CASE app # "asleep" /\ ~AcquireWait
    <3>1. app' # "asleep"
      BY <1>2, <2>4
      DEF Next, Callback, AcquireReadBuffer,
          CallbackCheck, CallbackOverflow, CallbackCopy, CallbackCount, CallbackNotify,
          SetupStream, ActivateStream, StartRadio, DeactivateStream, ReadStream,
          AcquireReset, AcquireClear, AcquireCheck, AcquireDiscard, ReturnOverflow,
          AcquireTest, AcquireTimeout, AcquireTake, ReadFragment, ReleaseReadBuffer, vars
    <3>2. QED
      BY <3>1 DEF NoMissedBlock
  <2>5. QED
    BY <2>2, <2>3, <2>4
<1>3. QED
  BY <1>1, <1>2, QueueInvariant, PTL DEF Spec

-----------------------------------------------------------------------------
(* OrderInv.                                                               *)

LEMMA InitOrder == Init => OrderInv
<1> SUFFICES ASSUME Init PROVE OrderInv
  OBVIOUS
<1>1. Queued = 0
  BY DEF Init, Queued, Held, One
<1>2. QED
  BY <1>1 DEF Init, OrderInv, SortedInv, FreshInv, ResetInv, Positions, NoBlock

\* Every waiting block has a slot of the ring and a number.
LEMMA WaitingType ==
    ASSUME QueueInv, NEW k \in Positions
    PROVE  Wrap(samples_block_read + k) \in Slots /\ Waiting(k) \in 0 .. MaxBlocks
<1> DEFINE x == samples_block_read + k
<1>1. x \in 0 .. 2 * NumBuffers - 1
  BY QueuedRange DEF Positions
<1>2. Wrap(x) \in Slots
  BY <1>1, WrapIsMod
<1>3. QED
  BY <1>2 DEF QueueInv, TypeOK, Waiting

\* Callback's copy adds a block at the end.
LEMMA CopyMoves ==
    ASSUME QueueInv, CallbackCopy
    PROVE  /\ Queued' = Queued + 1 /\ Queued < NumBuffers
           /\ UNCHANGED <<samples_block_read, app, resetBuffer, overflowEvent, last, first,
                          reported, swallowed>>
           /\ cb' = "count" /\ next' = next + 1
           /\ \A k \in 0 .. NumBuffers : k = Queued => Waiting(k)' = next
           /\ \A k \in Positions : Waiting(k)' = Waiting(k)
<1>0. /\ TypeOK /\ IndexInv /\ CallbackInv
      /\ NumBuffers \in Nat \ {0}
      /\ samples_block_read \in 0 .. NumBuffers - 1
      /\ buf_count \in 0 .. NumBuffers /\ Queued \in 0 .. NumBuffers
  BY QueuedRange DEF QueueInv
<1>1. /\ Queued' = Queued + 1 /\ Queued < NumBuffers
      /\ UNCHANGED <<samples_block_read, app, resetBuffer, overflowEvent, last, first,
                     reported, swallowed>>
      /\ cb' = "count" /\ next' = next + 1
  BY <1>0 DEF CallbackCopy, events, fragment, Queued, Held, One, CallbackInv
<1>2. samples_buffer' = [samples_buffer EXCEPT ![Wrap(samples_block_read + Queued)] = next]
      /\ Wrap(samples_block_read + Queued) \in DOMAIN samples_buffer
  BY <1>0 DEF CallbackCopy, IndexInv, TypeOK
<1>3. \A k \in 0 .. NumBuffers : k = Queued => Waiting(k)' = next
  BY <1>1, <1>2 DEF Waiting, Wrap
<1>4. ASSUME NEW k \in Positions PROVE Waiting(k)' = Waiting(k)
  <2>1. Wrap(samples_block_read + k) # Wrap(samples_block_read + Queued)
    BY <1>0, <1>1 DEF Wrap, Positions
  <2>2. Waiting(k)' = samples_buffer'[Wrap(samples_block_read + k)]
    BY <1>1 DEF Waiting, Wrap
  <2>3. QED
    BY <1>2, <2>1, <2>2 DEF Waiting
<1>5. QED
  BY <1>1, <1>3, <1>4

\* Taking a block removes the first.
LEMMA TakeMoves ==
    ASSUME QueueInv, AcquireTake
    PROVE  /\ Queued' = Queued - 1 /\ Queued > 0
           /\ UNCHANGED <<samples_buffer, cb, resetBuffer, overflowEvent, next, first>>
           /\ app = "take" /\ app' = "copy" /\ last' = Waiting(0)
           /\ \A k \in Positions' :
                  k + 1 \in Positions /\ k \in Nat /\ Waiting(k)' = Waiting(k + 1)
<1>0. /\ TypeOK /\ ReaderInv
      /\ NumBuffers \in Nat \ {0}
      /\ samples_block_read \in 0 .. NumBuffers - 1
      /\ buf_count \in 0 .. NumBuffers /\ Queued \in 0 .. NumBuffers
  BY QueuedRange DEF QueueInv
<1>1. /\ Queued' = Queued - 1 /\ Queued > 0
      /\ UNCHANGED <<samples_buffer, cb, resetBuffer, overflowEvent, next, first>>
      /\ app = "take" /\ app' = "copy" /\ last' = Waiting(0)
  <2>1. ~Held /\ Held'
    BY <1>0, SoapyAssumption DEF AcquireTake, ReaderInv, Held, SoapyAssumption
  <2>2. Queued' = Queued - 1 /\ Queued > 0
    BY <1>0, <2>1 DEF AcquireTake, ReaderInv, Queued, One
  <2>3. Wrap(samples_block_read + 0) = samples_block_read
    BY <1>0 DEF Wrap
  <2>4. QED
    BY <2>2, <2>3 DEF AcquireTake, events, Waiting
<1>2. samples_block_read' = Wrap(samples_block_read + 1)
  <2> DEFINE x == samples_block_read + 1
  <2>1. x \in 0 .. 2 * NumBuffers - 1
    BY <1>0
  <2>2. x % NumBuffers = Wrap(x)
    BY <2>1, WrapIsMod
  <2>3. QED
    BY <2>2 DEF AcquireTake
<1>3. ASSUME NEW k \in Positions'
      PROVE  k + 1 \in Positions /\ k \in Nat /\ Waiting(k)' = Waiting(k + 1)
  <2>1. k + 1 \in Positions /\ k \in 0 .. NumBuffers - 1
    BY <1>0, <1>1 DEF Positions
  <2>2. Wrap(Wrap(samples_block_read + 1) + k) = Wrap(samples_block_read + (k + 1))
    BY <1>0, <2>1, <1>1 DEF Wrap, Positions
  <2>3. Waiting(k)' = samples_buffer[Wrap(samples_block_read' + k)]
    BY <1>1 DEF Waiting, Wrap
  <2>4. QED
    BY <1>2, <2>1, <2>2, <2>3 DEF Waiting
<1>4. QED
  BY <1>1, <1>3

\* Discarding leaves at most the block that is written and not counted.
LEMMA DiscardMoves ==
    ASSUME QueueInv, DiscardBlocks, UNCHANGED <<fragment, cb>>,
           bufferedElems = 0, app # "release", app' # "release"
    PROVE  /\ Queued = buf_count + One(cb = "count") /\ Queued' = One(cb = "count")
           /\ \A k \in Positions' :
                  /\ cb = "count" /\ k = 0 /\ Queued - 1 \in Positions
                  /\ Waiting(k)' = Waiting(Queued - 1)
<1> DEFINE written == One(cb = "count")
<1>1. /\ NumBuffers \in Nat \ {0} /\ written \in {0, 1}
      /\ samples_block_read \in 0 .. NumBuffers - 1
      /\ buf_count \in 0 .. NumBuffers /\ Queued \in 0 .. NumBuffers
  BY QueuedRange DEF One
<1>2. ~Held /\ ~Held'
  BY DEF Held, fragment
<1>3. Queued = buf_count + written /\ Queued' = written
  BY <1>1, <1>2 DEF Queued, DiscardBlocks, One
<1>4. samples_block_read' = Wrap(samples_block_read + buf_count)
  <2> DEFINE x == samples_block_read + buf_count
  <2>1. x \in 0 .. 2 * NumBuffers - 1
    BY <1>1
  <2>2. x % NumBuffers = Wrap(x)
    BY <2>1, WrapIsMod
  <2>3. QED
    BY <2>2 DEF DiscardBlocks
<1>5. ASSUME NEW k \in Positions'
      PROVE  /\ cb = "count" /\ k = 0 /\ Queued - 1 \in Positions
             /\ Waiting(k)' = Waiting(Queued - 1)
  <2>1. written = 1 /\ k = 0 /\ Queued = buf_count + 1
    BY <1>1, <1>3, <1>5 DEF Positions
  <2>2. cb = "count"
    BY <2>1 DEF One
  <2>3. Wrap(samples_block_read' + k) = Wrap(samples_block_read + (Queued - 1))
    BY <1>1, <1>4, <2>1 DEF Wrap
  <2>4. Waiting(k)' = samples_buffer[Wrap(samples_block_read' + k)]
    BY DEF Waiting, DiscardBlocks, Wrap
  <2>5. QED
    BY <1>1, <2>1, <2>2, <2>3, <2>4 DEF Waiting, Positions
<1>6. QED
  BY <1>3, <1>5

LEMMA DiscardOrder ==
    ASSUME QueueInv, OrderInv, DiscardBlocks, UNCHANGED <<events, fragment, cb, history>>,
           bufferedElems = 0, app # "release", app' \in {"clear", "overflow"},
           app' = "overflow" => app = "discard"
    PROVE  OrderInv'
<1>1. ASSUME NEW k \in Positions'
      PROVE  /\ cb = "count" /\ k = 0 /\ Queued - 1 \in Positions
             /\ Waiting(k)' = Waiting(Queued - 1)
  BY <1>1, DiscardMoves
<1>2. SortedInv'
  <2>1. \A j, k \in Positions' : ~ (j < k)
    BY <1>1
  <2>2. \A k \in Positions' : last' < Waiting(k)' /\ Waiting(k)' < next'
    BY <1>1 DEF OrderInv, SortedInv, history
  <2>3. QED
    BY <2>1, <2>2 DEF OrderInv, SortedInv, history
<1>3. FreshInv'
  BY <1>1 DEF OrderInv, FreshInv, history
<1>4. ResetInv'
  BY DEF OrderInv, ResetInv, events
<1>5. QED
  BY <1>2, <1>3, <1>4 DEF OrderInv

\* A step that moves no block and starts no activation keeps the order.
LEMMA KeepOrder ==
    ASSUME QueueInv, OrderInv, ResetInv',
           UNCHANGED <<samples_buffer, samples_block_read, last, first>>,
           Queued' = Queued, next' \in {next, next + 1},
           (~resetBuffer' \/ app' = "clear") => (~resetBuffer \/ app = "clear"),
           cb' = "count" => cb = "count"
    PROVE  OrderInv'
<1>1. Positions' = Positions
  BY DEF Positions
<1>2. \A k : Waiting(k)' = Waiting(k)
  BY DEF Waiting, Wrap
<1>3. /\ {next, first, last} \subseteq Nat /\ next' >= next /\ next' \in Nat
      /\ \A k \in Positions : Waiting(k) \in Nat
  BY WaitingType DEF QueueInv, TypeOK
<1>4. SortedInv'
  <2>1. last' < next' /\ first' <= next'
    BY <1>3 DEF OrderInv, SortedInv
  <2>2. \A k \in Positions' : last' < Waiting(k)' /\ Waiting(k)' < next'
    BY <1>1, <1>2, <1>3 DEF OrderInv, SortedInv
  <2>3. \A j, k \in Positions' : j < k => Waiting(j)' < Waiting(k)'
    BY <1>1, <1>2 DEF OrderInv, SortedInv
  <2>4. QED
    BY <2>1, <2>2, <2>3 DEF SortedInv
<1>5. FreshInv'
  BY <1>1, <1>2 DEF OrderInv, FreshInv
<1>6. QED
  BY <1>4, <1>5 DEF OrderInv

LEMMA StepOrder ==
    ASSUME RestartMidBlock = FALSE, QueueInv, OrderInv, [Next]_vars
    PROVE  OrderInv'
<1>0. /\ TypeOK /\ IndexInv /\ CallbackInv /\ ReaderInv
      /\ SortedInv /\ FreshInv /\ ResetInv
      /\ NumBuffers \in Nat \ {0} /\ {next, first, last} \subseteq Nat
      /\ samples_block_read \in 0 .. NumBuffers - 1
      /\ buf_count \in 0 .. NumBuffers /\ Queued \in 0 .. NumBuffers
      /\ \A k \in Positions : Waiting(k) \in Nat
  BY QueuedRange, WaitingType DEF QueueInv, OrderInv, TypeOK
<1>1. CASE CallbackCopy
  <2>1. /\ Queued' = Queued + 1 /\ Queued < NumBuffers
        /\ UNCHANGED <<samples_block_read, app, resetBuffer, last, first>>
        /\ cb' = "count" /\ next' = next + 1
    BY <1>0, <1>1, CopyMoves
  <2> PICK end \in 0 .. NumBuffers : end = Queued
    BY <1>0
  <2>3. Waiting(end)' = next
    BY <1>1, CopyMoves
  <2>4. ASSUME NEW k \in Positions PROVE Waiting(k)' = Waiting(k)
    BY <1>1, CopyMoves
  <2>5. \A k \in Positions' : k \in Positions \/ k = end
    BY <1>0, <2>1 DEF Positions
  <2>6. \A j, k \in Positions' : j < k => j \in Positions
    BY <1>0, <2>1 DEF Positions
  <2>7. SortedInv'
    <3>1. \A k \in Positions' : last' < Waiting(k)' /\ Waiting(k)' < next'
      BY <1>0, <2>1, <2>3, <2>4, <2>5 DEF SortedInv
    <3>2. \A j, k \in Positions' : j < k => Waiting(j)' < Waiting(k)'
      BY <1>0, <2>3, <2>4, <2>5, <2>6 DEF SortedInv
    <3>3. last' < next' /\ first' <= next'
      BY <1>0, <2>1 DEF SortedInv
    <3>4. QED
      BY <3>1, <3>2, <3>3 DEF SortedInv
  <2>8. FreshInv'
    <3>1. ASSUME NEW k \in Positions,
                 ~resetBuffer' \/ app' = "clear" \/ (cb' = "count" /\ k = Queued' - 1)
          PROVE  Waiting(k)' >= first'
      <4>1. k # Queued' - 1
        BY <1>0, <2>1 DEF Positions
      <4>2. QED
        BY <1>0, <2>1, <2>4, <3>1, <4>1 DEF FreshInv
    <3>2. Waiting(end)' >= first'
      BY <1>0, <2>1, <2>3 DEF SortedInv
    <3>3. QED
      BY <2>5, <3>1, <3>2 DEF FreshInv
  <2>9. ResetInv'
    BY <1>0, <2>1 DEF ResetInv
  <2>10. QED
    BY <2>7, <2>8, <2>9 DEF OrderInv
<1>2. CASE AcquireTake
  <2>1. /\ Queued' = Queued - 1 /\ Queued > 0
        /\ UNCHANGED <<samples_buffer, cb, resetBuffer, next, first>>
        /\ app = "take" /\ app' = "copy" /\ last' = Waiting(0)
    BY <1>2, TakeMoves
  <2>2. 0 \in Positions /\ ~resetBuffer
    BY <1>0, <2>1 DEF Positions, ResetInv
  <2>4. ASSUME NEW k \in Positions'
        PROVE  k + 1 \in Positions /\ k \in Nat /\ Waiting(k)' = Waiting(k + 1)
    BY <1>2, <2>4, TakeMoves
  <2>5. SortedInv'
    <3>1. \A k \in Positions' : last' < Waiting(k)' /\ Waiting(k)' < next'
      BY <1>0, <2>1, <2>2, <2>4 DEF SortedInv
    <3>2. \A j, k \in Positions' : j < k => Waiting(j)' < Waiting(k)'
      BY <1>0, <2>4 DEF SortedInv
    <3>3. last' < next' /\ first' <= next'
      BY <1>0, <2>1, <2>2 DEF SortedInv
    <3>4. QED
      BY <3>1, <3>2, <3>3 DEF SortedInv
  <2>6. FreshInv'
    BY <1>0, <2>1, <2>2, <2>4 DEF FreshInv
  <2>7. ResetInv'
    BY <2>1 DEF ResetInv
  <2>8. QED
    BY <2>5, <2>6, <2>7 DEF OrderInv
<1>3. CASE AcquireReset /\ resetBuffer
  BY <1>0, <1>3, DiscardOrder DEF AcquireReset, ReaderInv
<1>4. CASE AcquireDiscard
  BY <1>0, <1>4, DiscardOrder DEF AcquireDiscard, ReaderInv
<1>5. CASE SetupStream
  <2>1. Positions' = {}
    <3>1. app' = "idle" /\ bufferedElems' = 0 /\ cb' = "off" /\ buf_count' = 0
      BY <1>5 DEF SetupStream, fragment
    <3>2. Queued' = 0
      BY <3>1 DEF Queued, One, Held
    <3>3. QED
      BY <3>2 DEF Positions
  <2>2. QED
    BY <1>0, <1>5, <2>1 DEF SetupStream, events, history, OrderInv, SortedInv, FreshInv,
       ResetInv
<1>6. CASE StartRadio
  <2>1. /\ UNCHANGED <<samples_buffer, samples_block_read, last, next, resetBuffer>>
        /\ resetBuffer /\ first' = next /\ cb' = "idle" /\ app' = "idle"
        /\ Queued' = Queued
    BY <1>0, <1>6 DEF StartRadio, queue, events, fragment, ResetInv, Queued, Held, One
  <2>2. Positions' = Positions /\ \A k : Waiting(k)' = Waiting(k)
    BY <2>1 DEF Positions, Waiting, Wrap
  <2>3. SortedInv'
    BY <1>0, <2>1, <2>2 DEF SortedInv
  <2>4. FreshInv' /\ ResetInv'
    BY <2>1 DEF FreshInv, ResetInv
  <2>5. QED
    BY <2>3, <2>4 DEF OrderInv
<1>7. CASE CallbackCount
  <2>1. buf_count' = buf_count + 1
    BY <1>0, <1>7, CountMoves DEF CallbackCount
  <2>2. Queued' = Queued
    BY <1>0, <1>7, <2>1 DEF CallbackCount, fragment, Queued, Held, One
  <2>3. QED
    BY <1>0, <1>7, <2>2, KeepOrder DEF CallbackCount, events, history, ResetInv
<1>8. CASE ReleaseReadBuffer
  <2>1. Held /\ ~Held' /\ buf_count > 0
    BY <1>0, <1>8 DEF ReleaseReadBuffer, fragment, IndexInv, ReaderInv, Held
  <2>2. buf_count' = buf_count - 1
    BY <1>0, <1>8, <2>1, CountMoves DEF ReleaseReadBuffer
  <2>3. Queued' = Queued
    BY <1>0, <1>8, <2>1, <2>2 DEF ReleaseReadBuffer, Queued, One
  <2>4. QED
    BY <1>0, <1>8, <2>3, KeepOrder DEF ReleaseReadBuffer, events, history, ResetInv
<1>9. CASE CallbackCheck \/ CallbackOverflow \/ CallbackNotify
  <2>1. Queued' = Queued /\ ResetInv'
    BY <1>0, <1>9
    DEF CallbackCheck, CallbackOverflow, CallbackNotify, Full, queue, events, fragment, history,
        Queued, Held, One, ResetInv
  <2>2. QED
    BY <1>0, <1>9, <2>1, KeepOrder
    DEF CallbackCheck, CallbackOverflow, CallbackNotify, Full, queue, events, fragment, history
<1>10. CASE ActivateStream \/ DeactivateStream \/ ReadStream
  <2>1. Queued' = Queued /\ ResetInv'
    BY <1>0, <1>10
    DEF ActivateStream, DeactivateStream, ReadStream, queue, events, fragment, history,
        Queued, Held, One, ResetInv
  <2>2. QED
    BY <1>0, <1>10, <2>1, KeepOrder
    DEF ActivateStream, DeactivateStream, ReadStream, queue, events, fragment, history
<1>11. CASE (AcquireReset /\ ~resetBuffer) \/ AcquireClear \/ AcquireCheck \/ ReturnOverflow
  <2>1. Queued' = Queued /\ ResetInv'
    BY <1>0, <1>11
    DEF AcquireReset, AcquireClear, AcquireCheck, ReturnOverflow, queue, events, fragment,
        history, Queued, Held, One, ResetInv
  <2>2. QED
    BY <1>0, <1>11, <2>1, KeepOrder
    DEF AcquireReset, AcquireClear, AcquireCheck, ReturnOverflow, queue, events, fragment,
       history
<1>12. CASE AcquireTest \/ AcquireWait \/ AcquireTimeout \/ ReadFragment
  <2>1. Queued' = Queued /\ ResetInv'
    BY <1>0, <1>12
    DEF AcquireTest, AcquireWait, AcquireTimeout, ReadFragment, queue, events, fragment,
        history, Queued, Held, One, ResetInv, ReaderInv, TypeOK
  <2>2. QED
    BY <1>0, <1>12, <2>1, KeepOrder
    DEF AcquireTest, AcquireWait, AcquireTimeout, ReadFragment, queue, events, fragment, history
<1>13. CASE UNCHANGED vars
  <2>1. Queued' = Queued /\ ResetInv'
    BY <1>0, <1>13 DEF vars, queue, events, fragment, history, Queued, Held, One, ResetInv
  <2>2. QED
    BY <1>0, <1>13, <2>1, KeepOrder DEF vars, queue, events, fragment, history
<1>14. QED
  BY <1>1, <1>2, <1>3, <1>4, <1>5, <1>6, <1>7, <1>8, <1>9, <1>10, <1>11, <1>12, <1>13
  DEF Next, Callback, AcquireReadBuffer

\* readStream hands the blocks out in the order in which the radio delivered
\* them, none twice, and none from before the last activateStream.
THEOREM BlocksAlwaysInOrder ==
    ASSUME RestartMidBlock = FALSE
    PROVE  Spec => BlocksInOrder
<1>1. Init => OrderInv
  BY InitOrder
<1>2. QueueInv /\ OrderInv /\ [Next]_vars => OrderInv'
  BY StepOrder
<1>3. QueueInv /\ OrderInv /\ [Next]_vars
          => [AcquireTake => last' > last /\ last' >= first]_vars
  <2> SUFFICES ASSUME QueueInv, OrderInv, AcquireTake
               PROVE  last' > last /\ last' >= first
    OBVIOUS
  <2>1. /\ ~Held /\ app = "take" /\ buf_count > 0 /\ buf_count \in Nat
        /\ NumBuffers \in Nat \ {0} /\ samples_block_read \in 0 .. NumBuffers - 1
        /\ {last, first} \subseteq Nat
    BY QueuedRange DEF AcquireTake, QueueInv, ReaderInv, TypeOK, Held
  <2>2. 0 \in Positions
    BY <2>1 DEF Positions, Queued, One
  <2>3. last' = Waiting(0) /\ Waiting(0) \in Nat
    <3>1. Waiting(0) \in 0 .. MaxBlocks
      BY <2>2, WaitingType
    <3>2. Waiting(0) = samples_buffer[samples_block_read]
      BY <2>1 DEF Waiting, Wrap
    <3>3. last' = samples_buffer[samples_block_read]
      BY DEF AcquireTake
    <3>4. Waiting(0) \in Nat
      BY <3>1, SoapyAssumption DEF SoapyAssumption
    <3>5. QED
      BY <3>2, <3>3, <3>4
  <2>4. QED
    BY <2>1, <2>2, <2>3 DEF OrderInv, SortedInv, FreshInv, ResetInv
<1>4. QED
  BY <1>1, <1>2, <1>3, QueueInvariant, PTL DEF Spec, BlocksInOrder

-----------------------------------------------------------------------------
(* GapInv.                                                                 *)

LEMMA InitGap == Init => GapInv
<1> SUFFICES ASSUME Init PROVE GapInv
  OBVIOUS
<1>1. Queued = 0 /\ Inside = {}
  BY DEF Init, Queued, Held, One, Inside
<1>2. ~Gap(0)
  BY <1>1 DEF Init, Gap, NoBlock
<1>3. QED
  BY <1>1, <1>2 DEF Init, GapInv, ClearInv, CoverInv, Clearing

\* A block that is added follows the one before it.
LEMMA CopyGap ==
    ASSUME QueueInv, CallbackCopy
    PROVE  /\ \A k \in 0 .. Queued : Gap(k)' = Gap(k)
           /\ \A k \in Nat : k = Queued + 1 => ~Gap(k)'
<1>1. /\ Queued' = Queued + 1 /\ last' = last /\ next' = next + 1
      /\ \A k \in 0 .. NumBuffers : k = Queued => Waiting(k)' = next
      /\ \A k \in Positions : Waiting(k)' = Waiting(k)
  BY CopyMoves
<1>2. NumBuffers \in Nat \ {0} /\ Queued \in 0 .. NumBuffers /\ next \in Nat
  BY QueuedRange DEF QueueInv, TypeOK
<1>3. ASSUME NEW k \in 0 .. Queued PROVE Gap(k)' = Gap(k)
  <2>1. (IF k < Queued' THEN Waiting(k)' ELSE next') = (IF k < Queued THEN Waiting(k) ELSE next)
    <3>1. CASE k < Queued
      <4>1. k \in Positions /\ k < Queued'
        BY <1>1, <1>2, <3>1 DEF Positions
      <4>2. QED
        BY <1>1, <3>1, <4>1
    <3>2. CASE k = Queued
      <4>1. k \in 0 .. NumBuffers /\ k < Queued' /\ ~ (k < Queued)
        BY <1>1, <1>2, <3>2
      <4>2. QED
        BY <1>1, <3>2, <4>1
    <3>3. QED
      BY <1>2, <3>1, <3>2
  <2>2. k # 0 => Waiting(k - 1)' = Waiting(k - 1)
    <3>1. k # 0 => k - 1 \in Positions
      BY <1>2 DEF Positions
    <3>2. QED
      BY <1>1, <3>1
  <2>3. QED
    BY <1>1, <2>1, <2>2 DEF Gap
<1>4. ASSUME NEW k \in Nat, k = Queued + 1 PROVE ~Gap(k)'
  <2>1. k - 1 \in 0 .. NumBuffers /\ k - 1 = Queued /\ k # 0 /\ ~ (k < Queued')
    BY <1>1, <1>2, <1>4
  <2>2. Waiting(k - 1)' = next
    BY <1>1, <2>1
  <2>3. QED
    BY <1>1, <1>2, <2>1, <2>2 DEF Gap
<1>5. QED
  BY <1>3, <1>4

LEMMA PlaceBefore ==
    ASSUME NEW n \in Nat, NEW k \in Nat, k > 0, k <= n
    PROVE  k - 1 \in 0 .. n - 1 /\ (k - 1) + 1 = (k + 1) - 1 /\ k + 1 # 0
  OBVIOUS

\* Taking the first block moves every gap one place forward.
LEMMA TakeGap ==
    ASSUME QueueInv, AcquireTake
    PROVE  /\ Queued' \in Nat /\ Queued' = Queued - 1
           /\ \A k \in Nat : k <= Queued' => Gap(k)' = Gap(k + 1)
           /\ (last' # last + 1) <=> Gap(0)
<1>1. /\ Queued' = Queued - 1 /\ Queued > 0 /\ next' = next /\ last' = Waiting(0)
      /\ \A k \in Positions' : Waiting(k)' = Waiting(k + 1)
  BY TakeMoves
<1>2. NumBuffers \in Nat \ {0} /\ Queued \in 0 .. NumBuffers /\ last \in Nat
  BY QueuedRange DEF QueueInv, TypeOK
<1>3. Queued' \in Nat
  BY <1>1, <1>2
<1>4. ASSUME NEW k \in Nat, k <= Queued' PROVE Gap(k)' = Gap(k + 1)
  <2>1. (IF k < Queued' THEN Waiting(k)' ELSE next')
            = (IF k + 1 < Queued THEN Waiting(k + 1) ELSE next)
    <3>1. CASE k < Queued'
      <4>1. k \in Positions' /\ k + 1 < Queued
        BY <1>1, <1>2, <3>1 DEF Positions
      <4>2. QED
        BY <1>1, <3>1, <4>1
    <3>2. CASE ~ (k < Queued')
      <4>1. ~ (k + 1 < Queued)
        BY <1>1, <1>2, <3>2
      <4>2. QED
        BY <1>1, <3>2, <4>1
    <3>3. QED
      BY <3>1, <3>2
  <2>2. (IF k = 0 THEN last' ELSE Waiting(k - 1)')
            = (IF k + 1 = 0 THEN last ELSE Waiting((k + 1) - 1))
    <3>1. CASE k = 0
      BY <1>1, <3>1
    <3>2. CASE k > 0
      <4>1. k - 1 \in 0 .. Queued' - 1 /\ (k - 1) + 1 = (k + 1) - 1 /\ k + 1 # 0
        BY <1>3, <1>4, <3>2, PlaceBefore
      <4>2. k - 1 \in Positions'
        BY <4>1 DEF Positions
      <4>3. Waiting(k - 1)' = Waiting((k - 1) + 1)
        BY <1>1, <4>2
      <4>4. QED
        BY <3>2, <4>1, <4>3
    <3>3. QED
      BY <1>4, <3>1, <3>2
  <2>3. QED
    BY <2>1, <2>2 DEF Gap
<1>5. (last' # last + 1) <=> Gap(0)
  BY <1>1, <1>2 DEF Gap
<1>6. QED
  BY <1>1, <1>3, <1>4, <1>5

\* What is left of a discarded queue has no gap inside.
LEMMA DiscardGap ==
    ASSUME QueueInv, ClearInv, DiscardBlocks, UNCHANGED <<fragment, cb, next>>,
           bufferedElems = 0, app # "release", app' # "release"
    PROVE  /\ \A k \in Inside' : ~Gap(k)'
           /\ cb = "full" => Queued' = 0
<1>1. /\ Queued = buf_count + One(cb = "count") /\ Queued' = One(cb = "count")
      /\ \A k \in Positions' :
             /\ cb = "count" /\ k = 0 /\ Queued - 1 \in Positions
             /\ Waiting(k)' = Waiting(Queued - 1)
  BY DiscardMoves
<1>2. Queued \in Nat /\ next' = next
  BY QueuedRange
<1>3. ASSUME NEW k \in Inside' PROVE ~Gap(k)'
  <2>1. k = 1 /\ Queued' = 1 /\ cb = "count"
    BY <1>1, <1>3 DEF Inside, One
  <2>2. 0 \in Positions' /\ Queued \in Inside
    BY <1>1, <1>2, <2>1 DEF Positions, Inside
  <2>3. Waiting(0)' = Waiting(Queued - 1)
    BY <1>1, <2>2
  <2>4. ~Gap(Queued)
    BY <2>1, <2>2 DEF ClearInv
  <2>5. next = 1 + Waiting(Queued - 1)
    BY <1>2, <2>2, <2>4 DEF Gap, Inside
  <2>6. k - 1 = 0 /\ ~ (k < Queued') /\ k # 0
    BY <2>1
  <2>7. Waiting(k - 1)' = Waiting(0)'
    BY <2>6
  <2>8. QED
    BY <1>2, <2>3, <2>5, <2>6, <2>7 DEF Gap
<1>4. cb = "full" => Queued' = 0
  BY <1>1 DEF One
<1>5. QED
  BY <1>3, <1>4

\* A step that moves no block moves no gap.
LEMMA KeepGap ==
    ASSUME UNCHANGED <<samples_buffer, samples_block_read, last, next>>, Queued' = Queued
    PROVE  Inside' = Inside /\ \A k : Gap(k)' = Gap(k)
<1>1. \A k : Waiting(k)' = Waiting(k)
  BY DEF Waiting, Wrap
<1>2. QED
  BY <1>1 DEF Inside, Gap

LEMMA StepGap ==
    ASSUME RestartMidBlock = FALSE, QueueInv, OrderInv, GapInv, [Next]_vars
    PROVE  GapInv'
<1>0. /\ TypeOK /\ CallbackInv /\ ReaderInv /\ ResetInv /\ ClearInv /\ CoverInv
      /\ NumBuffers \in Nat \ {0} /\ Queued \in 0 .. NumBuffers
      /\ buf_count \in 0 .. NumBuffers
  BY QueuedRange DEF QueueInv, OrderInv, GapInv
<1>1. CASE CallbackCheck
  <2>1. Queued' = Queued /\ (app \notin {"idle", "copy", "release"} /\ Full => Queued = NumBuffers)
    BY <1>0, <1>1 DEF CallbackCheck, queue, fragment, Queued, Held, One, Full, ReaderInv, TypeOK
  <2>2. Inside' = Inside /\ \A k : Gap(k)' = Gap(k)
    BY <1>1, <2>1, KeepGap DEF CallbackCheck, queue, history
  <2>3. QED
    BY <1>0, <1>1, <2>1, <2>2
    DEF CallbackCheck, events, history, GapInv, ClearInv, CoverInv, Clearing, Outdated
<1>2. CASE CallbackOverflow
  <2>1. /\ cb = "full" /\ cb' = "idle" /\ overflowEvent' = TRUE
        /\ swallowed' = (swallowed \/ Clearing)
        /\ UNCHANGED <<app, resetBuffer, reported, last, samples_buffer, samples_block_read>>
    BY <1>2 DEF CallbackOverflow, queue, Clearing
  <2>2. Queued' = Queued /\ Inside' = Inside
    BY <1>2 DEF CallbackOverflow, queue, fragment, Queued, Held, One, Inside
  <2>3. ASSUME NEW k \in Inside PROVE k = Queued \/ Gap(k)' = Gap(k)
    <3>1. k = Queued \/ k < Queued
      BY <1>0 DEF Inside
    <3>2. k < Queued => Gap(k)' = Gap(k)
      BY <2>1, <2>2 DEF Gap, Waiting, Wrap
    <3>3. QED
      BY <3>1, <3>2
  <2>4. ASSUME Clearing, NEW k \in Inside, Gap(k)' PROVE k = NumBuffers
    BY <1>0, <2>1, <2>3, <2>4 DEF ClearInv, Inside
  <2>5. ClearInv'
    BY <1>0, <2>1, <2>2, <2>4 DEF ClearInv, Clearing
  <2>6. CoverInv'
    BY <2>1 DEF CoverInv
  <2>7. QED
    BY <2>5, <2>6 DEF GapInv
<1>3. CASE CallbackCopy
  <2>1. /\ Queued' = Queued + 1 /\ cb = "copy" /\ cb' = "count"
        /\ UNCHANGED <<app, resetBuffer, overflowEvent, reported, swallowed>>
    BY <1>3, CopyMoves, <1>0 DEF CallbackCopy
  <2>2. Gap(0)' = Gap(0)
    BY <1>0, <1>3, CopyGap
  <2>3. ASSUME NEW k \in Inside', Gap(k)'
        PROVE  k \in Inside /\ Gap(k) /\ k # Queued'
    <3>1. k \in Nat /\ k # Queued + 1
      BY <1>0, <1>3, <2>1, <2>3, CopyGap DEF Inside
    <3>2. k \in 0 .. Queued /\ k \in Inside
      BY <1>0, <2>1, <2>3, <3>1 DEF Inside
    <3>3. QED
      BY <1>3, <2>1, <2>3, <3>1, <3>2, CopyGap
  <2>4. ClearInv'
    BY <1>0, <2>1, <2>3 DEF ClearInv, Clearing
  <2>5. CoverInv'
    BY <1>0, <2>1, <2>2, <2>3 DEF CoverInv, Outdated
  <2>6. QED
    BY <2>4, <2>5 DEF GapInv
<1>4. CASE AcquireTake
  <2>1. /\ app = "take" /\ app' = "copy" /\ ~resetBuffer /\ ~resetBuffer'
        /\ UNCHANGED <<cb, overflowEvent>> /\ reported' = FALSE
        /\ swallowed' = (swallowed /\ (reported \/ ~Gap(0)))
    BY <1>0, <1>4, TakeGap DEF AcquireTake, events, ResetInv
  <2>2. Queued' \in Nat /\ Queued' = Queued - 1
    BY <1>4, TakeGap
  <2>3. Gap(0)' = Gap(1) /\ 1 \in Inside
    <3>1. 0 <= Queued' /\ 1 \in Inside /\ 0 + 1 = 1
      BY <1>0, <2>2 DEF Inside
    <3>2. QED
      BY <1>4, <3>1, TakeGap
  <2>4. ASSUME NEW k \in Inside'
        PROVE  k \in Nat /\ k + 1 \in Inside /\ k + 1 # 1 /\ Gap(k)' = Gap(k + 1)
    <3>1. k \in Nat /\ k <= Queued' /\ k + 1 \in Inside /\ k + 1 # 1
      BY <1>0, <2>2, <2>4 DEF Inside
    <3>2. QED
      BY <1>4, <3>1, TakeGap
  <2>5. ASSUME NEW k \in Inside, Gap(k) PROVE overflowEvent \/ swallowed'
    BY <1>0, <2>1, <2>5 DEF CoverInv, Outdated
  <2>6. ClearInv'
    <3>1. ASSUME cb = "count", NEW k \in Inside', k = Queued' PROVE ~Gap(k)'
      <4>1. k + 1 = Queued
        BY <1>0, <2>2, <3>1
      <4>2. QED
        BY <1>0, <2>4, <3>1, <4>1 DEF ClearInv
    <3>2. QED
      BY <2>1, <3>1 DEF ClearInv, Clearing
  <2>7. CoverInv'
    <3>1. \A k \in Inside' : Gap(k)' => overflowEvent' \/ swallowed'
      BY <2>1, <2>4, <2>5
    <3>2. Gap(0)' => overflowEvent' \/ swallowed'
      BY <2>1, <2>3, <2>5
    <3>3. ASSUME ~overflowEvent', NEW j \in Inside', NEW k \in Inside', Gap(j)', Gap(k)'
          PROVE  j = k
      <4>1. j + 1 = k + 1
        BY <1>0, <2>1, <2>4, <3>3 DEF CoverInv, Outdated
      <4>2. QED
        BY <2>4, <4>1
    <3>4. ASSUME ~overflowEvent', Gap(0)', NEW k \in Inside' PROVE ~Gap(k)'
      BY <1>0, <2>1, <2>3, <2>4, <3>4 DEF CoverInv, Outdated
    <3>5. QED
      BY <3>1, <3>2, <3>3, <3>4 DEF CoverInv
  <2>8. QED
    BY <2>6, <2>7 DEF GapInv
<1>5. CASE (AcquireReset /\ resetBuffer) \/ AcquireDiscard
  <2>1. /\ bufferedElems = 0 /\ DiscardBlocks
        /\ UNCHANGED <<fragment, cb, next, overflowEvent, resetBuffer, reported, swallowed>>
        /\ \/ app = "acquire" /\ app' = "clear" /\ resetBuffer
           \/ app = "discard" /\ app' = "overflow" /\ ~resetBuffer
    BY <1>0, <1>5 DEF AcquireReset, AcquireDiscard, events, history, ReaderInv, ResetInv
  <2>2. /\ \A k \in Inside' : ~Gap(k)'
        /\ cb = "full" => Queued' = 0
    BY <1>0, <2>1, DiscardGap
  <2>3. ClearInv'
    BY <1>0, <2>1, <2>2 DEF ClearInv
  <2>4. CoverInv'
    BY <1>0, <2>1, <2>2 DEF ClearInv, CoverInv
  <2>5. QED
    BY <2>3, <2>4 DEF GapInv
<1>6. CASE SetupStream
  <2>1. /\ app = "idle" /\ cb = "off" /\ buf_count' = 0 /\ bufferedElems' = 0
        /\ UNCHANGED <<app, cb, overflowEvent, resetBuffer, reported, swallowed>>
    BY <1>6 DEF SetupStream, events, fragment, history
  <2>2. Queued' = 0 /\ Inside' = {}
    BY <2>1 DEF Queued, Held, One, Inside
  <2>3. ClearInv' /\ CoverInv'
    BY <1>0, <2>1, <2>2 DEF ClearInv, CoverInv, Clearing
  <2>4. QED
    BY <2>3 DEF GapInv
<1>7. CASE CallbackCount
  <2>1. buf_count' = buf_count + 1
    BY <1>0, <1>7, CountMoves DEF CallbackCount
  <2>2. Queued' = Queued
    BY <1>0, <1>7, <2>1 DEF CallbackCount, fragment, Queued, Held, One
  <2>3. Inside' = Inside /\ \A k : Gap(k)' = Gap(k)
    BY <1>7, <2>2, KeepGap DEF CallbackCount, history
  <2>4. QED
    BY <1>0, <1>7, <2>2, <2>3
    DEF CallbackCount, events, history, GapInv, ClearInv, CoverInv, Clearing, Outdated
<1>8. CASE ReleaseReadBuffer
  <2>1. Held /\ ~Held' /\ buf_count > 0
    BY <1>0, <1>8 DEF ReleaseReadBuffer, fragment, QueueInv, IndexInv, ReaderInv, Held
  <2>2. buf_count' = buf_count - 1
    BY <1>0, <1>8, <2>1, CountMoves DEF ReleaseReadBuffer
  <2>3. Queued' = Queued
    BY <1>0, <1>8, <2>1, <2>2 DEF ReleaseReadBuffer, Queued, One
  <2>4. Inside' = Inside /\ \A k : Gap(k)' = Gap(k)
    BY <1>8, <2>3, KeepGap DEF ReleaseReadBuffer, history
  <2>5. QED
    BY <1>0, <1>8, <2>3, <2>4
    DEF ReleaseReadBuffer, events, history, GapInv, ClearInv, CoverInv, Clearing, Outdated
<1>9. CASE CallbackNotify \/ DeactivateStream \/ ReadStream
  <2>1. Queued' = Queued
    BY <1>0, <1>9
    DEF CallbackNotify, DeactivateStream, ReadStream, queue, fragment, Queued, Held, One
  <2>2. Inside' = Inside /\ \A k : Gap(k)' = Gap(k)
    BY <1>9, <2>1, KeepGap DEF CallbackNotify, DeactivateStream, ReadStream, queue, history
  <2>3. QED
    BY <1>0, <1>9, <2>1, <2>2
    DEF CallbackNotify, DeactivateStream, ReadStream, events, history, GapInv, ClearInv,
        CoverInv, Clearing, Outdated
<1>10. CASE ActivateStream \/ StartRadio
  <2>1. Queued' = Queued
    BY <1>0, <1>10
    DEF ActivateStream, StartRadio, queue, fragment, Queued, Held, One
  <2>2. Inside' = Inside /\ \A k : Gap(k)' = Gap(k)
    BY <1>10, <2>1, KeepGap DEF ActivateStream, StartRadio, queue, history
  <2>3. QED
    BY <1>0, <1>10, <2>1, <2>2
    DEF ActivateStream, StartRadio, events, history, GapInv, ClearInv, CoverInv, Clearing,
        Outdated, ResetInv
<1>11. CASE (AcquireReset /\ ~resetBuffer) \/ AcquireClear \/ AcquireCheck \/ ReturnOverflow
  <2>1. Queued' = Queued
    BY <1>0, <1>11
    DEF AcquireReset, AcquireClear, AcquireCheck, ReturnOverflow, queue, fragment, Queued,
        Held, One
  <2>2. Inside' = Inside /\ \A k : Gap(k)' = Gap(k)
    BY <1>11, <2>1, KeepGap
    DEF AcquireReset, AcquireClear, AcquireCheck, ReturnOverflow, queue, history
  <2>3. CASE AcquireReset /\ ~resetBuffer
    BY <1>0, <2>1, <2>2, <2>3
    DEF AcquireReset, events, history, GapInv, ClearInv, CoverInv, Clearing, Outdated
  <2>4. CASE AcquireClear
    BY <1>0, <2>1, <2>2, <2>4
    DEF AcquireClear, history, GapInv, ClearInv, CoverInv, Clearing, Outdated
  <2>5. CASE AcquireCheck
    BY <1>0, <2>1, <2>2, <2>5
    DEF AcquireCheck, events, history, GapInv, ClearInv, CoverInv, Clearing, Outdated
  <2>6. CASE ReturnOverflow
    BY <1>0, <2>1, <2>2, <2>6
    DEF ReturnOverflow, GapInv, ClearInv, CoverInv, Clearing, Outdated, ResetInv
  <2>7. QED
    BY <1>11, <2>3, <2>4, <2>5, <2>6
<1>12. CASE AcquireTest \/ AcquireWait \/ AcquireTimeout \/ ReadFragment
  <2>1. Queued' = Queued
    BY <1>0, <1>12
    DEF AcquireTest, AcquireWait, AcquireTimeout, ReadFragment, queue, fragment,
        Queued, Held, One, ReaderInv, TypeOK
  <2>2. Inside' = Inside /\ \A k : Gap(k)' = Gap(k)
    BY <1>12, <2>1, KeepGap
    DEF AcquireTest, AcquireWait, AcquireTimeout, ReadFragment, queue, history
  <2>3. QED
    BY <1>0, <1>12, <2>1, <2>2
    DEF AcquireTest, AcquireWait, AcquireTimeout, ReadFragment, events, history, GapInv,
        ClearInv, CoverInv, Clearing, Outdated
<1>13. CASE UNCHANGED vars
  <2>1. Queued' = Queued
    BY <1>13 DEF vars, queue, fragment, Queued, Held, One
  <2>2. Inside' = Inside /\ \A k : Gap(k)' = Gap(k)
    BY <1>13, <2>1, KeepGap DEF vars, queue, history
  <2>3. QED
    BY <1>0, <1>13, <2>1, <2>2
    DEF vars, events, history, GapInv, ClearInv, CoverInv, Clearing, Outdated
<1>14. QED
  BY <1>1, <1>2, <1>3, <1>4, <1>5, <1>6, <1>7, <1>8, <1>9, <1>10, <1>11, <1>12, <1>13
  DEF Next, Callback, AcquireReadBuffer

\* When readStream hands out a block and its predecessor is missing, OVERFLOW
\* has been returned since the block before, or will be by the next call that
\* acquires a block, unless the event was raised while one was being cleared.
THEOREM GapsAreReported ==
    ASSUME RestartMidBlock = FALSE
    PROVE  Spec => GapIsReported
<1>1. Init => OrderInv /\ GapInv
  BY InitOrder, InitGap
<1>2. QueueInv /\ OrderInv /\ GapInv /\ [Next]_vars => OrderInv' /\ GapInv'
  BY StepOrder, StepGap
<1>3. QueueInv /\ OrderInv /\ GapInv /\ [Next]_vars
          => [AcquireTake => last' = last + 1 \/ reported \/ overflowEvent \/ swallowed]_vars
  <2> SUFFICES ASSUME QueueInv, OrderInv, GapInv, AcquireTake, last' # last + 1
               PROVE  reported \/ overflowEvent \/ swallowed
    OBVIOUS
  <2>1. Gap(0)
    BY TakeGap
  <2>2. ~Outdated /\ Queued > 0 /\ Queued \in Nat
    BY TakeMoves, QueuedRange DEF Outdated, OrderInv, ResetInv
  <2>3. QED
    BY <2>1, <2>2 DEF GapInv, CoverInv
<1>4. QED
  BY <1>1, <1>2, <1>3, QueueInvariant, PTL DEF Spec, GapIsReported
=============================================================================
