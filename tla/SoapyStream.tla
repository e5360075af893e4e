---------------------------- MODULE SoapyStream ----------------------------
(***************************************************************************)
(* The block queue between RadioHandler's callback and the application in  *)
(* the SoapySDR module (SoapySDDC/Streaming.cpp, Callback of Settings.cpp).*)
(*                                                                         *)
(* RadioHandler's submit thread runs Callback ("cb"); the application's    *)
(* thread ("app") sets the stream up, activates, reads and deactivates it. *)
(* A block that is only partly read stays with the application between two *)
(* calls of readStream.  What module StreamPipeline shows of RadioHandler  *)
(* is used here: Stop returns when no callback runs any more, and none     *)
(* runs until the next Start.                                              *)
(*                                                                         *)
(* A block is represented by its number; the numbers grow.                 *)
(***************************************************************************)
EXTENDS Naturals

CONSTANTS
    NumBuffers,       \* numBuffers (16 in the code)
    Elems,            \* elements of a block
    MaxBlocks,        \* bound: blocks the radio delivers in a behaviour
    RestartMidBlock   \* may it be set up or activated with a block half read?

ASSUME SoapyAssumption ==
    /\ {NumBuffers, Elems, MaxBlocks} \subseteq Nat \ {0}
    /\ RestartMidBlock \in BOOLEAN

VARIABLES
    samples_buffer, samples_block_write, samples_block_read, buf_count,
    overflowEvent, resetBuffer,
    bufferedElems, currentHandle,
    cb,        \* control state of Callback, "off" while the radio is stopped
    app,       \* control state of the application's thread
    next,      \* number of the radio's next block
    first,     \* number of the first block since the last activateStream
    last,      \* number of the block handed out last
    reported,  \* since then: has OVERFLOW been returned, or the stream activated?
    swallowed  \* was an overflow event raised while the reader was clearing one?

queue == <<samples_buffer, samples_block_write, samples_block_read, buf_count>>
events == <<overflowEvent, resetBuffer>>
fragment == <<bufferedElems, currentHandle>>
history == <<next, first, last, reported, swallowed>>
vars == <<queue, events, fragment, cb, app, history>>

Slots == 0 .. (NumBuffers - 1)
NoBlock == 0
SizeMod == 4 * NumBuffers  \* stands for 2^64, the modulus of size_t

Init ==
    /\ samples_buffer = [s \in Slots |-> NoBlock]
    /\ samples_block_write = 0
    /\ samples_block_read = 0
    /\ buf_count = 0
    /\ overflowEvent = FALSE
    /\ resetBuffer = FALSE
    /\ bufferedElems = 0
    /\ currentHandle = 0
    /\ cb = "off"
    /\ app = "idle"
    /\ next = 1
    /\ first = 1
    /\ last = NoBlock
    /\ reported = TRUE
    /\ swallowed = FALSE

-----------------------------------------------------------------------------
(* Callback, which only locks the mutex to raise the count.                *)

\* Mutant: the capacity check is off by one.
FullLate == buf_count = NumBuffers + 1

Full == buf_count = NumBuffers

CallbackCheck ==
    /\ cb = "idle"
    /\ next <= MaxBlocks
    /\ cb' = IF Full THEN "full" ELSE "copy"
    /\ UNCHANGED <<queue, events, fragment, app, history>>

\* Mutant: a block is dropped without a word.
CallbackOverflowSilent ==
    /\ cb = "full"
    /\ next' = next + 1
    /\ cb' = "idle"
    /\ UNCHANGED <<queue, events, fragment, app, first, last, reported, swallowed>>

CallbackOverflow ==
    /\ cb = "full"
    /\ overflowEvent' = TRUE
    /\ next' = next + 1
    /\ cb' = "idle"
    /\ swallowed' = (swallowed \/ app \in {"clear", "overflow"})
    /\ UNCHANGED <<queue, resetBuffer, fragment, app, first, last, reported>>

CallbackCopy ==
    /\ cb = "copy"
    /\ samples_buffer' = [samples_buffer EXCEPT ![samples_block_write] = next]
    /\ samples_block_write' = (samples_block_write + 1) % NumBuffers
    /\ next' = next + 1
    /\ cb' = "count"
    /\ UNCHANGED <<samples_block_read, buf_count, events, fragment, app, first, last,
                   reported, swallowed>>

\* Mutant: nobody is notified.
CallbackCountSilent ==
    /\ cb = "count"
    /\ buf_count' = (buf_count + 1) % SizeMod
    /\ cb' = "idle"
    /\ UNCHANGED <<samples_buffer, samples_block_write, samples_block_read, events,
                   fragment, app, history>>

CallbackCount ==
    /\ cb = "count"
    /\ buf_count' = (buf_count + 1) % SizeMod
    /\ cb' = "notify"
    /\ UNCHANGED <<samples_buffer, samples_block_write, samples_block_read, events,
                   fragment, app, history>>

CallbackNotify ==
    /\ cb = "notify"
    /\ app' = IF app = "asleep" THEN "lock" ELSE app
    /\ cb' = "idle"
    /\ UNCHANGED <<queue, events, fragment, history>>

Callback ==
    \/ CallbackCheck \/ CallbackOverflow \/ CallbackCopy \/ CallbackCount
    \/ CallbackNotify

-----------------------------------------------------------------------------
(* setupStream, activateStream, deactivateStream and closeStream.          *)

\* The stream is set up while the radio is stopped.
SetupStream ==
    /\ app = "idle"
    /\ cb = "off"
    /\ RestartMidBlock \/ bufferedElems = 0
    /\ samples_block_write' = 0
    /\ samples_block_read' = 0
    /\ buf_count' = 0
    /\ UNCHANGED <<samples_buffer, events, fragment, cb, app, history>>

\* The reset of the queue is left to the next acquireReadBuffer: the radio
\* may still be running, and is restarted only after the flags are set.
ActivateStream ==
    /\ app = "idle"
    /\ RestartMidBlock \/ bufferedElems = 0
    /\ resetBuffer' = TRUE
    /\ bufferedElems' = 0
    /\ app' = "start"
    /\ UNCHANGED <<queue, overflowEvent, currentHandle, cb, history>>

\* RadioHandler::Start(true), which stops the radio first.
StartRadio ==
    /\ app = "start"
    /\ cb \in {"off", "idle"}
    /\ cb' = "idle"
    /\ app' = "idle"
    /\ first' = next
    /\ reported' = TRUE
    /\ swallowed' = FALSE
    /\ UNCHANGED <<queue, events, fragment, next, last>>

DeactivateStream ==
    /\ app = "idle"
    /\ cb = "idle"
    /\ cb' = "off"
    /\ UNCHANGED <<queue, events, fragment, app, history>>

-----------------------------------------------------------------------------
(* readStream with acquireReadBuffer and releaseReadBuffer.                *)

ReadStream ==
    /\ app = "idle"
    /\ app' = IF bufferedElems = 0 THEN "acquire" ELSE "copy"
    /\ UNCHANGED <<queue, events, fragment, cb, history>>

\* Mutant: the read index is left where it was.
DiscardBlocksCountOnly ==
    /\ buf_count' = 0
    /\ UNCHANGED <<samples_buffer, samples_block_write, samples_block_read>>

\* samples_block_read = (samples_block_read + _buf_count.exchange(0)) % numBuffers
DiscardBlocks ==
    /\ samples_block_read' = (samples_block_read + buf_count) % NumBuffers
    /\ buf_count' = 0
    /\ UNCHANGED <<samples_buffer, samples_block_write>>

\* Mutant: an activation does not discard the blocks of the last one.
AcquireResetSkipped ==
    /\ app = "acquire"
    /\ app' = IF resetBuffer THEN "clear" ELSE "check"
    /\ UNCHANGED <<queue, events, fragment, cb, history>>

AcquireReset ==
    /\ app = "acquire"
    /\ IF resetBuffer
       THEN DiscardBlocks /\ app' = "clear"
       ELSE UNCHANGED queue /\ app' = "check"
    /\ UNCHANGED <<events, fragment, cb, history>>

AcquireClear ==
    /\ app = "clear"
    /\ resetBuffer' = FALSE
    /\ overflowEvent' = FALSE
    /\ app' = "check"
    /\ UNCHANGED <<queue, fragment, cb, history>>

AcquireCheck ==
    /\ app = "check"
    /\ app' = IF overflowEvent THEN "discard" ELSE "test"
    /\ UNCHANGED <<queue, events, fragment, cb, history>>

AcquireDiscard ==
    /\ app = "discard"
    /\ DiscardBlocks
    /\ app' = "overflow"
    /\ UNCHANGED <<events, fragment, cb, history>>

\* readStream returns SOAPY_SDR_OVERFLOW.
ReturnOverflow ==
    /\ app = "overflow"
    /\ overflowEvent' = FALSE
    /\ reported' = TRUE
    /\ app' = "idle"
    /\ UNCHANGED <<queue, resetBuffer, fragment, cb, next, first, last, swallowed>>

\* The test without the mutex.
AcquireTest ==
    /\ app = "test"
    /\ app' = IF buf_count # 0 THEN "take" ELSE "lock"
    /\ UNCHANGED <<queue, events, fragment, cb, history>>

\* wait_for evaluates its predicate with the mutex locked.
AcquireWait ==
    /\ app = "lock"
    /\ app' = IF buf_count # 0 THEN "take" ELSE "asleep"
    /\ UNCHANGED <<queue, events, fragment, cb, history>>

\* The time is up: SOAPY_SDR_TIMEOUT unless a block came in just now.
AcquireTimeout ==
    /\ app = "asleep"
    /\ app' = IF buf_count # 0 THEN "take" ELSE "idle"
    /\ UNCHANGED <<queue, events, fragment, cb, history>>

AcquireTake ==
    /\ app = "take"
    /\ currentHandle' = samples_block_read
    /\ samples_block_read' = (samples_block_read + 1) % NumBuffers
    /\ bufferedElems' = Elems
    /\ app' = "copy"
    /\ last' = samples_buffer[samples_block_read]
    /\ reported' = FALSE
    /\ swallowed' = (swallowed /\ (reported \/ last' = last + 1))
    /\ UNCHANGED <<samples_buffer, samples_block_write, buf_count, events, cb, next, first>>

\* memcpy of up to numElems elements to the application's buffer.
ReadFragment ==
    /\ app = "copy"
    /\ \E numElems \in 1 .. bufferedElems :
          /\ bufferedElems' = bufferedElems - numElems
          /\ app' = IF numElems = bufferedElems THEN "release" ELSE "idle"
    /\ UNCHANGED <<queue, events, currentHandle, cb, history>>

ReleaseReadBuffer ==
    /\ app = "release"
    /\ buf_count' = (buf_count + SizeMod - 1) % SizeMod
    /\ app' = "idle"
    /\ UNCHANGED <<samples_buffer, samples_block_write, samples_block_read, events,
                   fragment, cb, history>>

AcquireReadBuffer ==
    \/ AcquireReset \/ AcquireClear \/ AcquireCheck \/ AcquireDiscard \/ ReturnOverflow
    \/ AcquireTest \/ AcquireWait \/ AcquireTimeout \/ AcquireTake

Next ==
    \/ Callback
    \/ SetupStream \/ ActivateStream \/ StartRadio \/ DeactivateStream
    \/ ReadStream \/ AcquireReadBuffer \/ ReadFragment \/ ReleaseReadBuffer

Spec == Init /\ [][Next]_vars

-----------------------------------------------------------------------------
\* Type invariant.
TypeOK ==
    /\ samples_buffer \in [Slots -> 0 .. MaxBlocks]
    /\ samples_block_write \in Slots
    /\ samples_block_read \in Slots
    /\ buf_count \in 0 .. NumBuffers
    /\ {overflowEvent, resetBuffer, reported, swallowed} \subseteq BOOLEAN
    /\ bufferedElems \in 0 .. Elems
    /\ currentHandle \in Slots
    /\ cb \in {"off", "idle", "full", "copy", "count", "notify"}
    /\ app \in {"idle", "start", "acquire", "clear", "check", "discard", "overflow",
                "test", "lock", "asleep", "take", "copy", "release"}
    /\ {next, first} \subseteq 1 .. (MaxBlocks + 1)
    /\ last \in 0 .. MaxBlocks

\* The application owns the block of its handle until it is released.
Held == bufferedElems > 0 \/ app = "release"

One(b) == IF b THEN 1 ELSE 0

\* The three variables that describe the queue agree although Callback and
\* readStream update them one by one and without a common lock, and although
\* an overflow or a new activation throws the queued blocks away.
IndicesAgree ==
    samples_block_write =
        (samples_block_read + buf_count + NumBuffers
            - One(Held) + One(cb = "count")) % NumBuffers

\* Callback never writes to the block the application is reading.
NoTornBlock == Held /\ cb = "copy" => samples_block_write # currentHandle

\* readStream sleeps only while there is nothing to read, or Callback is
\* about to wake it: no block waits for the timeout of a sleeping reader.
NoMissedBlock == app = "asleep" => buf_count = 0 \/ cb = "notify"

\* Blocks are handed out in the order of their arrival, none twice and none
\* from before the last activation.
BlocksInOrder == [][AcquireTake => last' > last /\ last' >= first]_vars

\* A gap between two blocks is reported as OVERFLOW: by a call before, or, if
\* Callback raised the event while the application slept, by the next call.
\* The one exception is an event raised between the reader's discarding the
\* queue and its clearing the previous event.
GapIsReported ==
    [][AcquireTake => last' = last + 1 \/ reported \/ overflowEvent \/ swallowed]_vars

\* acquireReadBuffer "wait[s] for a buffer to become available": the one it
\* hands out was filled since the last activateStream.
BufferIsAvailable == [][AcquireTake => last' >= first]_vars
=============================================================================
