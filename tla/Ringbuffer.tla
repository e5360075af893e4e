----------------------------- MODULE Ringbuffer -----------------------------
(***************************************************************************)
(* ringbuffer<T, max_count> of Core/dsp/ringbuffer.h at the granularity of *)
(* its atomics, its mutex and its two condition variables.                 *)
(*                                                                         *)
(* One thread writes, one reads (the class is single producer, single      *)
(* consumer) and a third, the controller, calls Start and Stop.  A thread  *)
(* runs the calls of the class one atomic step at a time:                  *)
(*                                                                         *)
(*   "idle"     between two calls                                          *)
(*   "spin"     about to load `stopped` in the lock-free loop              *)
(*   "test"     about to load `blocks_available` in the lock-free loop     *)
(*   "lock"     about to lock the mutex and evaluate the wait predicate    *)
(*   "asleep"   in the wait set of its condition variable, mutex released  *)
(*   "holding"  acquire returned a block, which the thread now owns        *)
(*   "used"     the block was filled (writer) or looked at (reader)        *)
(*   "count"    in commit/release: index stored, count not yet, mutex held *)
(*   "notify"   mutex released (or held, in Stop), about to notify         *)
(*                                                                         *)
(* The telemetry counters (emptyCount, fullCount, writeCount) are left     *)
(* out: no control depends on them.                                        *)
(***************************************************************************)
EXTENDS Naturals, Sequences

CONSTANTS
    MaxCount,   \* max_count, the number of blocks
    SpinCount,  \* spin_count, iterations of the lock-free loop
    Data,       \* possible contents of a block
    NoData      \* contents of a block never written, or "no copy"

ASSUME MaxCountAssumption == MaxCount \in Nat \ {0}
ASSUME SpinCountAssumption == SpinCount \in Nat \ {0}
ASSUME NoDataAssumption == NoData \notin Data

VARIABLES
    read_index, write_index, blocks_available, stopped,
    mutex,      \* the thread that holds the mutex, or "free"
    buffers,    \* contents of the blocks
    pc,         \* control state of each thread
    spins,      \* iterations left of the thread's lock-free loop
    ptr,        \* the block an acquire returned to the thread
    got         \* what the reader found in the block it holds

vars == <<read_index, write_index, blocks_available, stopped, mutex,
          buffers, pc, spins, ptr, got>>

Writer == "writer"
Reader == "reader"
Controller == "controller"
Endpoints == {Writer, Reader}
Threads == {Writer, Reader, Controller}
Slots == 0 .. (MaxCount - 1)

EndpointStates == {"idle", "spin", "test", "lock", "asleep",
                   "holding", "used", "count", "notify"}

\* Mutant: the index does not wrap around.
AdvanceNoWrap(i) == i + 1

Advance(i) == (i + 1) % MaxCount

\* Mutant: the writer may take a block of a full ring.
ReadyWhenFull(e) == e = "writer" \/ blocks_available > 0

\* The condition an endpoint waits for, and the index it hands out.
Ready(e) == IF e = Writer THEN blocks_available < MaxCount
                          ELSE blocks_available > 0
IndexOf(e) == IF e = Writer THEN write_index ELSE read_index

Goto(t, state) == pc' = [pc EXCEPT ![t] = state]

\* pc after thread t moved to `state` and the threads of S were woken.
GotoAndWake(t, state, S) ==
    pc' = [u \in Threads |->
              IF u = t THEN state
              ELSE IF u \in S /\ pc[u] = "asleep" THEN "lock" ELSE pc[u]]

Init ==
    /\ read_index = 0
    /\ write_index = 0
    /\ blocks_available = 0
    /\ stopped = FALSE
    /\ mutex = "free"
    /\ buffers = [s \in Slots |-> NoData]
    /\ pc = [t \in Threads |-> "idle"]
    /\ spins = [e \in Endpoints |-> 0]
    /\ ptr = [e \in Endpoints |-> 0]
    /\ got = NoData

-----------------------------------------------------------------------------
(* acquireWriteBlock and acquireReadBlock, which differ in the predicate,  *)
(* the index and the condition variable only.                              *)

ringShared == <<read_index, write_index, blocks_available, stopped>>

Call(e) ==
    /\ pc[e] = "idle"
    /\ Goto(e, "spin")
    /\ spins' = [spins EXCEPT ![e] = SpinCount]
    /\ UNCHANGED <<ringShared, mutex, buffers, ptr, got>>

SpinStopped(e) ==
    /\ pc[e] = "spin"
    /\ Goto(e, IF stopped THEN "idle" ELSE "test")
    /\ UNCHANGED <<ringShared, mutex, buffers, spins, ptr, got>>

\* The count and the index are loaded in one step: this endpoint is the
\* only thread that stores its index while a call is under way.
SpinTest(e) ==
    /\ pc[e] = "test"
    /\ \/ /\ Ready(e)
          /\ ptr' = [ptr EXCEPT ![e] = IndexOf(e)]
          /\ Goto(e, "holding")
          /\ UNCHANGED spins
       \/ /\ ~Ready(e)
          /\ spins' = [spins EXCEPT ![e] = @ - 1]
          /\ Goto(e, IF spins[e] = 1 THEN "lock" ELSE "spin")
          /\ UNCHANGED ptr
    /\ UNCHANGED <<ringShared, mutex, buffers, got>>

\* wait(lk, predicate), entered for the first time or again after a wakeup.
LockAndWait(e) ==
    /\ pc[e] = "lock"
    /\ mutex = "free"
    /\ \/ /\ stopped
          /\ Goto(e, "idle")
          /\ UNCHANGED ptr
       \/ /\ ~stopped
          /\ Ready(e)
          /\ ptr' = [ptr EXCEPT ![e] = IndexOf(e)]
          /\ Goto(e, "holding")
       \/ /\ ~stopped
          /\ ~Ready(e)
          /\ Goto(e, "asleep")
          /\ UNCHANGED ptr
    /\ UNCHANGED <<ringShared, mutex, buffers, spins, got>>

\* A condition variable may wake a waiter for no reason.
SpuriousWake(e) ==
    /\ pc[e] = "asleep"
    /\ Goto(e, "lock")
    /\ UNCHANGED <<ringShared, mutex, buffers, spins, ptr, got>>

AcquireWriteBlock ==
    SpinStopped(Writer) \/ SpinTest(Writer) \/ LockAndWait(Writer)

AcquireReadBlock ==
    SpinStopped(Reader) \/ SpinTest(Reader) \/ LockAndWait(Reader)

-----------------------------------------------------------------------------
(* What the owners do with a block between acquire and commit/release.     *)

Fill ==
    /\ pc[Writer] = "holding"
    /\ \E d \in Data : buffers' = [buffers EXCEPT ![ptr[Writer]] = d]
    /\ Goto(Writer, "used")
    /\ UNCHANGED <<ringShared, mutex, spins, ptr, got>>

\* The r2iq thread ends without committing the output block it holds when
\* its input ring is stopped.
Abandon ==
    /\ pc[Writer] \in {"holding", "used"}
    /\ Goto(Writer, "idle")
    /\ UNCHANGED <<ringShared, mutex, buffers, spins, ptr, got>>

Look ==
    /\ pc[Reader] = "holding"
    /\ got' = buffers[ptr[Reader]]
    /\ Goto(Reader, "used")
    /\ UNCHANGED <<ringShared, mutex, buffers, spins, ptr>>

-----------------------------------------------------------------------------
(* commitWriteBlock: check and index under the mutex, count, unlock and    *)
(* only then notify.                                                       *)

\* Mutant: commit does not check `stopped` under the mutex.
CommitIndexUnchecked ==
    /\ pc[Writer] = "used"
    /\ mutex = "free"
    /\ mutex' = Writer
    /\ write_index' = Advance(write_index)
    /\ Goto(Writer, "count")
    /\ UNCHANGED <<read_index, blocks_available, stopped, buffers, spins, ptr, got>>

CommitIndex ==
    /\ pc[Writer] = "used"
    /\ mutex = "free"
    /\ IF stopped
       THEN /\ Goto(Writer, "idle")
            /\ UNCHANGED <<write_index, mutex>>
       ELSE /\ mutex' = Writer
            /\ write_index' = Advance(write_index)
            /\ Goto(Writer, "count")
    /\ UNCHANGED <<read_index, blocks_available, stopped, buffers, spins, ptr, got>>

\* Mutant: commit does not notify.
CommitCountSilent ==
    /\ pc[Writer] = "count"
    /\ blocks_available' = blocks_available + 1
    /\ mutex' = "free"
    /\ Goto(Writer, "idle")
    /\ UNCHANGED <<read_index, write_index, stopped, buffers, spins, ptr, got>>

CommitCount ==
    /\ pc[Writer] = "count"
    /\ blocks_available' = blocks_available + 1
    /\ mutex' = "free"
    /\ Goto(Writer, "notify")
    /\ UNCHANGED <<read_index, write_index, stopped, buffers, spins, ptr, got>>

CommitNotify ==
    /\ pc[Writer] = "notify"
    /\ GotoAndWake(Writer, "idle", {Reader})
    /\ UNCHANGED <<ringShared, mutex, buffers, spins, ptr, got>>

CommitWriteBlock == CommitIndex \/ CommitCount \/ CommitNotify

(* releaseReadBlock, which does not look at `stopped`.                     *)

ReleaseIndex ==
    /\ pc[Reader] = "used"
    /\ mutex = "free"
    /\ got' = NoData
    /\ IF blocks_available = 0
       THEN /\ Goto(Reader, "idle")
            /\ UNCHANGED <<read_index, mutex>>
       ELSE /\ mutex' = Reader
            /\ read_index' = Advance(read_index)
            /\ Goto(Reader, "count")
    /\ UNCHANGED <<write_index, blocks_available, stopped, buffers, spins, ptr>>

\* Mutant: release does not notify.
ReleaseCountSilent ==
    /\ pc[Reader] = "count"
    /\ blocks_available' = blocks_available - 1
    /\ mutex' = "free"
    /\ Goto(Reader, "idle")
    /\ UNCHANGED <<read_index, write_index, stopped, buffers, spins, ptr, got>>

ReleaseCount ==
    /\ pc[Reader] = "count"
    /\ blocks_available' = blocks_available - 1
    /\ mutex' = "free"
    /\ Goto(Reader, "notify")
    /\ UNCHANGED <<read_index, write_index, stopped, buffers, spins, ptr, got>>

ReleaseNotify ==
    /\ pc[Reader] = "notify"
    /\ GotoAndWake(Reader, "idle", {Writer})
    /\ UNCHANGED <<ringShared, mutex, buffers, spins, ptr, got>>

ReleaseReadBlock == ReleaseIndex \/ ReleaseCount \/ ReleaseNotify

-----------------------------------------------------------------------------
(* The controller.                                                         *)

\* Every user of the class joins (or has not yet created) the threads at
\* both ends before it calls Start: fft_mt_r2iq::TurnOn runs before
\* fx3->StartStream and before the submit thread exists.
EndpointsIdle == \A e \in Endpoints : pc[e] = "idle"

Start ==
    /\ pc[Controller] = "idle"
    /\ mutex = "free"
    /\ EndpointsIdle
    /\ read_index' = 0
    /\ write_index' = 0
    /\ blocks_available' = 0
    /\ stopped' = FALSE
    /\ UNCHANGED <<mutex, buffers, pc, spins, ptr, got>>

StopSet ==
    /\ pc[Controller] = "idle"
    /\ mutex = "free"
    /\ mutex' = Controller
    /\ stopped' = TRUE
    /\ Goto(Controller, "notify")
    /\ UNCHANGED <<read_index, write_index, blocks_available, buffers, spins, ptr, got>>

\* Mutant: Stop notifies nonfullCV only.
StopNotifyWriters ==
    /\ pc[Controller] = "notify"
    /\ GotoAndWake(Controller, "idle", {Writer})
    /\ mutex' = "free"
    /\ UNCHANGED <<ringShared, buffers, spins, ptr, got>>

StopNotify ==
    /\ pc[Controller] = "notify"
    /\ GotoAndWake(Controller, "idle", Endpoints)
    /\ mutex' = "free"
    /\ UNCHANGED <<ringShared, buffers, spins, ptr, got>>

Stop == StopSet \/ StopNotify

-----------------------------------------------------------------------------
\* What a thread does on its own once it is inside a call or owns a block.
WriterSteps == AcquireWriteBlock \/ Fill \/ CommitWriteBlock
ReaderSteps == AcquireReadBlock \/ Look \/ ReleaseReadBlock

Next ==
    \/ \E e \in Endpoints : Call(e) \/ SpuriousWake(e)
    \/ WriterSteps
    \/ ReaderSteps
    \/ Abandon
    \/ Start
    \/ Stop

Spec == Init /\ [][Next]_vars

\* A thread inside a call is scheduled and takes the mutex when it is free
\* again and again; nobody has to call, to stop or to start.
FairSpec ==
    /\ Spec
    /\ WF_vars(SpinStopped(Writer)) /\ WF_vars(SpinStopped(Reader))
    /\ WF_vars(SpinTest(Writer)) /\ WF_vars(SpinTest(Reader))
    /\ SF_vars(LockAndWait(Writer)) /\ SF_vars(LockAndWait(Reader))
    /\ WF_vars(Fill) /\ WF_vars(Look)
    /\ SF_vars(CommitIndex) /\ SF_vars(ReleaseIndex)
    /\ WF_vars(CommitCount) /\ WF_vars(ReleaseCount)
    /\ WF_vars(CommitNotify) /\ WF_vars(ReleaseNotify)
    /\ WF_vars(StopNotify)

-----------------------------------------------------------------------------
Owns(e) == pc[e] \in {"holding", "used"}

\* Type invariant.
TypeOK ==
    /\ read_index \in Slots
    /\ write_index \in Slots
    /\ blocks_available \in 0 .. MaxCount
    /\ stopped \in BOOLEAN
    /\ mutex \in Threads \cup {"free"}
    /\ buffers \in [Slots -> Data \cup {NoData}]
    /\ pc \in [Threads -> EndpointStates]
    /\ spins \in [Endpoints -> 0 .. SpinCount]
    /\ ptr \in [Endpoints -> Slots]
    /\ got \in Data \cup {NoData}

\* An acquired block belongs to its endpoint until commit or release: the
\* writer and the reader never own the same block, although both work on
\* theirs without the mutex (ringbuffer.h, comment above acquireWriteBlock).
ExclusiveBlocks ==
    Owns(Writer) /\ Owns(Reader) => ptr[Writer] # ptr[Reader]

\* No wakeup is lost between a waiter that found nothing to do and the
\* other side's change: an endpoint sleeps only while its predicate is
\* false, or while the thread that made it true has yet to notify.
NoMissedSignal ==
    /\ pc[Reader] = "asleep" =>
          \/ blocks_available = 0 /\ ~stopped
          \/ pc[Writer] = "notify"
          \/ pc[Controller] = "notify"
    /\ pc[Writer] = "asleep" =>
          \/ blocks_available = MaxCount /\ ~stopped
          \/ pc[Reader] = "notify"
          \/ pc[Controller] = "notify"

\* The ring is a FIFO that loses, repeats and reorders nothing and takes
\* nothing once stopped.  A block enters the queue when the count is
\* raised and leaves it when the read index moves.
SlotAt(i, k) == (i + k) % MaxCount  \* the k-th slot after slot i

CommittedBlocks ==
    [i \in 1 .. (IF pc[Reader] = "count" THEN blocks_available - 1
                                         ELSE blocks_available) |->
        buffers[SlotAt(read_index, i - 1)]]

Fifo == INSTANCE SampleQueue WITH
            queue <- CommittedBlocks, open <- ~stopped, look <- got,
            Capacity <- MaxCount

RefinesFifo == Fifo!QSpec

InAcquire(e) == pc[e] \in {"spin", "test", "lock", "asleep"}

\* Stop releases a thread from an acquire, whether it spins, waits for the
\* mutex or sleeps (test StopUnblocksReader).
StopUnblocks == \A e \in Endpoints : (stopped /\ InAcquire(e)) ~> ~InAcquire(e)

\* A reader blocked on the ring does get a committed block, and a writer
\* blocked on it does get a released one.
ReadyUnblocks == \A e \in Endpoints : (InAcquire(e) /\ Ready(e)) ~> ~InAcquire(e)
=============================================================================
