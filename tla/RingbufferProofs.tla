-------------------------- MODULE RingbufferProofs --------------------------
(***************************************************************************)
(* Safety of Ringbuffer for every number of blocks, every spin count and   *)
(* every set of block contents.  The inductive invariant RingInv adds to   *)
(* the type invariant who holds the mutex in which state, how the two      *)
(* indices and the count relate (also between the two stores of a commit   *)
(* or a release), and that a block handed out is the one at the index of   *)
(* its endpoint while the count leaves room for it.                        *)
(***************************************************************************)
EXTENDS Ringbuffer, SequenceTheorems, TLAPS

\* A mutex is held exactly by the thread inside a critical section.
MutexInv ==
    /\ mutex = Writer <=> pc[Writer] = "count"
    /\ mutex = Reader <=> pc[Reader] = "count"
    /\ mutex = Controller <=> pc[Controller] = "notify"
    /\ pc[Controller] \in {"idle", "notify"}

\* Committed blocks, counting a commit or release under way as done.
Stored ==
    blocks_available + (IF pc[Writer] = "count" THEN 1 ELSE 0)
                     - (IF pc[Reader] = "count" THEN 1 ELSE 0)

IndexInv == write_index = (read_index + Stored) % MaxCount

\* An endpoint that owns a block, or is about to count one, has room for it.
OwnerInv ==
    /\ Owns(Writer) => ptr[Writer] = write_index
    /\ Owns(Reader) => ptr[Reader] = read_index
    /\ Owns(Writer) \/ pc[Writer] = "count" => blocks_available < MaxCount
    /\ Owns(Reader) \/ pc[Reader] = "count" => blocks_available > 0

\* The lock-free loop has an iteration left wherever it is under way.
SpinInv ==
    \A e \in Endpoints : pc[e] \in {"spin", "test"} => spins[e] > 0

RingInv ==
    TypeOK /\ MutexInv /\ IndexInv /\ OwnerInv /\ SpinInv /\ NoMissedSignal

-----------------------------------------------------------------------------
(* The wrap-around arithmetic the indices rest on.                         *)

\* Below twice the modulus, % subtracts it at most once.
LEMMA WrapOnce ==
    ASSUME NEW a \in 0 .. (2 * MaxCount - 1)
    PROVE  a % MaxCount = IF a < MaxCount THEN a ELSE a - MaxCount
  BY MaxCountAssumption

\* An index that moves on stays in the ring.
LEMMA AdvanceInSlots ==
    ASSUME NEW i \in Slots
    PROVE  Advance(i) \in Slots
  BY MaxCountAssumption DEF Slots, Advance

\* The writer's index and the count move on together.
LEMMA AdvanceWriter ==
    ASSUME NEW r \in Slots, NEW n \in 0 .. (MaxCount - 1)
    PROVE  Advance((r + n) % MaxCount) = (r + (n + 1)) % MaxCount
  <1> DEFINE w == (r + n) % MaxCount
  <1>1. w = IF r + n < MaxCount THEN r + n ELSE r + n - MaxCount
    BY WrapOnce, MaxCountAssumption DEF Slots
  <1>2. (r + (n + 1)) % MaxCount =
           IF r + (n + 1) < MaxCount THEN r + (n + 1) ELSE r + (n + 1) - MaxCount
    BY WrapOnce, MaxCountAssumption DEF Slots
  <1>3. (w + 1) % MaxCount = IF w + 1 < MaxCount THEN w + 1 ELSE w + 1 - MaxCount
    BY <1>1, WrapOnce, MaxCountAssumption, SMTT(30) DEF Slots
  <1> HIDE DEF w
  <1>4. (w + 1) % MaxCount = (r + (n + 1)) % MaxCount
    BY <1>1, <1>2, <1>3, MaxCountAssumption DEF Slots
  <1> QED
    BY <1>4 DEF Advance, w

\* The reader's index moves on while the count goes down.
LEMMA AdvanceReader ==
    ASSUME NEW r \in Slots, NEW n \in 1 .. MaxCount
    PROVE  (Advance(r) + (n - 1)) % MaxCount = (r + n) % MaxCount
  <1> DEFINE q == (r + 1) % MaxCount
  <1>1. q = IF r + 1 < MaxCount THEN r + 1 ELSE 0
    BY WrapOnce, MaxCountAssumption DEF Slots
  <1>2. (r + n) % MaxCount = IF r + n < MaxCount THEN r + n ELSE r + n - MaxCount
    BY WrapOnce, MaxCountAssumption DEF Slots
  <1>3. (q + (n - 1)) % MaxCount =
           IF q + (n - 1) < MaxCount THEN q + (n - 1) ELSE q + (n - 1) - MaxCount
    BY <1>1, WrapOnce, MaxCountAssumption, SMTT(30) DEF Slots
  <1> HIDE DEF q
  <1>4. (q + (n - 1)) % MaxCount = (r + n) % MaxCount
    BY <1>1, <1>2, <1>3, MaxCountAssumption DEF Slots
  <1> QED
    BY <1>4 DEF Advance, q

\* Less than a full turn never leads back to the same slot.
LEMMA ApartIsDifferent ==
    ASSUME NEW r \in Slots, NEW n \in 1 .. (MaxCount - 1)
    PROVE  (r + n) % MaxCount # r
  <1>1. (r + n) % MaxCount = IF r + n < MaxCount THEN r + n ELSE r + n - MaxCount
    BY WrapOnce, MaxCountAssumption DEF Slots
  <1> QED
    BY <1>1, MaxCountAssumption DEF Slots

-----------------------------------------------------------------------------
(* RingInv is inductive, one step per action.                              *)

\* Every reachable state of the ring satisfies the inductive invariant: the
\* mutex, the indices, the count and the owners of blocks stay consistent
\* through any interleaving of acquire, commit, release, Start and Stop.
THEOREM RingInvariant == Spec => []RingInv
  <1> USE MaxCountAssumption, SpinCountAssumption, NoDataAssumption
      DEF Writer, Reader, Controller, Endpoints, Threads, Slots, EndpointStates,
          ringShared, Owns
  <1>0. /\ 0 \in Slots /\ 0 \in 0 .. MaxCount /\ 0 \in 0 .. SpinCount
        /\ 0 % MaxCount = 0
    BY WrapOnce
  <1>1. Init => RingInv
    <2> SUFFICES ASSUME Init PROVE RingInv
      OBVIOUS
    <2>1. TypeOK
      BY <1>0 DEF Init, TypeOK
    <2>2. IndexInv
      BY <1>0 DEF Init, IndexInv, Stored
    <2>3. MutexInv /\ OwnerInv /\ SpinInv /\ NoMissedSignal
      BY DEF Init, MutexInv, OwnerInv, SpinInv, NoMissedSignal
    <2> QED
      BY <2>1, <2>2, <2>3 DEF RingInv
  <1>2. RingInv /\ [Next]_vars => RingInv'
    <2> SUFFICES ASSUME RingInv, [Next]_vars
                 PROVE  RingInv'
      OBVIOUS
    <2> USE DEF RingInv
    <2>1. ASSUME NEW e \in Endpoints, Call(e)
         PROVE  RingInv'
      <3>1. TypeOK'
        BY <2>1 DEF TypeOK, Call, Goto
      <3>2. MutexInv'
        BY <2>1 DEF TypeOK, MutexInv, Call, Goto
      <3>3. IndexInv'
        BY <2>1 DEF TypeOK, MutexInv, IndexInv, Stored, OwnerInv, Call, Goto
      <3>4. OwnerInv'
        BY <2>1 DEF TypeOK, MutexInv, OwnerInv, Call, Goto
      <3>5. SpinInv'
        BY <2>1 DEF TypeOK, SpinInv, Call, Goto
      <3>6. NoMissedSignal'
        BY <2>1 DEF TypeOK, MutexInv, OwnerInv, NoMissedSignal, Call, Goto
      <3> QED
        BY <3>1, <3>2, <3>3, <3>4, <3>5, <3>6
    <2>2. ASSUME NEW e \in Endpoints, SpinStopped(e)
         PROVE  RingInv'
      <3>1. TypeOK'
        BY <2>2 DEF TypeOK, SpinStopped, Goto
      <3>2. MutexInv'
        BY <2>2 DEF TypeOK, MutexInv, SpinStopped, Goto
      <3>3. IndexInv'
        BY <2>2 DEF TypeOK, MutexInv, IndexInv, Stored, OwnerInv, SpinStopped, Goto
      <3>4. OwnerInv'
        BY <2>2 DEF TypeOK, MutexInv, OwnerInv, SpinStopped, Goto
      <3>5. SpinInv'
        BY <2>2 DEF TypeOK, SpinInv, SpinStopped, Goto
      <3>6. NoMissedSignal'
        BY <2>2 DEF TypeOK, MutexInv, OwnerInv, NoMissedSignal, SpinStopped, Goto
      <3> QED
        BY <3>1, <3>2, <3>3, <3>4, <3>5, <3>6
    <2>3. ASSUME NEW e \in Endpoints, SpinTest(e)
         PROVE  RingInv'
      <3>1. TypeOK'
        BY <2>3 DEF TypeOK, SpinInv, OwnerInv, SpinTest, Goto, Ready, IndexOf
      <3>2. MutexInv'
        BY <2>3 DEF TypeOK, MutexInv, SpinTest, Goto, Ready, IndexOf
      <3>3. IndexInv'
        BY <2>3 DEF TypeOK, MutexInv, IndexInv, Stored, OwnerInv, SpinTest, Goto, Ready, IndexOf
      <3>4. OwnerInv'
        BY <2>3 DEF TypeOK, MutexInv, OwnerInv, SpinTest, Goto, Ready, IndexOf
      <3>5. SpinInv'
        BY <2>3 DEF TypeOK, SpinInv, SpinTest, Goto, Ready, IndexOf
      <3>6. NoMissedSignal'
        BY <2>3 DEF TypeOK, MutexInv, OwnerInv, NoMissedSignal, SpinTest, Goto, Ready, IndexOf
      <3> QED
        BY <3>1, <3>2, <3>3, <3>4, <3>5, <3>6
    <2>4. ASSUME NEW e \in Endpoints, LockAndWait(e)
         PROVE  RingInv'
      <3>1. TypeOK'
        BY <2>4 DEF TypeOK, LockAndWait, Goto, Ready, IndexOf
      <3>2. MutexInv'
        BY <2>4 DEF TypeOK, MutexInv, LockAndWait, Goto, Ready, IndexOf
      <3>3. IndexInv'
        BY <2>4 DEF TypeOK, MutexInv, IndexInv, Stored, OwnerInv, LockAndWait, Goto, Ready, IndexOf
      <3>4. OwnerInv'
        BY <2>4 DEF TypeOK, MutexInv, OwnerInv, LockAndWait, Goto, Ready, IndexOf
      <3>5. SpinInv'
        BY <2>4 DEF TypeOK, SpinInv, LockAndWait, Goto, Ready, IndexOf
      <3>6. NoMissedSignal'
        BY <2>4 DEF TypeOK, MutexInv, OwnerInv, NoMissedSignal, LockAndWait, Goto, Ready, IndexOf
      <3> QED
        BY <3>1, <3>2, <3>3, <3>4, <3>5, <3>6
    <2>5. ASSUME NEW e \in Endpoints, SpuriousWake(e)
         PROVE  RingInv'
      <3>1. TypeOK'
        BY <2>5 DEF TypeOK, SpuriousWake, Goto
      <3>2. MutexInv'
        BY <2>5 DEF TypeOK, MutexInv, SpuriousWake, Goto
      <3>3. IndexInv'
        BY <2>5 DEF TypeOK, MutexInv, IndexInv, Stored, OwnerInv, SpuriousWake, Goto
      <3>4. OwnerInv'
        BY <2>5 DEF TypeOK, MutexInv, OwnerInv, SpuriousWake, Goto
      <3>5. SpinInv'
        BY <2>5 DEF TypeOK, SpinInv, SpuriousWake, Goto
      <3>6. NoMissedSignal'
        BY <2>5 DEF TypeOK, MutexInv, OwnerInv, NoMissedSignal, SpuriousWake, Goto
      <3> QED
        BY <3>1, <3>2, <3>3, <3>4, <3>5, <3>6
    <2>6. ASSUME Fill
         PROVE  RingInv'
      <3>1. TypeOK'
        BY <2>6 DEF TypeOK, Fill, Goto
      <3>2. MutexInv'
        BY <2>6 DEF TypeOK, MutexInv, Fill, Goto
      <3>3. IndexInv'
        BY <2>6 DEF TypeOK, MutexInv, IndexInv, Stored, OwnerInv, Fill, Goto
      <3>4. OwnerInv'
        BY <2>6 DEF TypeOK, MutexInv, OwnerInv, Fill, Goto
      <3>5. SpinInv'
        BY <2>6 DEF TypeOK, SpinInv, Fill, Goto
      <3>6. NoMissedSignal'
        BY <2>6 DEF TypeOK, MutexInv, OwnerInv, NoMissedSignal, Fill, Goto
      <3> QED
        BY <3>1, <3>2, <3>3, <3>4, <3>5, <3>6
    <2>7. ASSUME Abandon
         PROVE  RingInv'
      <3>1. TypeOK'
        BY <2>7 DEF TypeOK, Abandon, Goto
      <3>2. MutexInv'
        BY <2>7 DEF TypeOK, MutexInv, Abandon, Goto
      <3>3. IndexInv'
        BY <2>7 DEF TypeOK, MutexInv, IndexInv, Stored, OwnerInv, Abandon, Goto
      <3>4. OwnerInv'
        BY <2>7 DEF TypeOK, MutexInv, OwnerInv, Abandon, Goto
      <3>5. SpinInv'
        BY <2>7 DEF TypeOK, SpinInv, Abandon, Goto
      <3>6. NoMissedSignal'
        BY <2>7 DEF TypeOK, MutexInv, OwnerInv, NoMissedSignal, Abandon, Goto
      <3> QED
        BY <3>1, <3>2, <3>3, <3>4, <3>5, <3>6
    <2>8. ASSUME Look
         PROVE  RingInv'
      <3>1. TypeOK'
        BY <2>8 DEF TypeOK, Look, Goto
      <3>2. MutexInv'
        BY <2>8 DEF TypeOK, MutexInv, Look, Goto
      <3>3. IndexInv'
        BY <2>8 DEF TypeOK, MutexInv, IndexInv, Stored, OwnerInv, Look, Goto
      <3>4. OwnerInv'
        BY <2>8 DEF TypeOK, MutexInv, OwnerInv, Look, Goto
      <3>5. SpinInv'
        BY <2>8 DEF TypeOK, SpinInv, Look, Goto
      <3>6. NoMissedSignal'
        BY <2>8 DEF TypeOK, MutexInv, OwnerInv, NoMissedSignal, Look, Goto
      <3> QED
        BY <3>1, <3>2, <3>3, <3>4, <3>5, <3>6
    <2>9. ASSUME CommitIndex
         PROVE  RingInv'
      <3>1. TypeOK'
        BY <2>9, AdvanceInSlots, ZenonT(60) DEF TypeOK, CommitIndex, Goto
      <3>2. MutexInv'
        BY <2>9 DEF TypeOK, MutexInv, CommitIndex, Goto
      <3>3. IndexInv'
        <4>1. CASE stopped
          BY <2>9, <4>1 DEF TypeOK, IndexInv, Stored, CommitIndex, Goto
        <4>2. CASE ~stopped
          <5>1. /\ write_index = (read_index + blocks_available) % MaxCount
                /\ blocks_available \in 0 .. (MaxCount - 1)
            BY <2>9, <4>2 DEF TypeOK, MutexInv, IndexInv, Stored, OwnerInv, CommitIndex
          <5>2. /\ write_index' = Advance(write_index)
                /\ read_index' = read_index
                /\ Stored' = blocks_available + 1
            BY <2>9, <4>2 DEF TypeOK, MutexInv, Stored, CommitIndex, Goto
          <5> QED
            BY <5>1, <5>2, AdvanceWriter DEF TypeOK, IndexInv
        <4> QED
          BY <4>1, <4>2
      <3>4. OwnerInv'
        BY <2>9 DEF TypeOK, MutexInv, OwnerInv, CommitIndex, Goto
      <3>5. SpinInv'
        BY <2>9 DEF TypeOK, SpinInv, CommitIndex, Goto
      <3>6. NoMissedSignal'
        BY <2>9 DEF TypeOK, MutexInv, OwnerInv, NoMissedSignal, CommitIndex, Goto
      <3> QED
        BY <3>1, <3>2, <3>3, <3>4, <3>5, <3>6
    <2>10. ASSUME CommitCount
         PROVE  RingInv'
      <3>1. TypeOK'
        BY <2>10 DEF TypeOK, SpinInv, OwnerInv, CommitCount, Goto
      <3>2. MutexInv'
        BY <2>10 DEF TypeOK, MutexInv, CommitCount, Goto
      <3>3. IndexInv'
        BY <2>10 DEF TypeOK, MutexInv, IndexInv, Stored, OwnerInv, CommitCount, Goto
      <3>4. OwnerInv'
        BY <2>10 DEF TypeOK, MutexInv, OwnerInv, CommitCount, Goto
      <3>5. SpinInv'
        BY <2>10 DEF TypeOK, SpinInv, CommitCount, Goto
      <3>6. NoMissedSignal'
        BY <2>10 DEF TypeOK, MutexInv, OwnerInv, NoMissedSignal, CommitCount, Goto
      <3> QED
        BY <3>1, <3>2, <3>3, <3>4, <3>5, <3>6
    <2>11. ASSUME CommitNotify
         PROVE  RingInv'
      <3>1. TypeOK'
        BY <2>11 DEF TypeOK, CommitNotify, GotoAndWake
      <3>2. MutexInv'
        BY <2>11 DEF TypeOK, MutexInv, CommitNotify, GotoAndWake
      <3>3. IndexInv'
        BY <2>11 DEF TypeOK, MutexInv, IndexInv, Stored, OwnerInv, CommitNotify, GotoAndWake
      <3>4. OwnerInv'
        BY <2>11 DEF TypeOK, MutexInv, OwnerInv, CommitNotify, GotoAndWake
      <3>5. SpinInv'
        BY <2>11 DEF TypeOK, SpinInv, CommitNotify, GotoAndWake
      <3>6. NoMissedSignal'
        BY <2>11 DEF TypeOK, MutexInv, OwnerInv, NoMissedSignal, CommitNotify, GotoAndWake
      <3> QED
        BY <3>1, <3>2, <3>3, <3>4, <3>5, <3>6
    <2>12. ASSUME ReleaseIndex
         PROVE  RingInv'
      <3>1. TypeOK'
        BY <2>12, AdvanceInSlots, ZenonT(60) DEF TypeOK, ReleaseIndex, Goto
      <3>2. MutexInv'
        BY <2>12 DEF TypeOK, MutexInv, ReleaseIndex, Goto
      <3>3. IndexInv'
        <4>1. CASE blocks_available = 0
          BY <2>12, <4>1 DEF TypeOK, IndexInv, Stored, ReleaseIndex, Goto
        <4>2. CASE blocks_available # 0
          <5>1. PICK n \in 1 .. MaxCount :
                   /\ n = Stored
                   /\ write_index = (read_index + n) % MaxCount
            BY <2>12, <4>2 DEF TypeOK, MutexInv, IndexInv, Stored, OwnerInv, ReleaseIndex
          <5>2. /\ read_index' = Advance(read_index)
                /\ write_index' = write_index
                /\ Stored' = n - 1
            BY <2>12, <4>2, <5>1 DEF TypeOK, MutexInv, Stored, ReleaseIndex, Goto
          <5> QED
            BY <5>1, <5>2, AdvanceReader DEF TypeOK, IndexInv
        <4> QED
          BY <4>1, <4>2
      <3>4. OwnerInv'
        BY <2>12 DEF TypeOK, MutexInv, OwnerInv, ReleaseIndex, Goto
      <3>5. SpinInv'
        BY <2>12 DEF TypeOK, SpinInv, ReleaseIndex, Goto
      <3>6. NoMissedSignal'
        BY <2>12 DEF TypeOK, MutexInv, OwnerInv, NoMissedSignal, ReleaseIndex, Goto
      <3> QED
        BY <3>1, <3>2, <3>3, <3>4, <3>5, <3>6
    <2>13. ASSUME ReleaseCount
         PROVE  RingInv'
      <3>1. TypeOK'
        BY <2>13 DEF TypeOK, SpinInv, OwnerInv, ReleaseCount, Goto
      <3>2. MutexInv'
        BY <2>13 DEF TypeOK, MutexInv, ReleaseCount, Goto
      <3>3. IndexInv'
        BY <2>13 DEF TypeOK, MutexInv, IndexInv, Stored, OwnerInv, ReleaseCount, Goto
      <3>4. OwnerInv'
        BY <2>13 DEF TypeOK, MutexInv, OwnerInv, ReleaseCount, Goto
      <3>5. SpinInv'
        BY <2>13 DEF TypeOK, SpinInv, ReleaseCount, Goto
      <3>6. NoMissedSignal'
        BY <2>13 DEF TypeOK, MutexInv, OwnerInv, NoMissedSignal, ReleaseCount, Goto
      <3> QED
        BY <3>1, <3>2, <3>3, <3>4, <3>5, <3>6
    <2>14. ASSUME ReleaseNotify
         PROVE  RingInv'
      <3>1. TypeOK'
        BY <2>14 DEF TypeOK, ReleaseNotify, GotoAndWake
      <3>2. MutexInv'
        BY <2>14 DEF TypeOK, MutexInv, ReleaseNotify, GotoAndWake
      <3>3. IndexInv'
        BY <2>14 DEF TypeOK, MutexInv, IndexInv, Stored, OwnerInv, ReleaseNotify, GotoAndWake
      <3>4. OwnerInv'
        BY <2>14 DEF TypeOK, MutexInv, OwnerInv, ReleaseNotify, GotoAndWake
      <3>5. SpinInv'
        BY <2>14 DEF TypeOK, SpinInv, ReleaseNotify, GotoAndWake
      <3>6. NoMissedSignal'
        BY <2>14 DEF TypeOK, MutexInv, OwnerInv, NoMissedSignal, ReleaseNotify, GotoAndWake
      <3> QED
        BY <3>1, <3>2, <3>3, <3>4, <3>5, <3>6
    <2>15. ASSUME Start
         PROVE  RingInv'
      <3>1. TypeOK'
        BY <2>15, <1>0 DEF TypeOK, Start
      <3>2. MutexInv'
        BY <2>15 DEF TypeOK, MutexInv, Start, EndpointsIdle
      <3>3. IndexInv'
        BY <2>15, <1>0 DEF IndexInv, Stored, Start, EndpointsIdle
      <3>4. OwnerInv'
        BY <2>15 DEF TypeOK, MutexInv, OwnerInv, Start, EndpointsIdle
      <3>5. SpinInv'
        BY <2>15 DEF TypeOK, SpinInv, Start, EndpointsIdle
      <3>6. NoMissedSignal'
        BY <2>15 DEF TypeOK, MutexInv, OwnerInv, NoMissedSignal, Start, EndpointsIdle
      <3> QED
        BY <3>1, <3>2, <3>3, <3>4, <3>5, <3>6
    <2>16. ASSUME StopSet
         PROVE  RingInv'
      <3>1. TypeOK'
        BY <2>16 DEF TypeOK, StopSet, Goto
      <3>2. MutexInv'
        BY <2>16 DEF TypeOK, MutexInv, StopSet, Goto
      <3>3. IndexInv'
        BY <2>16 DEF TypeOK, MutexInv, IndexInv, Stored, OwnerInv, StopSet, Goto
      <3>4. OwnerInv'
        BY <2>16 DEF TypeOK, MutexInv, OwnerInv, StopSet, Goto
      <3>5. SpinInv'
        BY <2>16 DEF TypeOK, SpinInv, StopSet, Goto
      <3>6. NoMissedSignal'
        BY <2>16 DEF TypeOK, MutexInv, OwnerInv, NoMissedSignal, StopSet, Goto
      <3> QED
        BY <3>1, <3>2, <3>3, <3>4, <3>5, <3>6
    <2>17. ASSUME StopNotify
         PROVE  RingInv'
      <3>1. TypeOK'
        BY <2>17 DEF TypeOK, StopNotify, GotoAndWake
      <3>2. MutexInv'
        BY <2>17 DEF TypeOK, MutexInv, StopNotify, GotoAndWake
      <3>3. IndexInv'
        BY <2>17 DEF TypeOK, MutexInv, IndexInv, Stored, OwnerInv, StopNotify, GotoAndWake
      <3>4. OwnerInv'
        BY <2>17 DEF TypeOK, MutexInv, OwnerInv, StopNotify, GotoAndWake
      <3>5. SpinInv'
        BY <2>17 DEF TypeOK, SpinInv, StopNotify, GotoAndWake
      <3>6. NoMissedSignal'
        BY <2>17 DEF TypeOK, MutexInv, OwnerInv, NoMissedSignal, StopNotify, GotoAndWake
      <3> QED
        BY <3>1, <3>2, <3>3, <3>4, <3>5, <3>6
    <2>18. CASE UNCHANGED vars
      BY <2>18 DEF vars, TypeOK, MutexInv, IndexInv, Stored, OwnerInv, SpinInv,
                     NoMissedSignal
    <2> QED
      BY <2>1, <2>2, <2>3, <2>4, <2>5, <2>6, <2>7, <2>8, <2>9, <2>10, <2>11, <2>12, <2>13, <2>14, <2>15, <2>16, <2>17, <2>18
      DEF Next, WriterSteps, ReaderSteps, AcquireWriteBlock, AcquireReadBlock,
          CommitWriteBlock, ReleaseReadBlock, Stop
  <1> QED
    BY <1>1, <1>2, PTL DEF Spec

\* The variables of the ring keep their types; in particular both indices
\* stay inside `buffers` and the count never exceeds max_count or wraps
\* below zero (it is an unsigned size_t in the code).
THEOREM TypeCorrect == Spec => []TypeOK
  <1>1. RingInv => TypeOK
    BY DEF RingInv
  <1> QED
    BY <1>1, RingInvariant, PTL

\* The writer and the reader never own the same block, the promise in the
\* comment above acquireWriteBlock, for every max_count.
THEOREM BlocksAreExclusive == Spec => []ExclusiveBlocks
  <1>1. RingInv => ExclusiveBlocks
    <2> SUFFICES ASSUME RingInv, Owns(Writer), Owns(Reader)
                 PROVE  ptr[Writer] # ptr[Reader]
      BY DEF ExclusiveBlocks
    <2>1. /\ pc[Writer] # "count" /\ pc[Reader] # "count"
          /\ blocks_available \in 1 .. (MaxCount - 1)
      BY MaxCountAssumption DEF RingInv, TypeOK, OwnerInv, Owns
    <2>2. write_index = (read_index + blocks_available) % MaxCount
      BY <2>1 DEF RingInv, TypeOK, IndexInv, Stored
    <2>3. write_index # read_index
      BY <2>1, <2>2, ApartIsDifferent DEF RingInv, TypeOK
    <2> QED
      BY <2>3 DEF RingInv, OwnerInv
  <1> QED
    BY <1>1, RingInvariant, PTL

\* No wakeup is lost: an endpoint asleep on its condition variable has
\* nothing to do, or its notification is under way.
THEOREM SignalsAreNotMissed == Spec => []NoMissedSignal
  <1>1. RingInv => NoMissedSignal
    BY DEF RingInv
  <1> QED
    BY <1>1, RingInvariant, PTL

-----------------------------------------------------------------------------
(* The ring implements the FIFO of module SampleQueue: each step of        *)
(* Ringbuffer is a step of SampleQueue, or leaves its variables alone,     *)
(* under the mapping of Ringbuffer (CommittedBlocks, ~stopped, got).       *)

\* The contents of n blocks from index r on.
Window(f, r, n) == [i \in 1 .. n |-> f[SlotAt(r, i - 1)]]

Contents == Data \cup {NoData}

\* The k-th slot after r, without the modulus.
LEMMA SlotAtIs ==
    ASSUME NEW r \in Slots, NEW k \in 0 .. MaxCount
    PROVE  /\ SlotAt(r, k) = IF r + k < MaxCount THEN r + k ELSE r + k - MaxCount
           /\ SlotAt(r, k) \in Slots
  <1>1. r + k \in 0 .. (2 * MaxCount - 1)
    BY MaxCountAssumption DEF Slots
  <1>2. SlotAt(r, k) = IF r + k < MaxCount THEN r + k ELSE r + k - MaxCount
    <2>1. (r + k) % MaxCount = IF r + k < MaxCount THEN r + k ELSE r + k - MaxCount
      BY <1>1, WrapOnce, MaxCountAssumption DEF Slots
    <2> QED
      BY <2>1, Zenon DEF SlotAt
  <1> QED
    BY <1>2, MaxCountAssumption DEF Slots

\* To move on is to go to the first slot after this one.
LEMMA AdvanceIs ==
    ASSUME NEW r \in Slots
    PROVE  Advance(r) = SlotAt(r, 1)
  BY DEF Advance, SlotAt

\* Counting from the next slot on is counting one further from this one.
LEMMA SlotAfterAdvance ==
    ASSUME NEW r \in Slots, NEW k \in 0 .. (MaxCount - 1)
    PROVE  SlotAt(Advance(r), k) = SlotAt(r, k + 1)
  <1>1. Advance(r) \in Slots
    BY AdvanceInSlots
  <1>2. Advance(r) = IF r + 1 < MaxCount THEN r + 1 ELSE r + 1 - MaxCount
    BY AdvanceIs, SlotAtIs, MaxCountAssumption
  <1>3. SlotAt(Advance(r), k) = IF Advance(r) + k < MaxCount
                                THEN Advance(r) + k ELSE Advance(r) + k - MaxCount
    BY <1>1, SlotAtIs, MaxCountAssumption
  <1>4. SlotAt(r, k + 1) = IF r + (k + 1) < MaxCount
                           THEN r + (k + 1) ELSE r + (k + 1) - MaxCount
    BY SlotAtIs, MaxCountAssumption
  <1> QED
    BY <1>2, <1>3, <1>4, MaxCountAssumption DEF Slots

\* A window is a sequence of its n contents.
LEMMA WindowIsSeq ==
    ASSUME NEW f \in [Slots -> Contents], NEW r \in Slots, NEW n \in 0 .. MaxCount
    PROVE  /\ Window(f, r, n) \in Seq(Contents)
           /\ Len(Window(f, r, n)) = n
           /\ \A i \in 1 .. n : Window(f, r, n)[i] = f[SlotAt(r, i - 1)]
  <1>1. ASSUME NEW i \in 1 .. n
        PROVE  SlotAt(r, i - 1) \in Slots
    BY SlotAtIs, MaxCountAssumption
  <1>2. n \in Nat /\ Window(f, r, n) \in [1 .. n -> Contents]
    BY <1>1, MaxCountAssumption DEF Window
  <1>3. Window(f, r, n) \in Seq(Contents)
    BY <1>2, SeqDef
  <1> QED
    BY <1>2, <1>3, LenProperties DEF Window

\* A window that grows gets the content of the slot after it at its end.
LEMMA WindowAppend ==
    ASSUME NEW f \in [Slots -> Contents], NEW r \in Slots, NEW n \in 0 .. (MaxCount - 1)
    PROVE  Window(f, r, n + 1) = Append(Window(f, r, n), f[SlotAt(r, n)])
  <1> DEFINE s == Window(f, r, n)
             t == Window(f, r, n + 1)
             x == f[SlotAt(r, n)]
  <1>1. n \in 0 .. MaxCount /\ n + 1 \in 0 .. MaxCount /\ (n + 1) - 1 = n
    BY MaxCountAssumption
  <1>2. /\ s \in Seq(Contents) /\ Len(s) = n
        /\ \A i \in 1 .. n : s[i] = f[SlotAt(r, i - 1)]
    BY <1>1, WindowIsSeq
  <1>3. /\ t \in Seq(Contents) /\ Len(t) = n + 1
        /\ \A i \in 1 .. (n + 1) : t[i] = f[SlotAt(r, i - 1)]
    BY <1>1, WindowIsSeq
  <1>4. t[n + 1] = x
    BY <1>1, <1>3
  <1>5. x \in Contents
    BY <1>1, SlotAtIs
  <1> HIDE DEF s, t, x
  <1>6. /\ Append(s, x) \in Seq(Contents)
        /\ Len(Append(s, x)) = n + 1
        /\ \A i \in 1 .. n : Append(s, x)[i] = s[i]
        /\ Append(s, x)[n + 1] = x
    BY <1>2, <1>5, AppendProperties
  <1>7. \A i \in 1 .. (n + 1) : t[i] = Append(s, x)[i]
    BY <1>2, <1>3, <1>4, <1>6, SMTT(30)
  <1>8. t = Append(s, x)
    BY <1>3, <1>6, <1>7, SeqEqual
  <1> QED
    BY <1>8 DEF s, t, x

\* A window starts with the content of its index, and without it is the
\* window from the next index on.
LEMMA WindowHeadTail ==
    ASSUME NEW f \in [Slots -> Contents], NEW r \in Slots, NEW n \in 1 .. MaxCount
    PROVE  /\ Window(f, r, n) # <<>>
           /\ Head(Window(f, r, n)) = f[r]
           /\ Tail(Window(f, r, n)) = Window(f, Advance(r), n - 1)
  <1> DEFINE s == Window(f, r, n)
             t == Window(f, Advance(r), n - 1)
  <1>1. n \in 0 .. MaxCount /\ n - 1 \in 0 .. MaxCount /\ Advance(r) \in Slots
    BY AdvanceInSlots, MaxCountAssumption
  <1>2. /\ s \in Seq(Contents) /\ Len(s) = n
        /\ \A i \in 1 .. n : s[i] = f[SlotAt(r, i - 1)]
    BY <1>1, WindowIsSeq
  <1>3. /\ t \in Seq(Contents) /\ Len(t) = n - 1
        /\ \A i \in 1 .. (n - 1) : t[i] = f[SlotAt(Advance(r), i - 1)]
    BY <1>1, WindowIsSeq
  <1>4. s # <<>>
    BY <1>2, EmptySeq
  <1>5. SlotAt(r, 0) = r
    BY SlotAtIs, MaxCountAssumption DEF Slots
  <1>6. s[1] = f[r]
    BY <1>2, <1>5
  <1>7. ASSUME NEW i \in 1 .. (n - 1)
        PROVE  t[i] = s[i + 1]
    <2>1. i - 1 \in 0 .. (MaxCount - 1) /\ i + 1 \in 1 .. n
      BY MaxCountAssumption
    <2>2. SlotAt(Advance(r), i - 1) = SlotAt(r, (i + 1) - 1)
      BY <2>1, SlotAfterAdvance
    <2> HIDE DEF s, t
    <2> QED
      BY <1>2, <1>3, <2>1, <2>2
  <1> HIDE DEF s, t
  <1>8. /\ Head(s) = s[1] /\ Tail(s) \in Seq(Contents) /\ Len(Tail(s)) = n - 1
        /\ \A i \in 1 .. (n - 1) : Tail(s)[i] = s[i + 1]
    BY <1>2, <1>4, HeadTailProperties
  <1>9. Tail(s) = t
    BY <1>3, <1>7, <1>8, SeqEqual
  <1> QED
    BY <1>4, <1>6, <1>8, <1>9 DEF s, t

\* The slot after a window that does not fill the ring is not in it.
LEMMA WindowIgnoresNext ==
    ASSUME NEW f \in [Slots -> Contents], NEW r \in Slots, NEW n \in 0 .. (MaxCount - 1),
           NEW d
    PROVE  Window([f EXCEPT ![SlotAt(r, n)] = d], r, n) = Window(f, r, n)
  <1>1. ASSUME NEW i \in 1 .. n
        PROVE  SlotAt(r, i - 1) # SlotAt(r, n) /\ SlotAt(r, i - 1) \in Slots
    <2>1. i - 1 \in 0 .. MaxCount /\ n \in 0 .. MaxCount
      BY MaxCountAssumption
    <2>2. /\ SlotAt(r, i - 1) =
                IF r + (i - 1) < MaxCount THEN r + (i - 1) ELSE r + (i - 1) - MaxCount
          /\ SlotAt(r, n) = IF r + n < MaxCount THEN r + n ELSE r + n - MaxCount
          /\ SlotAt(r, i - 1) \in Slots
      BY <2>1, SlotAtIs
    <2> QED
      BY <2>2, MaxCountAssumption DEF Slots
  <1> QED
    BY <1>1 DEF Window

-----------------------------------------------------------------------------
(* What the mapping needs beyond RingInv: a block about to be committed    *)
(* holds data, and the reader's copy is the oldest committed block.        *)

FifoInv ==
    /\ pc[Writer] \in {"used", "count"} => buffers[ptr[Writer]] \in Data
    /\ pc[Writer] = "count" => /\ ptr[Writer] = SlotAt(read_index, blocks_available)
                                /\ ~stopped
    /\ pc[Reader] = "used" => got = buffers[read_index]
    /\ pc[Reader] # "used" => got = NoData

QueueLength == IF pc[Reader] = "count" THEN blocks_available - 1 ELSE blocks_available

\* The writer's block is the first one after the committed blocks.
LEMMA WriterBlock ==
    ASSUME RingInv
    PROVE  /\ QueueLength \in 0 .. MaxCount
           /\ CommittedBlocks = Window(buffers, read_index, QueueLength)
           /\ buffers \in [Slots -> Contents] /\ read_index \in Slots
           /\ Owns(Writer) => /\ QueueLength \in 0 .. (MaxCount - 1)
                              /\ ptr[Writer] = SlotAt(read_index, QueueLength)
  <1>1. QueueLength \in 0 .. MaxCount
    BY MaxCountAssumption DEF RingInv, TypeOK, OwnerInv, QueueLength
  <1>2. CommittedBlocks = Window(buffers, read_index, QueueLength)
    BY DEF CommittedBlocks, Window, QueueLength
  <1>3. ASSUME Owns(Writer)
        PROVE  /\ QueueLength \in 0 .. (MaxCount - 1)
               /\ ptr[Writer] = SlotAt(read_index, QueueLength)
    <2>1. blocks_available < MaxCount /\ pc[Writer] # "count"
      BY <1>3 DEF RingInv, OwnerInv, Owns
    <2>2. Stored = QueueLength
      BY <2>1 DEF RingInv, TypeOK, Stored, QueueLength
    <2> QED
      BY <1>1, <1>3, <2>1, <2>2, MaxCountAssumption
      DEF RingInv, TypeOK, IndexInv, OwnerInv, SlotAt, QueueLength
  <1> QED
    BY <1>1, <1>2, <1>3 DEF RingInv, TypeOK, Contents

\* A filled block holds data until it is counted, which happens right after
\* the committed blocks and never on a stopped ring; and what the reader saw
\* in its block is still there when it releases the block.
THEOREM FifoInvariant == Spec => []FifoInv
  <1> USE DEF Writer, Reader, Controller, Endpoints, Threads, ringShared
  <1>1. Init => FifoInv
    BY DEF Init, FifoInv
  <1>2. RingInv /\ RingInv' /\ FifoInv /\ [Next]_vars => FifoInv'
    <2> SUFFICES ASSUME RingInv, RingInv', FifoInv, [Next]_vars
                 PROVE  FifoInv'
      OBVIOUS
    <2> USE DEF FifoInv
    <2>t. TypeOK
      BY DEF RingInv
    <2>1. ASSUME NEW e \in Endpoints,
                 Call(e) \/ SpinStopped(e) \/ SpinTest(e) \/ LockAndWait(e) \/ SpuriousWake(e)
          PROVE  FifoInv'
      BY <2>1, <2>t DEF TypeOK, Call, SpinStopped, SpinTest, LockAndWait, SpuriousWake, Goto
    <2>2. CASE Fill
      <3>1. pc[Reader] = "used" => ptr[Writer] # read_index
        <4>1. ASSUME pc[Reader] = "used"
              PROVE  ptr[Writer] # read_index
          <5>1. /\ Owns(Writer) /\ Owns(Reader)
                /\ blocks_available \in 1 .. (MaxCount - 1)
            BY <2>2, <4>1, MaxCountAssumption DEF Fill, Owns, RingInv, TypeOK, OwnerInv
          <5>2. Stored = blocks_available
            BY <2>2, <4>1 DEF Fill, RingInv, TypeOK, Stored
          <5>3. write_index # read_index
            BY <5>1, <5>2, ApartIsDifferent DEF RingInv, TypeOK, IndexInv
          <5> QED
            BY <5>1, <5>3 DEF RingInv, OwnerInv
        <4> QED
          BY <4>1
      <3>2. buffers'[ptr'[Writer]] \in Data
        BY <2>2, <2>t DEF TypeOK, Fill
      <3>3. pc' = [pc EXCEPT ![Writer] = "used"] /\ UNCHANGED <<read_index, got, ptr>>
        BY <2>2 DEF Fill, Goto
      <3>4. pc[Reader] = "used" => got = buffers'[read_index]
        BY <2>2, <2>t, <3>1 DEF TypeOK, Fill
      <3> QED
        BY <3>2, <3>3, <3>4, <2>t DEF TypeOK
    <2>3. CASE Look
      <3>1. ptr[Reader] = read_index
        BY <2>3 DEF Look, RingInv, OwnerInv, Owns
      <3> QED
        BY <2>3, <2>t, <3>1 DEF TypeOK, Look, Goto
    <2>4. CASE CommitIndex
      <3>1. pc[Writer] = "used" /\ Owns(Writer) /\ pc[Reader] # "count"
        BY <2>4 DEF CommitIndex, Owns, RingInv, MutexInv
      <3>2. ptr[Writer] = SlotAt(read_index, blocks_available)
        BY <3>1, WriterBlock DEF QueueLength
      <3> QED
        BY <2>4, <2>t, <3>1, <3>2 DEF TypeOK, CommitIndex, Goto
    <2>5. CASE CommitCount \/ CommitNotify \/ Abandon
      BY <2>5, <2>t DEF TypeOK, CommitCount, CommitNotify, Abandon, Goto, GotoAndWake
    <2>6. CASE ReleaseIndex
      <3>1. pc[Writer] # "count"
        BY <2>6 DEF ReleaseIndex, RingInv, MutexInv
      <3> QED
        BY <2>6, <2>t, <3>1 DEF TypeOK, ReleaseIndex, Goto
    <2>7. CASE ReleaseCount
      <3>1. pc[Writer] # "count"
        BY <2>7 DEF ReleaseCount, RingInv, MutexInv
      <3> QED
        BY <2>7, <2>t, <3>1 DEF TypeOK, ReleaseCount, Goto
    <2>8. CASE ReleaseNotify \/ Start \/ StopSet \/ StopNotify
      <3>1. StopSet => pc[Writer] # "count"
        BY DEF StopSet, RingInv, MutexInv
      <3> QED
        BY <2>8, <2>t, <3>1 DEF TypeOK, ReleaseNotify, Start, EndpointsIdle, StopSet,
                                StopNotify, Goto, GotoAndWake
    <2>9. CASE UNCHANGED vars
      BY <2>9 DEF vars
    <2> QED
      BY <2>1, <2>2, <2>3, <2>4, <2>5, <2>6, <2>7, <2>8, <2>9
      DEF Next, WriterSteps, ReaderSteps, AcquireWriteBlock, AcquireReadBlock,
          CommitWriteBlock, ReleaseReadBlock, Stop
  <1> QED
    BY <1>1, <1>2, RingInvariant, PTL DEF Spec

-----------------------------------------------------------------------------
(* Each step of the ring under the mapping.                                *)

\* Committed blocks and the queue stay the same when nothing they are made
\* of changes.
LEMMA SameQueue ==
    ASSUME QueueLength' = QueueLength, UNCHANGED <<read_index, buffers>>
    PROVE  CommittedBlocks' = CommittedBlocks
  <1>1. /\ CommittedBlocks = [i \in 1 .. QueueLength |-> buffers[SlotAt(read_index, i - 1)]]
        /\ CommittedBlocks' =
              [i \in 1 .. QueueLength' |-> buffers'[SlotAt(read_index', i - 1)]]
    BY DEF CommittedBlocks, QueueLength, SlotAt
  <1> QED
    BY <1>1

\* The writer fills its block out of the consumer's sight.
LEMMA FillIsHidden ==
    ASSUME RingInv, Fill
    PROVE  CommittedBlocks' = CommittedBlocks
  <1>1. /\ Owns(Writer) /\ read_index' = read_index /\ QueueLength' = QueueLength
    BY DEF Fill, Owns, Goto, ringShared, QueueLength, RingInv, TypeOK, Writer, Reader,
           Threads, Endpoints
  <1>2. PICK d \in Data : buffers' = [buffers EXCEPT ![ptr[Writer]] = d]
    BY DEF Fill
  <1>3. CommittedBlocks' = Window(buffers', read_index', QueueLength')
    BY DEF CommittedBlocks, Window, QueueLength, SlotAt
  <1>4. buffers' = [buffers EXCEPT ![SlotAt(read_index, QueueLength)] = d]
    BY <1>1, <1>2, WriterBlock
  <1>5. Window(buffers', read_index, QueueLength) = Window(buffers, read_index, QueueLength)
    BY <1>1, <1>4, WriterBlock, WindowIgnoresNext
  <1> QED
    BY <1>1, <1>3, <1>5, WriterBlock

\* Raising the count puts the writer's block at the end of the queue.
LEMMA CommitIsPut ==
    ASSUME RingInv, FifoInv, CommitCount
    PROVE  Fifo!Put
  <1> DEFINE d == buffers[ptr[Writer]]
  <1>1. /\ pc[Writer] = "count" /\ pc[Reader] # "count" /\ pc'[Reader] = pc[Reader]
        /\ blocks_available \in 0 .. (MaxCount - 1)
        /\ blocks_available' = blocks_available + 1
        /\ UNCHANGED <<read_index, buffers, stopped, got>>
    BY MaxCountAssumption
    DEF CommitCount, RingInv, TypeOK, MutexInv, OwnerInv, Goto, Writer, Reader, Controller,
        Threads, Endpoints
  <1>2. d \in Data /\ ptr[Writer] = SlotAt(read_index, blocks_available)
    BY <1>1 DEF FifoInv
  <1>3. QueueLength = blocks_available /\ QueueLength' = blocks_available + 1
    BY <1>1 DEF QueueLength
  <1>4. CommittedBlocks' = Window(buffers, read_index, blocks_available + 1)
    BY <1>1 DEF CommittedBlocks, Window, SlotAt
  <1>5. CommittedBlocks = Window(buffers, read_index, blocks_available)
    BY <1>3, WriterBlock
  <1>6. CommittedBlocks' = Append(CommittedBlocks, d)
    BY <1>1, <1>2, <1>4, <1>5, WindowAppend, WriterBlock
  <1>7. Len(CommittedBlocks) < MaxCount
    <2>1. blocks_available \in 0 .. MaxCount /\ blocks_available < MaxCount
      BY <1>1, MaxCountAssumption
    <2>2. Len(Window(buffers, read_index, blocks_available)) = blocks_available
      BY <2>1, WindowIsSeq, WriterBlock
    <2> QED
      BY <1>5, <2>1, <2>2
  <1>8. ~stopped
    BY <1>1 DEF FifoInv
  <1> HIDE DEF d
  <1> QED
    BY <1>1, <1>2, <1>6, <1>7, <1>8 DEF Fifo!Put

\* The reader looks at the oldest committed block.
LEMMA LookIsPeek ==
    ASSUME RingInv, Look
    PROVE  Fifo!Peek
  <1>1. /\ pc[Reader] = "holding" /\ Owns(Reader) /\ QueueLength' = QueueLength
        /\ ptr[Reader] = read_index /\ QueueLength \in 1 .. MaxCount
        /\ UNCHANGED <<read_index, buffers, stopped>>
        /\ got' = buffers[ptr[Reader]]
    BY DEF Look, Owns, Goto, ringShared, QueueLength, RingInv, TypeOK, OwnerInv,
           Writer, Reader, Controller, Threads, Endpoints
  <1>2. CommittedBlocks' = CommittedBlocks
    BY <1>1, SameQueue
  <1>3. CommittedBlocks # <<>> /\ Head(CommittedBlocks) = buffers[read_index]
    BY <1>1, WriterBlock, WindowHeadTail
  <1> QED
    BY <1>1, <1>2, <1>3 DEF Fifo!Peek

\* Moving the read index removes that block.
LEMMA ReleaseIsTake ==
    ASSUME RingInv, FifoInv, ReleaseIndex
    PROVE  Fifo!Take
  <1>1. /\ pc[Reader] = "used" /\ blocks_available \in 1 .. MaxCount
        /\ read_index' = Advance(read_index) /\ got' = NoData
        /\ UNCHANGED <<blocks_available, buffers, stopped>>
        /\ pc'[Reader] = "count"
    BY DEF ReleaseIndex, Owns, Goto, RingInv, TypeOK, OwnerInv, Writer, Reader, Controller,
           Threads, Endpoints
  <1>2. got = buffers[read_index]
    BY <1>1 DEF FifoInv
  <1>3. CommittedBlocks = Window(buffers, read_index, blocks_available)
    BY <1>1, WriterBlock DEF QueueLength
  <1>4. CommittedBlocks' = Window(buffers, Advance(read_index), blocks_available - 1)
    BY <1>1 DEF CommittedBlocks, Window, SlotAt
  <1>5. /\ CommittedBlocks # <<>>
        /\ Head(CommittedBlocks) = buffers[read_index]
        /\ Tail(CommittedBlocks) = CommittedBlocks'
    BY <1>1, <1>3, <1>4, WriterBlock, WindowHeadTail
  <1> QED
    BY <1>1, <1>2, <1>5 DEF Fifo!Take

\* Start empties and reopens the queue.
LEMMA StartIsReopen ==
    ASSUME RingInv, FifoInv, Start
    PROVE  Fifo!Reopen
  <1>1. pc[Reader] = "idle" /\ pc'[Reader] = "idle" /\ blocks_available' = 0
        /\ stopped' = FALSE /\ got' = got
    BY DEF Start, EndpointsIdle, Endpoints, Writer, Reader
  <1>2. CommittedBlocks' = [i \in 1 .. 0 |-> buffers'[SlotAt(read_index', i - 1)]]
    BY <1>1 DEF CommittedBlocks, SlotAt
  <1>3. CommittedBlocks' = <<>>
    BY <1>2
  <1>4. got = NoData
    BY <1>1 DEF FifoInv
  <1> QED
    BY <1>1, <1>3, <1>4 DEF Fifo!Reopen

\* The ring implements the FIFO: whatever the interleaving, the reader sees
\* every committed block once, in order and as it was written, and nothing
\* enters after Stop.
THEOREM RingRefinesFifo == Spec => RefinesFifo
  <1>1. Init => Fifo!QInit
    <2> SUFFICES ASSUME Init PROVE Fifo!QInit
      OBVIOUS
    <2>1. CommittedBlocks = [i \in 1 .. 0 |-> buffers[SlotAt(read_index, i - 1)]]
      BY DEF Init, CommittedBlocks, SlotAt, Threads, Reader
    <2>2. CommittedBlocks = <<>>
      BY <2>1
    <2> QED
      BY <2>2 DEF Init, Fifo!QInit
  <1>2. RingInv /\ FifoInv /\ [Next]_vars => [Fifo!QNext]_(Fifo!qvars)
    <2> SUFFICES ASSUME RingInv, FifoInv, [Next]_vars
                 PROVE  [Fifo!QNext]_(Fifo!qvars)
      OBVIOUS
    <2> USE DEF Writer, Reader, Controller, Endpoints, Threads, ringShared
    <2>0. ASSUME QueueLength' = QueueLength, UNCHANGED <<read_index, buffers, stopped, got>>
          PROVE  UNCHANGED Fifo!qvars
      BY <2>0, SameQueue DEF Fifo!qvars
    <2>t. TypeOK
      BY DEF RingInv
    <2>1. ASSUME NEW e \in Endpoints,
                 Call(e) \/ SpinStopped(e) \/ SpinTest(e) \/ LockAndWait(e) \/ SpuriousWake(e)
          PROVE  UNCHANGED Fifo!qvars
      <3>1. QueueLength' = QueueLength /\ UNCHANGED <<read_index, buffers, stopped, got>>
        BY <2>1, <2>t DEF TypeOK, Call, SpinStopped, SpinTest, LockAndWait, SpuriousWake,
                          Goto, QueueLength
      <3> QED
        BY <3>1, <2>0
    <2>2. CASE Fill
      <3>1. UNCHANGED <<stopped, got>>
        BY <2>2 DEF Fill
      <3> QED
        BY <2>2, <3>1, FillIsHidden DEF Fifo!qvars
    <2>3. CASE Look
      BY <2>3, LookIsPeek DEF Fifo!QNext
    <2>4. CASE CommitCount
      BY <2>4, CommitIsPut DEF Fifo!QNext
    <2>5. CASE ReleaseIndex
      BY <2>5, ReleaseIsTake DEF Fifo!QNext
    <2>6. CASE CommitIndex \/ CommitNotify \/ Abandon \/ ReleaseNotify \/ StopNotify
      <3>1. QueueLength' = QueueLength /\ UNCHANGED <<read_index, buffers, stopped, got>>
        BY <2>6, <2>t DEF TypeOK, CommitIndex, CommitNotify, Abandon, ReleaseNotify,
                          StopNotify, Goto, GotoAndWake, QueueLength
      <3> QED
        BY <3>1, <2>0
    <2>7. CASE ReleaseCount
      <3>1. /\ pc[Reader] = "count" /\ pc'[Reader] = "notify"
            /\ blocks_available' = blocks_available - 1
            /\ UNCHANGED <<read_index, buffers, stopped, got>>
        BY <2>7, <2>t DEF TypeOK, ReleaseCount, Goto
      <3>2. QueueLength' = QueueLength
        BY <3>1 DEF QueueLength
      <3> QED
        BY <3>1, <3>2, <2>0
    <2>8. CASE Start
      BY <2>8, StartIsReopen DEF Fifo!QNext
    <2>9. CASE StopSet
      <3>1. /\ QueueLength' = QueueLength /\ stopped' = TRUE
            /\ UNCHANGED <<read_index, buffers, got>>
        BY <2>9, <2>t DEF TypeOK, StopSet, Goto, QueueLength
      <3>2. CommittedBlocks' = CommittedBlocks
        BY <3>1, SameQueue
      <3> QED
        BY <3>1, <3>2 DEF Fifo!QNext, Fifo!Close
    <2>10. CASE UNCHANGED vars
      <3>1. QueueLength' = QueueLength /\ UNCHANGED <<read_index, buffers, stopped, got>>
        BY <2>10 DEF vars, QueueLength
      <3> QED
        BY <3>1, <2>0
    <2> QED
      BY <2>1, <2>2, <2>3, <2>4, <2>5, <2>6, <2>7, <2>8, <2>9, <2>10
      DEF Next, WriterSteps, ReaderSteps, AcquireWriteBlock, AcquireReadBlock,
          CommitWriteBlock, ReleaseReadBlock, Stop
  <1> QED
    BY <1>1, <1>2, RingInvariant, FifoInvariant, PTL DEF Spec, RefinesFifo, Fifo!QSpec
=============================================================================
