------------------------ MODULE StreamPipelineProofs ------------------------
(***************************************************************************)
(* Safety of StreamPipeline for every size of the rings, every number of   *)
(* transfers and every decimation, in both modes, with Pause and with      *)
(* failures of the hardware and of USB.                                    *)
(*                                                                         *)
(* LifeInv says which threads, flags and transfers exist at each statement *)
(* of Start and Stop, HoldInv what a thread knows of the rings because it  *)
(* is at one end alone, and FreshInv whose samples the rings hold while    *)
(* the converter has a thread.                                             *)
(***************************************************************************)
EXTENDS StreamPipeline, TLAPS

Threads == {"app", "submit", "r2iq", "poll", "stats"}

SubmitStates == {"none", "ended", "loop", "acquire", "check", "callback", "release"}
R2iqStates == {"none", "ended", "loop", "acquire_in", "check", "acquire_out", "convert",
               "commit", "release_in"}
PollStates == {"none", "ended", "loop", "events", "acquire", "commit"}
StatsStates == {"none", "ended", "loop"}

UsbStates == [status : {"off", "streaming", "cancelled", "failed"}, active : 0 .. Transfers]

RingOf(S) == [blocks : Seq(S), stopped : BOOLEAN]

PcType ==
    /\ DOMAIN pc = Threads
    /\ pc["app"] \in AppStates /\ pc["submit"] \in SubmitStates
    /\ pc["r2iq"] \in R2iqStates /\ pc["poll"] \in PollStates
    /\ pc["stats"] \in StatsStates

FlagType ==
    /\ request \in {"stop", "iq", "real"}
    /\ streamRunning \in BOOLEAN /\ r2iqEnabled \in BOOLEAN /\ r2iqOn \in BOOLEAN
    /\ fx3Running \in BOOLEAN /\ device \in BOOLEAN /\ submitIq \in BOOLEAN
    /\ delivered \in BOOLEAN

RingType ==
    /\ real \in RingOf(Sessions) /\ Len(real.blocks) <= Cap
    /\ iq \in RingOf(SUBSET Sessions) /\ Len(iq.blocks) <= Cap

UsbType == usb \in UsbStates

BlockType == session \in Sessions /\ out \subseteq Sessions /\ folded \in 0 .. DecRatio - 1

\* The type invariant, with the types of the records and of pc as a whole.
TypeInv == PcType /\ FlagType /\ RingType /\ UsbType /\ BlockType

-----------------------------------------------------------------------------
(* Which threads, flags and transfers there are.                           *)

\* Nothing of a session is left.
Quiet ==
    /\ pc["submit"] = "none" /\ pc["r2iq"] = "none"
    /\ pc["poll"] = "none" /\ pc["stats"] = "none"
    /\ usb.status = "off" /\ ~r2iqOn /\ ~fx3Running

\* A session runs, or its threads have at least not been joined.
InSession ==
    /\ pc["submit"] # "none" /\ pc["poll"] # "none" /\ pc["stats"] # "none"
    /\ r2iqEnabled <=> pc["r2iq"] # "none"
    /\ usb.status # "off" /\ fx3Running /\ (r2iqOn <=> r2iqEnabled)

\* Statements of Stop from the one at which all but the submit thread exist.
TurningOff == {"turn_off", "stop_input", "stop_output", "join_r2iq"}
Polling == TurningOff \cup {"stop_stream", "join_poll"}
Closing == Polling \cup {"cancel", "drain"}
StartingStream == {"start_submit", "start_stats"}

\* Between the statements of Stop and of Start.
Partial ==
    /\ pc["submit"] # "none" <=> pc["app"] = "start_stats"
    /\ pc["r2iq"] # "none"
          <=> r2iqEnabled /\ pc["app"] \in TurningOff \cup StartingStream \cup {"start_stream"}
    /\ pc["poll"] # "none" <=> pc["app"] \in Polling \cup StartingStream
    /\ pc["stats"] # "none" <=> pc["app"] \in Closing \cup {"join_stats"}
    /\ r2iqOn <=> r2iqEnabled /\ pc["app"] \in {"turn_off", "start_stream"} \cup StartingStream
    /\ fx3Running <=> pc["app"] \in (Polling \ {"join_poll"}) \cup StartingStream
    /\ usb.status # "off" <=> pc["app"] \in Closing \cup StartingStream
    /\ pc["app"] \in TurningOff \ {"turn_off"} => r2iqEnabled
    /\ streamRunning <=> pc["app"] \in {"start_r2iq", "start_stream"} \cup StartingStream

LifeInv ==
    /\ pc["app"] \in {"idle", "stop"} => Quiet \/ (streamRunning /\ InSession)
    /\ pc["app"] = "join_submit" => ~streamRunning /\ (Quiet \/ InSession)
    /\ pc["app"] \in {"crashed", "start"} => Quiet
    /\ pc["app"] \notin {"idle", "stop", "join_submit", "crashed", "start"} => Partial

-----------------------------------------------------------------------------
(* What the threads hold.                                                  *)

HoldInv ==
    /\ pc["submit"] \notin {"none", "ended", "loop"} => submitIq = r2iqEnabled
    /\ pc["submit"] \in {"check", "callback", "release"} /\ submitIq => iq.blocks # <<>>
    /\ pc["r2iq"] \in {"check", "acquire_out", "convert", "commit", "release_in"}
          => real.blocks # <<>>
    /\ pc["poll"] = "commit" => Len(real.blocks) < Cap
    /\ folded # 0 \/ pc["r2iq"] \in {"convert", "commit"} => Len(iq.blocks) < Cap
    /\ pc["r2iq"] = "commit" => folded = 0
    /\ pc["poll"] \in {"acquire", "commit"} => usb.active > 0

\* The rings and the block being made hold samples of this session only.
FreshInv ==
    pc["r2iq"] # "none" =>
        /\ real.blocks \in Seq({session})
        /\ iq.blocks \in Seq({{session}})
        /\ out \subseteq {session}
        /\ folded # 0 \/ pc["r2iq"] = "commit" => out = {session}

PipelineInv == TypeInv /\ LifeInv /\ HoldInv /\ FreshInv

-----------------------------------------------------------------------------
(* The rings.                                                              *)

LEMMA PushKeeps ==
    ASSUME NEW T, NEW ring \in RingOf(T), NEW S, ring.blocks \in Seq(S), NEW b \in S
    PROVE  /\ Push(ring, b).blocks \in Seq(S)
           /\ b \in T => Push(ring, b) \in RingOf(T)
           /\ Len(Push(ring, b).blocks) <= Len(ring.blocks) + 1
           /\ ring.blocks # <<>> => Push(ring, b).blocks # <<>>
<1>1. CASE ring.stopped
  BY <1>1 DEF Push, RingOf
<1>2. CASE ~ring.stopped
  <2>1. Push(ring, b) = [ring EXCEPT !.blocks = Append(@, b)]
    BY <1>2 DEF Push
  <2>2. Push(ring, b).blocks = Append(ring.blocks, b)
    BY <2>1 DEF RingOf
  <2>3. Append(ring.blocks, b) \in Seq(S) /\ Len(Append(ring.blocks, b)) = Len(ring.blocks) + 1
    OBVIOUS
  <2>4. Append(ring.blocks, b) # <<>>
    BY <2>3
  <2>5. b \in T => Push(ring, b) \in RingOf(T)
    BY <2>1, SMTT(30) DEF RingOf
  <2>6. QED
    BY <2>2, <2>3, <2>4, <2>5
<1>3. QED
  BY <1>1, <1>2

LEMMA ReleaseKeeps ==
    ASSUME NEW T, NEW ring \in RingOf(T), NEW S, ring.blocks \in Seq(S)
    PROVE  /\ Release(ring).blocks \in Seq(S)
           /\ Release(ring) \in RingOf(T)
           /\ Len(Release(ring).blocks) <= Len(ring.blocks)
<1>1. CASE ring.blocks = <<>>
  <2>1. Release(ring) = ring
    BY <1>1 DEF Release
  <2>2. Len(ring.blocks) <= Len(ring.blocks)
    OBVIOUS
  <2>3. QED
    BY <2>1, <2>2
<1>2. CASE ring.blocks # <<>>
  <2>1. Release(ring) = [ring EXCEPT !.blocks = Tail(@)]
    BY <1>2 DEF Release
  <2>2. Release(ring).blocks = Tail(ring.blocks)
    BY <2>1 DEF RingOf
  <2>3. Tail(ring.blocks) \in Seq(S) /\ Len(Tail(ring.blocks)) = Len(ring.blocks) - 1
    BY <1>2
  <2>4. Tail(ring.blocks) \in Seq(T)
    BY <1>2 DEF RingOf
  <2>5. Release(ring) \in RingOf(T)
    BY <2>1, <2>4 DEF RingOf
  <2>6. QED
    BY <2>2, <2>3, <2>5
<1>3. QED
  BY <1>1, <1>2

\* A thread that neither begins nor is joined changes nothing of LifeInv.
LEMMA WorkerKeepsLife ==
    ASSUME LifeInv, UNCHANGED flags, pc'["app"] = pc["app"],
           \A t \in Workers : pc'[t] = "none" <=> pc[t] = "none",
           usb'.status = "off" <=> usb.status = "off"
    PROVE  LifeInv'
<1>1. pc'["submit"] = "none" <=> pc["submit"] = "none"
  BY DEF Workers
<1>2. pc'["r2iq"] = "none" <=> pc["r2iq"] = "none"
  BY DEF Workers
<1>3. pc'["poll"] = "none" <=> pc["poll"] = "none"
  BY DEF Workers
<1>4. pc'["stats"] = "none" <=> pc["stats"] = "none"
  BY DEF Workers
<1>5. UNCHANGED <<streamRunning, r2iqEnabled, r2iqOn, fx3Running>>
  BY DEF flags
<1>6. Quiet <=> Quiet'
  BY <1>1, <1>2, <1>3, <1>4, <1>5 DEF Quiet
<1>7. InSession <=> InSession'
  BY <1>1, <1>2, <1>3, <1>4, <1>5 DEF InSession
<1>8. Partial <=> Partial'
  BY <1>1, <1>2, <1>3, <1>4, <1>5
  DEF Partial, Polling, Closing, TurningOff, StartingStream
<1>9. QED
  BY <1>5, <1>6, <1>7, <1>8 DEF LifeInv

-----------------------------------------------------------------------------
(* What does not change keeps its type.                                    *)

LEMMA SameRings == ASSUME RingType, UNCHANGED rings PROVE RingType'
  BY DEF RingType, rings

LEMMA SameUsb == ASSUME UsbType, UNCHANGED usb PROVE UsbType'
  BY DEF UsbType, UsbStates

LEMMA SameFlags ==
    ASSUME FlagType, UNCHANGED <<request, flags, device, submitIq, delivered>>
    PROVE  FlagType'
  BY DEF FlagType, flags

LEMMA SameBlocks == ASSUME BlockType, UNCHANGED <<session, converter>> PROVE BlockType'
  BY DEF BlockType, converter

LEMMA TransferFails ==
    ASSUME UsbType, usb.active > 0, TransferFailed
    PROVE  UsbType' /\ usb'.active = usb.active - 1 /\ usb'.status = "failed"
<1>1. Transfers \in Nat
  BY PipelineAssumption DEF PipelineAssumption
<1>2. QED
  BY <1>1 DEF UsbType, UsbStates, TransferFailed

LEMMA TransferEnds ==
    ASSUME UsbType, usb.active > 0, TransferTimedOut
    PROVE  UsbType' /\ usb'.active = usb.active - 1 /\ usb'.status = usb.status
<1>1. Transfers \in Nat
  BY PipelineAssumption DEF PipelineAssumption
<1>2. QED
  BY <1>1 DEF UsbType, UsbStates, TransferTimedOut

\* Submitting a transfer again works or takes it out of the count.
LEMMA ResubmitKeeps ==
    ASSUME UsbType, usb.active > 0, Resubmit
    PROVE  UsbType' /\ usb'.status \in {"failed", usb.status}
<1>1. CASE UNCHANGED usb
  BY <1>1, SameUsb
<1>2. CASE TransferFailed
  BY <1>2, TransferFails
<1>3. QED
  BY <1>1, <1>2 DEF Resubmit

\* The transfers are open while the poll thread exists.
LEMMA PollHasUsb ==
    ASSUME LifeInv, PcType, pc["poll"] # "none"
    PROVE  usb.status # "off"
  BY DEF LifeInv, Quiet, InSession, Partial, Polling, Closing, TurningOff, StartingStream,
     PcType

\* While the submit thread exists, the converter has a thread in I/Q mode only.
LEMMA SubmitAndR2iq ==
    ASSUME LifeInv, PcType, pc["submit"] # "none"
    PROVE  pc["r2iq"] # "none" <=> r2iqEnabled
  BY DEF LifeInv, Quiet, InSession, Partial, TurningOff, StartingStream, PcType

\* Starting a ring empties it.
LEMMA EmptyRingIs ==
    ASSUME NEW S
    PROVE  EmptyRing \in RingOf(S) /\ EmptyRing.blocks = <<>> /\ Len(EmptyRing.blocks) = 0
  BY DEF EmptyRing, RingOf

-----------------------------------------------------------------------------
(* PipelineInv is inductive, one lemma per thread, one step per action.    *)
(* The poll thread.                                                        *)

LEMMA PollKeeps ==
    ASSUME PipelineInv, PollSteps \/ PollComplete \/ PollError \/ PollTimeout
    PROVE  PipelineInv'
<1>0. /\ PcType /\ FlagType /\ RingType /\ UsbType /\ BlockType
      /\ LifeInv /\ HoldInv /\ FreshInv
      /\ Cap \in Nat \ {0} /\ Transfers \in Nat \ {0} /\ DecRatio \in Nat \ {0}
  BY PipelineAssumption DEF PipelineInv, TypeInv, PipelineAssumption
<1>1. CASE PollLoop
  <2>1. PcType'
    BY <1>0, <1>1 DEF PollLoop, Goto, PcType, Threads, AppStates, SubmitStates, R2iqStates,
       PollStates, StatsStates
  <2>2. FlagType'
    BY <1>0, <1>1, SameFlags DEF PollLoop
  <2>3. RingType'
    BY <1>0, <1>1, SameRings DEF PollLoop
  <2>4. UsbType'
    BY <1>0, <1>1, SameUsb DEF PollLoop
  <2>5. BlockType'
    BY <1>0, <1>1, SameBlocks DEF PollLoop
  <2>6. LifeInv'
    <3>1. /\ UNCHANGED flags /\ pc'["app"] = pc["app"]
          /\ \A t \in Workers : pc'[t] = "none" <=> pc[t] = "none"
      BY <1>0, <1>1 DEF PollLoop, Goto, PcType, Threads, Workers
    <3>2. usb'.status = "off" <=> usb.status = "off"
      BY <1>0, <1>1 DEF PollLoop
    <3>3. QED
      BY <1>0, <3>1, <3>2, WorkerKeepsLife
  <2>7. HoldInv'
    BY <1>0, <1>1 DEF PollLoop, Goto, PcType, Threads, flags, rings, converter, HoldInv
  <2>8. FreshInv'
    BY <1>0, <1>1 DEF PollLoop, Goto, PcType, Threads, flags, rings, converter, FreshInv
  <2>9. QED
    BY <2>1, <2>2, <2>3, <2>4, <2>5, <2>6, <2>7, <2>8 DEF TypeInv, PipelineInv
<1>2. CASE PollReturn
  <2>1. PcType'
    BY <1>0, <1>2 DEF PollReturn, Goto, PcType, Threads, AppStates, SubmitStates, R2iqStates,
       PollStates, StatsStates
  <2>2. FlagType'
    BY <1>0, <1>2, SameFlags DEF PollReturn
  <2>3. RingType'
    BY <1>0, <1>2, SameRings DEF PollReturn
  <2>4. UsbType'
    BY <1>0, <1>2, SameUsb DEF PollReturn
  <2>5. BlockType'
    BY <1>0, <1>2, SameBlocks DEF PollReturn
  <2>6. LifeInv'
    <3>1. /\ UNCHANGED flags /\ pc'["app"] = pc["app"]
          /\ \A t \in Workers : pc'[t] = "none" <=> pc[t] = "none"
      BY <1>0, <1>2 DEF PollReturn, Goto, PcType, Threads, Workers
    <3>2. usb'.status = "off" <=> usb.status = "off"
      BY <1>0, <1>2 DEF PollReturn
    <3>3. QED
      BY <1>0, <3>1, <3>2, WorkerKeepsLife
  <2>7. HoldInv'
    BY <1>0, <1>2 DEF PollReturn, Goto, PcType, Threads, flags, rings, converter, HoldInv
  <2>8. FreshInv'
    BY <1>0, <1>2 DEF PollReturn, Goto, PcType, Threads, flags, rings, converter, FreshInv
  <2>9. QED
    BY <2>1, <2>2, <2>3, <2>4, <2>5, <2>6, <2>7, <2>8 DEF TypeInv, PipelineInv
<1>3. CASE PollAcquire
  <2>1. PcType'
    BY <1>0, <1>3 DEF PollAcquire, Resubmit, Goto, PcType, Threads, AppStates, SubmitStates,
       R2iqStates, PollStates, StatsStates
  <2>2. FlagType'
    BY <1>0, <1>3, SameFlags DEF PollAcquire
  <2>3. RingType'
    BY <1>0, <1>3, SameRings DEF PollAcquire
  <2>4. UsbType' /\ usb'.status \in {"failed", usb.status}
    <3>1. usb.active > 0
      BY <1>0, <1>3 DEF PollAcquire, HoldInv
    <3>2. CASE UNCHANGED usb
      BY <1>0, <3>2, SameUsb
    <3>3. CASE Resubmit
      BY <1>0, <3>1, <3>3, ResubmitKeeps
    <3>4. QED
      BY <1>3, <3>2, <3>3 DEF PollAcquire
  <2>5. BlockType'
    BY <1>0, <1>3, SameBlocks DEF PollAcquire
  <2>6. LifeInv'
    <3>1. /\ UNCHANGED flags /\ pc'["app"] = pc["app"]
          /\ \A t \in Workers : pc'[t] = "none" <=> pc[t] = "none"
      BY <1>0, <1>3 DEF PollAcquire, Resubmit, Goto, PcType, Threads, Workers
    <3>2. usb.status # "off"
      BY <1>0, <1>3, PollHasUsb DEF PollAcquire
    <3>3. usb'.status = "off" <=> usb.status = "off"
      BY <2>4, <3>2
    <3>4. QED
      BY <1>0, <3>1, <3>3, WorkerKeepsLife
  <2>7. HoldInv'
    BY <1>0, <1>3 DEF PollAcquire, Resubmit, CanWrite, Goto, PcType, Threads, flags, rings,
       converter, HoldInv
  <2>8. FreshInv'
    BY <1>0, <1>3 DEF PollAcquire, Resubmit, Goto, PcType, Threads, flags, rings, converter,
       FreshInv
  <2>9. QED
    BY <2>1, <2>2, <2>3, <2>4, <2>5, <2>6, <2>7, <2>8 DEF TypeInv, PipelineInv
<1>4. CASE PollCommit
  <2>1. PcType'
    BY <1>0, <1>4 DEF PollCommit, Resubmit, Goto, PcType, Threads, AppStates, SubmitStates,
       R2iqStates, PollStates, StatsStates
  <2>2. FlagType'
    BY <1>0, <1>4, SameFlags DEF PollCommit
  <2>3. RingType'
    <3>1. real' \in RingOf(Sessions) /\ Len(real'.blocks) <= Len(real.blocks) + 1
      BY <1>0, <1>4, PushKeeps DEF PollCommit, RingType, RingOf, BlockType
    <3>2. Len(real.blocks) < Cap /\ Len(real.blocks) \in Nat /\ Len(real'.blocks) \in Nat
      BY <1>0, <1>4, <3>1 DEF PollCommit, HoldInv, RingType, RingOf
    <3>3. QED
      BY <1>0, <1>4, <3>1, <3>2 DEF PollCommit, RingType
  <2>4. UsbType' /\ usb'.status \in {"failed", usb.status}
    <3>1. usb.active > 0
      BY <1>0, <1>4 DEF PollCommit, HoldInv
    <3>2. QED
      BY <1>0, <1>4, <3>1, ResubmitKeeps DEF PollCommit
  <2>5. BlockType'
    BY <1>0, <1>4, SameBlocks DEF PollCommit
  <2>6. LifeInv'
    <3>1. /\ UNCHANGED flags /\ pc'["app"] = pc["app"]
          /\ \A t \in Workers : pc'[t] = "none" <=> pc[t] = "none"
      BY <1>0, <1>4 DEF PollCommit, Resubmit, Goto, PcType, Threads, Workers
    <3>2. usb.status # "off"
      BY <1>0, <1>4, PollHasUsb DEF PollCommit
    <3>3. usb'.status = "off" <=> usb.status = "off"
      BY <1>4, <2>4, <3>2 DEF PollCommit
    <3>4. QED
      BY <1>0, <3>1, <3>3, WorkerKeepsLife
  <2>7. HoldInv'
    <3>1. real.blocks # <<>> => real'.blocks # <<>>
      BY <1>0, <1>4, PushKeeps DEF PollCommit, RingType, RingOf, BlockType
    <3>2. QED
      BY <1>0, <1>4, <3>1 DEF PollCommit, Resubmit, Goto, PcType, Threads, flags, rings,
         converter, HoldInv
  <2>8. FreshInv'
    <3>1. real.blocks \in Seq({session}) => real'.blocks \in Seq({session})
      BY <1>0, <1>4, PushKeeps DEF PollCommit, RingType, RingOf, BlockType
    <3>2. QED
      BY <1>0, <1>4, <3>1 DEF PollCommit, Resubmit, Goto, PcType, Threads, converter, FreshInv
  <2>9. QED
    BY <2>1, <2>2, <2>3, <2>4, <2>5, <2>6, <2>7, <2>8 DEF TypeInv, PipelineInv
<1>5. CASE PollComplete
  <2>1. PcType'
    BY <1>0, <1>5 DEF PollComplete, Goto, PcType, Threads, AppStates, SubmitStates, R2iqStates,
       PollStates, StatsStates
  <2>2. FlagType'
    BY <1>0, <1>5, SameFlags DEF PollComplete
  <2>3. RingType'
    BY <1>0, <1>5, SameRings DEF PollComplete
  <2>4. UsbType' /\ usb'.status \in {"failed", usb.status}
    <3>1. CASE UNCHANGED usb
      BY <1>0, <3>1, SameUsb
    <3>2. CASE TransferFailed
      BY <1>0, <1>5, <3>2, TransferFails DEF PollComplete
    <3>3. QED
      BY <1>5, <3>1, <3>2 DEF PollComplete
  <2>5. BlockType'
    BY <1>0, <1>5, SameBlocks DEF PollComplete
  <2>6. LifeInv'
    <3>1. /\ UNCHANGED flags /\ pc'["app"] = pc["app"]
          /\ \A t \in Workers : pc'[t] = "none" <=> pc[t] = "none"
      BY <1>0, <1>5 DEF PollComplete, Goto, PcType, Threads, Workers
    <3>2. usb.status # "off"
      BY <1>0, <1>5, PollHasUsb DEF PollComplete
    <3>3. usb'.status = "off" <=> usb.status = "off"
      BY <1>5, <2>4, <3>2 DEF PollComplete
    <3>4. QED
      BY <1>0, <3>1, <3>3, WorkerKeepsLife
  <2>7. HoldInv'
    BY <1>0, <1>5 DEF PollComplete, Goto, PcType, Threads, flags, rings, converter, HoldInv
  <2>8. FreshInv'
    BY <1>0, <1>5 DEF PollComplete, Goto, PcType, Threads, flags, rings, converter, FreshInv
  <2>9. QED
    BY <2>1, <2>2, <2>3, <2>4, <2>5, <2>6, <2>7, <2>8 DEF TypeInv, PipelineInv
<1>6. CASE PollError
  <2>1. PcType'
    BY <1>0, <1>6 DEF PollError, Goto, PcType, Threads, AppStates, SubmitStates, R2iqStates,
       PollStates, StatsStates
  <2>2. FlagType'
    BY <1>0, <1>6, SameFlags DEF PollError
  <2>3. RingType'
    BY <1>0, <1>6, SameRings DEF PollError
  <2>4. UsbType' /\ usb'.status \in {"failed", usb.status}
    BY <1>0, <1>6, TransferFails DEF PollError
  <2>5. BlockType'
    BY <1>0, <1>6, SameBlocks DEF PollError
  <2>6. LifeInv'
    <3>1. /\ UNCHANGED flags /\ pc'["app"] = pc["app"]
          /\ \A t \in Workers : pc'[t] = "none" <=> pc[t] = "none"
      BY <1>0, <1>6 DEF PollError, Goto, PcType, Threads, Workers
    <3>2. usb.status # "off"
      BY <1>0, <1>6, PollHasUsb DEF PollError
    <3>3. usb'.status = "off" <=> usb.status = "off"
      BY <1>6, <2>4, <3>2 DEF PollError
    <3>4. QED
      BY <1>0, <3>1, <3>3, WorkerKeepsLife
  <2>7. HoldInv'
    BY <1>0, <1>6 DEF PollError, Goto, PcType, Threads, flags, rings, converter, HoldInv
  <2>8. FreshInv'
    BY <1>0, <1>6 DEF PollError, Goto, PcType, Threads, flags, rings, converter, FreshInv
  <2>9. QED
    BY <2>1, <2>2, <2>3, <2>4, <2>5, <2>6, <2>7, <2>8 DEF TypeInv, PipelineInv
<1>7. CASE PollTimeout
  <2>1. PcType'
    BY <1>0, <1>7 DEF PollTimeout, Goto, PcType, Threads, AppStates, SubmitStates, R2iqStates,
       PollStates, StatsStates
  <2>2. FlagType'
    BY <1>0, <1>7, SameFlags DEF PollTimeout
  <2>3. RingType'
    BY <1>0, <1>7, SameRings DEF PollTimeout
  <2>4. UsbType' /\ usb'.status \in {"failed", usb.status}
    BY <1>0, <1>7, TransferEnds DEF PollTimeout
  <2>5. BlockType'
    BY <1>0, <1>7, SameBlocks DEF PollTimeout
  <2>6. LifeInv'
    <3>1. /\ UNCHANGED flags /\ pc'["app"] = pc["app"]
          /\ \A t \in Workers : pc'[t] = "none" <=> pc[t] = "none"
      BY <1>0, <1>7 DEF PollTimeout, Goto, PcType, Threads, Workers
    <3>2. usb.status # "off"
      BY <1>0, <1>7, PollHasUsb DEF PollTimeout
    <3>3. usb'.status = "off" <=> usb.status = "off"
      BY <1>7, <2>4, <3>2 DEF PollTimeout
    <3>4. QED
      BY <1>0, <3>1, <3>3, WorkerKeepsLife
  <2>7. HoldInv'
    BY <1>0, <1>7 DEF PollTimeout, Goto, PcType, Threads, flags, rings, converter, HoldInv
  <2>8. FreshInv'
    BY <1>0, <1>7 DEF PollTimeout, Goto, PcType, Threads, flags, rings, converter, FreshInv
  <2>9. QED
    BY <2>1, <2>2, <2>3, <2>4, <2>5, <2>6, <2>7, <2>8 DEF TypeInv, PipelineInv
<1>8. QED
  BY <1>1, <1>2, <1>3, <1>4, <1>5, <1>6, <1>7 DEF PollSteps

-----------------------------------------------------------------------------
(* The converter thread.                                                   *)

LEMMA R2iqKeeps ==
    ASSUME PipelineInv, R2iqSteps
    PROVE  PipelineInv'
<1>0. /\ PcType /\ FlagType /\ RingType /\ UsbType /\ BlockType
      /\ LifeInv /\ HoldInv /\ FreshInv
      /\ Cap \in Nat \ {0} /\ Transfers \in Nat \ {0} /\ DecRatio \in Nat \ {0}
  BY PipelineAssumption DEF PipelineInv, TypeInv, PipelineAssumption
<1>1. CASE R2iqLoop
  <2>1. PcType'
    BY <1>0, <1>1 DEF R2iqLoop, Goto, PcType, Threads, AppStates, SubmitStates, R2iqStates,
       PollStates, StatsStates
  <2>2. FlagType'
    BY <1>0, <1>1, SameFlags DEF R2iqLoop
  <2>3. RingType'
    BY <1>0, <1>1, SameRings DEF R2iqLoop
  <2>4. UsbType'
    BY <1>0, <1>1, SameUsb DEF R2iqLoop
  <2>5. BlockType'
    BY <1>0, <1>1, SameBlocks DEF R2iqLoop
  <2>6. LifeInv'
    <3>1. /\ UNCHANGED flags /\ pc'["app"] = pc["app"]
          /\ \A t \in Workers : pc'[t] = "none" <=> pc[t] = "none"
      BY <1>0, <1>1 DEF R2iqLoop, Goto, PcType, Threads, Workers
    <3>2. usb'.status = "off" <=> usb.status = "off"
      BY <1>0, <1>1 DEF R2iqLoop
    <3>3. QED
      BY <1>0, <3>1, <3>2, WorkerKeepsLife
  <2>7. HoldInv'
    BY <1>0, <1>1 DEF R2iqLoop, Goto, PcType, Threads, flags, rings, converter, HoldInv
  <2>8. FreshInv'
    BY <1>0, <1>1 DEF R2iqLoop, Goto, PcType, Threads, flags, rings, converter, FreshInv
  <2>9. QED
    BY <2>1, <2>2, <2>3, <2>4, <2>5, <2>6, <2>7, <2>8 DEF TypeInv, PipelineInv
<1>2. CASE R2iqAcquireIn
  <2>1. PcType'
    BY <1>0, <1>2 DEF R2iqAcquireIn, Goto, PcType, Threads, AppStates, SubmitStates,
       R2iqStates, PollStates, StatsStates
  <2>2. FlagType'
    BY <1>0, <1>2, SameFlags DEF R2iqAcquireIn
  <2>3. RingType'
    BY <1>0, <1>2, SameRings DEF R2iqAcquireIn
  <2>4. UsbType'
    BY <1>0, <1>2, SameUsb DEF R2iqAcquireIn
  <2>5. BlockType'
    BY <1>0, <1>2, SameBlocks DEF R2iqAcquireIn
  <2>6. LifeInv'
    <3>1. /\ UNCHANGED flags /\ pc'["app"] = pc["app"]
          /\ \A t \in Workers : pc'[t] = "none" <=> pc[t] = "none"
      BY <1>0, <1>2 DEF R2iqAcquireIn, Goto, PcType, Threads, Workers
    <3>2. usb'.status = "off" <=> usb.status = "off"
      BY <1>0, <1>2 DEF R2iqAcquireIn
    <3>3. QED
      BY <1>0, <3>1, <3>2, WorkerKeepsLife
  <2>7. HoldInv'
    BY <1>0, <1>2 DEF R2iqAcquireIn, CanRead, Goto, PcType, Threads, flags, rings, converter,
       HoldInv
  <2>8. FreshInv'
    BY <1>0, <1>2 DEF R2iqAcquireIn, Goto, PcType, Threads, flags, rings, converter, FreshInv
  <2>9. QED
    BY <2>1, <2>2, <2>3, <2>4, <2>5, <2>6, <2>7, <2>8 DEF TypeInv, PipelineInv
<1>3. CASE R2iqCheck
  <2>1. PcType'
    BY <1>0, <1>3 DEF R2iqCheck, Goto, PcType, Threads, AppStates, SubmitStates, R2iqStates,
       PollStates, StatsStates
  <2>2. FlagType'
    BY <1>0, <1>3, SameFlags DEF R2iqCheck
  <2>3. RingType' /\ Len(real'.blocks) <= Len(real.blocks) /\ iq' = iq
    <3>1. CASE UNCHANGED rings
      BY <1>0, <3>1, SameRings DEF RingType, RingOf, rings
    <3>2. CASE real' = Release(real) /\ UNCHANGED iq
      <4>1. real' \in RingOf(Sessions) /\ Len(real'.blocks) <= Len(real.blocks)
        BY <1>0, <3>2, ReleaseKeeps DEF RingType, RingOf
      <4>2. Len(real.blocks) \in Nat /\ Len(real'.blocks) \in Nat
        BY <1>0, <4>1 DEF RingType, RingOf
      <4>3. QED
        BY <1>0, <3>2, <4>1, <4>2 DEF RingType
    <3>3. QED
      BY <1>3, <3>1, <3>2 DEF R2iqCheck, rings
  <2>4. UsbType'
    BY <1>0, <1>3, SameUsb DEF R2iqCheck
  <2>5. BlockType'
    BY <1>0, <1>3, SameBlocks DEF R2iqCheck
  <2>6. LifeInv'
    <3>1. /\ UNCHANGED flags /\ pc'["app"] = pc["app"]
          /\ \A t \in Workers : pc'[t] = "none" <=> pc[t] = "none"
      BY <1>0, <1>3 DEF R2iqCheck, Goto, PcType, Threads, Workers
    <3>2. usb'.status = "off" <=> usb.status = "off"
      BY <1>0, <1>3 DEF R2iqCheck
    <3>3. QED
      BY <1>0, <3>1, <3>2, WorkerKeepsLife
  <2>7. HoldInv'
    <3>1. Len(real.blocks) \in Nat /\ Len(real'.blocks) \in Nat
      BY <1>0, <2>3 DEF RingType, RingOf
    <3>2. QED
      BY <1>0, <1>3, <2>3, <3>1 DEF R2iqCheck, CanWrite, Goto, PcType, Threads, flags, rings,
         converter, HoldInv
  <2>8. FreshInv'
    <3>1. real.blocks \in Seq({session}) => real'.blocks \in Seq({session})
      BY <1>0, <1>3, ReleaseKeeps DEF R2iqCheck, RingType, RingOf, rings
    <3>2. QED
      BY <1>0, <1>3, <2>3, <3>1 DEF R2iqCheck, Goto, PcType, Threads, flags, converter, FreshInv
  <2>9. QED
    BY <2>1, <2>2, <2>3, <2>4, <2>5, <2>6, <2>7, <2>8 DEF TypeInv, PipelineInv
<1>4. CASE R2iqAcquireOut
  <2>1. PcType'
    BY <1>0, <1>4 DEF R2iqAcquireOut, Goto, PcType, Threads, AppStates, SubmitStates,
       R2iqStates, PollStates, StatsStates
  <2>2. FlagType'
    BY <1>0, <1>4, SameFlags DEF R2iqAcquireOut
  <2>3. RingType' /\ Len(real'.blocks) <= Len(real.blocks) /\ iq' = iq
    <3>1. CASE UNCHANGED rings
      BY <1>0, <3>1, SameRings DEF RingType, RingOf, rings
    <3>2. CASE real' = Release(real) /\ UNCHANGED iq
      <4>1. real' \in RingOf(Sessions) /\ Len(real'.blocks) <= Len(real.blocks)
        BY <1>0, <3>2, ReleaseKeeps DEF RingType, RingOf
      <4>2. Len(real.blocks) \in Nat /\ Len(real'.blocks) \in Nat
        BY <1>0, <4>1 DEF RingType, RingOf
      <4>3. QED
        BY <1>0, <3>2, <4>1, <4>2 DEF RingType
    <3>3. QED
      BY <1>4, <3>1, <3>2 DEF R2iqAcquireOut, rings
  <2>4. UsbType'
    BY <1>0, <1>4, SameUsb DEF R2iqAcquireOut
  <2>5. BlockType'
    BY <1>0, <1>4, SameBlocks DEF R2iqAcquireOut
  <2>6. LifeInv'
    <3>1. /\ UNCHANGED flags /\ pc'["app"] = pc["app"]
          /\ \A t \in Workers : pc'[t] = "none" <=> pc[t] = "none"
      BY <1>0, <1>4 DEF R2iqAcquireOut, Goto, PcType, Threads, Workers
    <3>2. usb'.status = "off" <=> usb.status = "off"
      BY <1>0, <1>4 DEF R2iqAcquireOut
    <3>3. QED
      BY <1>0, <3>1, <3>2, WorkerKeepsLife
  <2>7. HoldInv'
    <3>1. Len(real.blocks) \in Nat /\ Len(real'.blocks) \in Nat
      BY <1>0, <2>3 DEF RingType, RingOf
    <3>2. QED
      BY <1>0, <1>4, <2>3, <3>1 DEF R2iqAcquireOut, CanWrite, Goto, PcType, Threads, flags,
         rings, converter, HoldInv
  <2>8. FreshInv'
    <3>1. real.blocks \in Seq({session}) => real'.blocks \in Seq({session})
      BY <1>0, <1>4, ReleaseKeeps DEF R2iqAcquireOut, RingType, RingOf, rings
    <3>2. QED
      BY <1>0, <1>4, <2>3, <3>1 DEF R2iqAcquireOut, Goto, PcType, Threads, flags, converter,
         FreshInv
  <2>9. QED
    BY <2>1, <2>2, <2>3, <2>4, <2>5, <2>6, <2>7, <2>8 DEF TypeInv, PipelineInv
<1>5. CASE R2iqConvert
  <2>1. PcType'
    BY <1>0, <1>5 DEF R2iqConvert, Goto, PcType, Threads, AppStates, SubmitStates, R2iqStates,
       PollStates, StatsStates
  <2>2. FlagType'
    BY <1>0, <1>5, SameFlags DEF R2iqConvert
  <2>3. RingType'
    BY <1>0, <1>5, SameRings DEF R2iqConvert
  <2>4. UsbType'
    BY <1>0, <1>5, SameUsb DEF R2iqConvert
  <2>5. BlockType'
    <3>1. Head(real.blocks) \in Sessions
      BY <1>0, <1>5 DEF R2iqConvert, HoldInv, RingType, RingOf
    <3>2. folded' \in 0 .. DecRatio - 1
      BY <1>0, <1>5 DEF R2iqConvert, BlockType
    <3>3. QED
      BY <1>0, <1>5, <3>1, <3>2 DEF R2iqConvert, BlockType
  <2>6. LifeInv'
    <3>1. /\ UNCHANGED flags /\ pc'["app"] = pc["app"]
          /\ \A t \in Workers : pc'[t] = "none" <=> pc[t] = "none"
      BY <1>0, <1>5 DEF R2iqConvert, Goto, PcType, Threads, Workers
    <3>2. usb'.status = "off" <=> usb.status = "off"
      BY <1>0, <1>5 DEF R2iqConvert
    <3>3. QED
      BY <1>0, <3>1, <3>2, WorkerKeepsLife
  <2>7. HoldInv'
    BY <1>0, <1>5 DEF R2iqConvert, Goto, PcType, Threads, flags, rings, converter, HoldInv
  <2>8. FreshInv'
    <3>1. real.blocks \in Seq({session}) /\ real.blocks # <<>> /\ out \subseteq {session}
      BY <1>0, <1>5 DEF R2iqConvert, HoldInv, FreshInv
    <3>2. Head(real.blocks) = session
      BY <3>1
    <3>3. out' = {session}
      BY <1>5, <3>1, <3>2 DEF R2iqConvert
    <3>4. QED
      BY <1>0, <1>5, <3>3 DEF R2iqConvert, Goto, PcType, Threads, rings, FreshInv
  <2>9. QED
    BY <2>1, <2>2, <2>3, <2>4, <2>5, <2>6, <2>7, <2>8 DEF TypeInv, PipelineInv
<1>6. CASE R2iqCommit
  <2>1. PcType'
    BY <1>0, <1>6 DEF R2iqCommit, Goto, PcType, Threads, AppStates, SubmitStates, R2iqStates,
       PollStates, StatsStates
  <2>2. FlagType'
    BY <1>0, <1>6, SameFlags DEF R2iqCommit
  <2>3. RingType'
    <3>0. out \in SUBSET Sessions /\ iq.blocks \in Seq(SUBSET Sessions) /\ iq' = Push(iq, out)
      BY <1>0, <1>6 DEF R2iqCommit, RingType, RingOf, BlockType
    <3>1. iq' \in RingOf(SUBSET Sessions) /\ Len(iq'.blocks) <= Len(iq.blocks) + 1
      BY <1>0, <3>0, PushKeeps DEF RingType
    <3>2. Len(iq.blocks) < Cap /\ Len(iq.blocks) \in Nat /\ Len(iq'.blocks) \in Nat
      BY <1>0, <1>6, <3>1 DEF R2iqCommit, HoldInv, RingType, RingOf
    <3>3. QED
      BY <1>0, <1>6, <3>1, <3>2 DEF R2iqCommit, RingType
  <2>4. UsbType'
    BY <1>0, <1>6, SameUsb DEF R2iqCommit
  <2>5. BlockType'
    BY <1>0, <1>6 DEF R2iqCommit, BlockType
  <2>6. LifeInv'
    <3>1. /\ UNCHANGED flags /\ pc'["app"] = pc["app"]
          /\ \A t \in Workers : pc'[t] = "none" <=> pc[t] = "none"
      BY <1>0, <1>6 DEF R2iqCommit, Goto, PcType, Threads, Workers
    <3>2. usb'.status = "off" <=> usb.status = "off"
      BY <1>0, <1>6 DEF R2iqCommit
    <3>3. QED
      BY <1>0, <3>1, <3>2, WorkerKeepsLife
  <2>7. HoldInv'
    <3>0. out \in SUBSET Sessions /\ iq.blocks \in Seq(SUBSET Sessions) /\ iq' = Push(iq, out)
      BY <1>0, <1>6 DEF R2iqCommit, RingType, RingOf, BlockType
    <3>1. iq.blocks # <<>> => iq'.blocks # <<>>
      BY <1>0, <3>0, PushKeeps DEF RingType
    <3>2. QED
      BY <1>0, <1>6, <3>1 DEF R2iqCommit, Goto, PcType, Threads, flags, rings, converter,
         HoldInv
  <2>8. FreshInv'
    <3>1. out = {session} /\ iq.blocks \in Seq({{session}}) /\ folded = 0
      BY <1>0, <1>6 DEF R2iqCommit, FreshInv, HoldInv
    <3>2. iq'.blocks \in Seq({{session}})
      BY <1>0, <1>6, <3>1, PushKeeps DEF R2iqCommit, RingType, RingOf
    <3>3. QED
      BY <1>0, <1>6, <3>1, <3>2 DEF R2iqCommit, Goto, PcType, Threads, FreshInv
  <2>9. QED
    BY <2>1, <2>2, <2>3, <2>4, <2>5, <2>6, <2>7, <2>8 DEF TypeInv, PipelineInv
<1>7. CASE R2iqReleaseIn
  <2>1. PcType'
    BY <1>0, <1>7 DEF R2iqReleaseIn, Goto, PcType, Threads, AppStates, SubmitStates,
       R2iqStates, PollStates, StatsStates
  <2>2. FlagType'
    BY <1>0, <1>7, SameFlags DEF R2iqReleaseIn
  <2>3. RingType' /\ Len(real'.blocks) <= Len(real.blocks) /\ iq' = iq
    <3>1. CASE UNCHANGED rings
      BY <1>0, <3>1, SameRings DEF RingType, RingOf, rings
    <3>2. CASE real' = Release(real) /\ UNCHANGED iq
      <4>1. real' \in RingOf(Sessions) /\ Len(real'.blocks) <= Len(real.blocks)
        BY <1>0, <3>2, ReleaseKeeps DEF RingType, RingOf
      <4>2. Len(real.blocks) \in Nat /\ Len(real'.blocks) \in Nat
        BY <1>0, <4>1 DEF RingType, RingOf
      <4>3. QED
        BY <1>0, <3>2, <4>1, <4>2 DEF RingType
    <3>3. QED
      BY <1>7, <3>1, <3>2 DEF R2iqReleaseIn, rings
  <2>4. UsbType'
    BY <1>0, <1>7, SameUsb DEF R2iqReleaseIn
  <2>5. BlockType'
    BY <1>0, <1>7, SameBlocks DEF R2iqReleaseIn
  <2>6. LifeInv'
    <3>1. /\ UNCHANGED flags /\ pc'["app"] = pc["app"]
          /\ \A t \in Workers : pc'[t] = "none" <=> pc[t] = "none"
      BY <1>0, <1>7 DEF R2iqReleaseIn, Goto, PcType, Threads, Workers
    <3>2. usb'.status = "off" <=> usb.status = "off"
      BY <1>0, <1>7 DEF R2iqReleaseIn
    <3>3. QED
      BY <1>0, <3>1, <3>2, WorkerKeepsLife
  <2>7. HoldInv'
    <3>1. Len(real.blocks) \in Nat /\ Len(real'.blocks) \in Nat
      BY <1>0, <2>3 DEF RingType, RingOf
    <3>2. QED
      BY <1>0, <1>7, <2>3, <3>1 DEF R2iqReleaseIn, CanWrite, Goto, PcType, Threads, flags,
         rings, converter, HoldInv
  <2>8. FreshInv'
    <3>1. real.blocks \in Seq({session}) => real'.blocks \in Seq({session})
      BY <1>0, <1>7, ReleaseKeeps DEF R2iqReleaseIn, RingType, RingOf, rings
    <3>2. QED
      BY <1>0, <1>7, <2>3, <3>1 DEF R2iqReleaseIn, Goto, PcType, Threads, flags, converter,
         FreshInv
  <2>9. QED
    BY <2>1, <2>2, <2>3, <2>4, <2>5, <2>6, <2>7, <2>8 DEF TypeInv, PipelineInv
<1>8. QED
  BY <1>1, <1>2, <1>3, <1>4, <1>5, <1>6, <1>7 DEF R2iqSteps

-----------------------------------------------------------------------------
(* The submit and the statistics thread.                                   *)

LEMMA SubmitKeeps ==
    ASSUME PipelineInv, OnDataPacket \/ CaculateStats
    PROVE  PipelineInv'
<1>0. /\ PcType /\ FlagType /\ RingType /\ UsbType /\ BlockType
      /\ LifeInv /\ HoldInv /\ FreshInv
      /\ Cap \in Nat \ {0} /\ Transfers \in Nat \ {0} /\ DecRatio \in Nat \ {0}
  BY PipelineAssumption DEF PipelineInv, TypeInv, PipelineAssumption
<1>1. CASE SubmitLoop
  <2>1. PcType'
    BY <1>0, <1>1 DEF SubmitLoop, Goto, PcType, Threads, AppStates, SubmitStates, R2iqStates,
       PollStates, StatsStates
  <2>2. FlagType'
    BY <1>0, <1>1 DEF SubmitLoop, FlagType, flags
  <2>3. RingType'
    BY <1>0, <1>1, SameRings DEF SubmitLoop
  <2>4. UsbType'
    BY <1>0, <1>1, SameUsb DEF SubmitLoop
  <2>5. BlockType'
    BY <1>0, <1>1, SameBlocks DEF SubmitLoop
  <2>6. LifeInv'
    <3>1. /\ UNCHANGED flags /\ pc'["app"] = pc["app"]
          /\ \A t \in Workers : pc'[t] = "none" <=> pc[t] = "none"
      BY <1>0, <1>1 DEF SubmitLoop, Goto, PcType, Threads, Workers
    <3>2. usb'.status = "off" <=> usb.status = "off"
      BY <1>0, <1>1 DEF SubmitLoop
    <3>3. QED
      BY <1>0, <3>1, <3>2, WorkerKeepsLife
  <2>7. HoldInv'
    BY <1>0, <1>1 DEF SubmitLoop, Goto, PcType, Threads, flags, rings, converter, HoldInv
  <2>8. FreshInv'
    BY <1>0, <1>1 DEF SubmitLoop, Goto, PcType, Threads, flags, rings, converter, FreshInv
  <2>9. QED
    BY <2>1, <2>2, <2>3, <2>4, <2>5, <2>6, <2>7, <2>8 DEF TypeInv, PipelineInv
<1>2. CASE SubmitAcquire
  <2>1. PcType'
    BY <1>0, <1>2 DEF SubmitAcquire, Goto, PcType, Threads, AppStates, SubmitStates,
       R2iqStates, PollStates, StatsStates
  <2>2. FlagType'
    BY <1>0, <1>2, SameFlags DEF SubmitAcquire
  <2>3. RingType'
    BY <1>0, <1>2, SameRings DEF SubmitAcquire
  <2>4. UsbType'
    BY <1>0, <1>2, SameUsb DEF SubmitAcquire
  <2>5. BlockType'
    BY <1>0, <1>2, SameBlocks DEF SubmitAcquire
  <2>6. LifeInv'
    <3>1. /\ UNCHANGED flags /\ pc'["app"] = pc["app"]
          /\ \A t \in Workers : pc'[t] = "none" <=> pc[t] = "none"
      BY <1>0, <1>2 DEF SubmitAcquire, Goto, PcType, Threads, Workers
    <3>2. usb'.status = "off" <=> usb.status = "off"
      BY <1>0, <1>2 DEF SubmitAcquire
    <3>3. QED
      BY <1>0, <3>1, <3>2, WorkerKeepsLife
  <2>7. HoldInv'
    BY <1>0, <1>2 DEF SubmitAcquire, submitRing, CanRead, Goto, PcType, Threads, flags, rings,
       converter, HoldInv
  <2>8. FreshInv'
    BY <1>0, <1>2 DEF SubmitAcquire, Goto, PcType, Threads, flags, rings, converter, FreshInv
  <2>9. QED
    BY <2>1, <2>2, <2>3, <2>4, <2>5, <2>6, <2>7, <2>8 DEF TypeInv, PipelineInv
<1>3. CASE SubmitCheck
  <2>1. PcType'
    BY <1>0, <1>3 DEF SubmitCheck, Goto, PcType, Threads, AppStates, SubmitStates, R2iqStates,
       PollStates, StatsStates
  <2>2. FlagType'
    BY <1>0, <1>3, SameFlags DEF SubmitCheck
  <2>3. RingType' /\ Len(real'.blocks) <= Len(real.blocks) /\ Len(iq'.blocks) <= Len(iq.blocks)
    <3>1. /\ {real.blocks, real'.blocks} \subseteq Seq(Sessions)
          /\ {iq.blocks, iq'.blocks} \subseteq Seq(SUBSET Sessions)
          /\ real' \in RingOf(Sessions) /\ Len(real'.blocks) <= Len(real.blocks)
          /\ iq' \in RingOf(SUBSET Sessions) /\ Len(iq'.blocks) <= Len(iq.blocks)
      <4>1. CASE UNCHANGED rings
        BY <1>0, <4>1 DEF RingType, RingOf, rings
      <4>2. CASE real' = Release(real) /\ UNCHANGED iq
        BY <1>0, <4>2, ReleaseKeeps DEF RingType, RingOf
      <4>3. CASE iq' = Release(iq) /\ UNCHANGED real
        BY <1>0, <4>3, ReleaseKeeps DEF RingType, RingOf
      <4>4. QED
        BY <1>3, <4>1, <4>2, <4>3 DEF SubmitCheck, ReleaseSubmit, rings
    <3>2. /\ {Len(real.blocks), Len(real'.blocks)} \subseteq Nat
          /\ {Len(iq.blocks), Len(iq'.blocks)} \subseteq Nat
      BY <3>1
    <3>3. QED
      BY <1>0, <3>1, <3>2 DEF RingType
  <2>4. UsbType'
    BY <1>0, <1>3, SameUsb DEF SubmitCheck
  <2>5. BlockType'
    BY <1>0, <1>3, SameBlocks DEF SubmitCheck
  <2>6. LifeInv'
    <3>1. /\ UNCHANGED flags /\ pc'["app"] = pc["app"]
          /\ \A t \in Workers : pc'[t] = "none" <=> pc[t] = "none"
      BY <1>0, <1>3 DEF SubmitCheck, Goto, PcType, Threads, Workers
    <3>2. usb'.status = "off" <=> usb.status = "off"
      BY <1>0, <1>3 DEF SubmitCheck
    <3>3. QED
      BY <1>0, <3>1, <3>2, WorkerKeepsLife
  <2>7. HoldInv'
    <3>1. /\ {Len(real.blocks), Len(real'.blocks)} \subseteq Nat
          /\ {Len(iq.blocks), Len(iq'.blocks)} \subseteq Nat
      BY <1>0, <2>3 DEF RingType, RingOf
    <3>2. real'.blocks = real.blocks \/ pc["r2iq"] = "none"
      BY <1>0, <1>3, SubmitAndR2iq DEF SubmitCheck, ReleaseSubmit, HoldInv, rings
    <3>3. QED
      BY <1>0, <1>3, <2>3, <3>1, <3>2 DEF SubmitCheck, Goto, PcType, Threads, flags, converter,
         HoldInv, ReleaseSubmit, rings
  <2>8. FreshInv'
    <3>1. /\ real.blocks \in Seq({session}) => real'.blocks \in Seq({session})
          /\ iq.blocks \in Seq({{session}}) => iq'.blocks \in Seq({{session}})
      BY <1>0, <1>3, ReleaseKeeps DEF SubmitCheck, ReleaseSubmit, RingType, RingOf, rings
    <3>2. QED
      BY <1>0, <1>3, <3>1 DEF SubmitCheck, Goto, PcType, Threads, flags, converter, FreshInv
  <2>9. QED
    BY <2>1, <2>2, <2>3, <2>4, <2>5, <2>6, <2>7, <2>8 DEF TypeInv, PipelineInv
<1>4. CASE SubmitCallback
  <2>1. PcType'
    BY <1>0, <1>4 DEF SubmitCallback, Goto, PcType, Threads, AppStates, SubmitStates,
       R2iqStates, PollStates, StatsStates
  <2>2. FlagType'
    BY <1>0, <1>4 DEF SubmitCallback, FlagType, flags
  <2>3. RingType'
    BY <1>0, <1>4, SameRings DEF SubmitCallback
  <2>4. UsbType'
    BY <1>0, <1>4, SameUsb DEF SubmitCallback
  <2>5. BlockType'
    BY <1>0, <1>4, SameBlocks DEF SubmitCallback
  <2>6. LifeInv'
    <3>1. /\ UNCHANGED flags /\ pc'["app"] = pc["app"]
          /\ \A t \in Workers : pc'[t] = "none" <=> pc[t] = "none"
      BY <1>0, <1>4 DEF SubmitCallback, Goto, PcType, Threads, Workers
    <3>2. usb'.status = "off" <=> usb.status = "off"
      BY <1>0, <1>4 DEF SubmitCallback
    <3>3. QED
      BY <1>0, <3>1, <3>2, WorkerKeepsLife
  <2>7. HoldInv'
    BY <1>0, <1>4 DEF SubmitCallback, Goto, PcType, Threads, flags, rings, converter, HoldInv
  <2>8. FreshInv'
    BY <1>0, <1>4 DEF SubmitCallback, Goto, PcType, Threads, flags, rings, converter, FreshInv
  <2>9. QED
    BY <2>1, <2>2, <2>3, <2>4, <2>5, <2>6, <2>7, <2>8 DEF TypeInv, PipelineInv
<1>5. CASE SubmitRelease
  <2>1. PcType'
    BY <1>0, <1>5 DEF SubmitRelease, Goto, PcType, Threads, AppStates, SubmitStates,
       R2iqStates, PollStates, StatsStates
  <2>2. FlagType'
    BY <1>0, <1>5, SameFlags DEF SubmitRelease
  <2>3. RingType' /\ Len(real'.blocks) <= Len(real.blocks) /\ Len(iq'.blocks) <= Len(iq.blocks)
    <3>1. /\ {real.blocks, real'.blocks} \subseteq Seq(Sessions)
          /\ {iq.blocks, iq'.blocks} \subseteq Seq(SUBSET Sessions)
          /\ real' \in RingOf(Sessions) /\ Len(real'.blocks) <= Len(real.blocks)
          /\ iq' \in RingOf(SUBSET Sessions) /\ Len(iq'.blocks) <= Len(iq.blocks)
      <4>1. CASE UNCHANGED rings
        BY <1>0, <4>1 DEF RingType, RingOf, rings
      <4>2. CASE real' = Release(real) /\ UNCHANGED iq
        BY <1>0, <4>2, ReleaseKeeps DEF RingType, RingOf
      <4>3. CASE iq' = Release(iq) /\ UNCHANGED real
        BY <1>0, <4>3, ReleaseKeeps DEF RingType, RingOf
      <4>4. QED
        BY <1>5, <4>1, <4>2, <4>3 DEF SubmitRelease, ReleaseSubmit, rings
    <3>2. /\ {Len(real.blocks), Len(real'.blocks)} \subseteq Nat
          /\ {Len(iq.blocks), Len(iq'.blocks)} \subseteq Nat
      BY <3>1
    <3>3. QED
      BY <1>0, <3>1, <3>2 DEF RingType
  <2>4. UsbType'
    BY <1>0, <1>5, SameUsb DEF SubmitRelease
  <2>5. BlockType'
    BY <1>0, <1>5, SameBlocks DEF SubmitRelease
  <2>6. LifeInv'
    <3>1. /\ UNCHANGED flags /\ pc'["app"] = pc["app"]
          /\ \A t \in Workers : pc'[t] = "none" <=> pc[t] = "none"
      BY <1>0, <1>5 DEF SubmitRelease, Goto, PcType, Threads, Workers
    <3>2. usb'.status = "off" <=> usb.status = "off"
      BY <1>0, <1>5 DEF SubmitRelease
    <3>3. QED
      BY <1>0, <3>1, <3>2, WorkerKeepsLife
  <2>7. HoldInv'
    <3>1. /\ {Len(real.blocks), Len(real'.blocks)} \subseteq Nat
          /\ {Len(iq.blocks), Len(iq'.blocks)} \subseteq Nat
      BY <1>0, <2>3 DEF RingType, RingOf
    <3>2. real'.blocks = real.blocks \/ pc["r2iq"] = "none"
      BY <1>0, <1>5, SubmitAndR2iq DEF SubmitRelease, ReleaseSubmit, HoldInv, rings
    <3>3. QED
      BY <1>0, <1>5, <2>3, <3>1, <3>2 DEF SubmitRelease, Goto, PcType, Threads, flags,
         converter, HoldInv, ReleaseSubmit, rings
  <2>8. FreshInv'
    <3>1. /\ real.blocks \in Seq({session}) => real'.blocks \in Seq({session})
          /\ iq.blocks \in Seq({{session}}) => iq'.blocks \in Seq({{session}})
      BY <1>0, <1>5, ReleaseKeeps DEF SubmitRelease, ReleaseSubmit, RingType, RingOf, rings
    <3>2. QED
      BY <1>0, <1>5, <3>1 DEF SubmitRelease, Goto, PcType, Threads, flags, converter, FreshInv
  <2>9. QED
    BY <2>1, <2>2, <2>3, <2>4, <2>5, <2>6, <2>7, <2>8 DEF TypeInv, PipelineInv
<1>6. CASE CaculateStats
  <2>1. PcType'
    BY <1>0, <1>6 DEF CaculateStats, Goto, PcType, Threads, AppStates, SubmitStates,
       R2iqStates, PollStates, StatsStates
  <2>2. FlagType'
    BY <1>0, <1>6, SameFlags DEF CaculateStats
  <2>3. RingType'
    BY <1>0, <1>6, SameRings DEF CaculateStats
  <2>4. UsbType'
    BY <1>0, <1>6, SameUsb DEF CaculateStats
  <2>5. BlockType'
    BY <1>0, <1>6, SameBlocks DEF CaculateStats
  <2>6. LifeInv'
    <3>1. /\ UNCHANGED flags /\ pc'["app"] = pc["app"]
          /\ \A t \in Workers : pc'[t] = "none" <=> pc[t] = "none"
      BY <1>0, <1>6 DEF CaculateStats, Goto, PcType, Threads, Workers
    <3>2. usb'.status = "off" <=> usb.status = "off"
      BY <1>0, <1>6 DEF CaculateStats
    <3>3. QED
      BY <1>0, <3>1, <3>2, WorkerKeepsLife
  <2>7. HoldInv'
    BY <1>0, <1>6 DEF CaculateStats, Goto, PcType, Threads, flags, rings, converter, HoldInv
  <2>8. FreshInv'
    BY <1>0, <1>6 DEF CaculateStats, Goto, PcType, Threads, flags, rings, converter, FreshInv
  <2>9. QED
    BY <2>1, <2>2, <2>3, <2>4, <2>5, <2>6, <2>7, <2>8 DEF TypeInv, PipelineInv
<1>7. QED
  BY <1>1, <1>2, <1>3, <1>4, <1>5, <1>6 DEF OnDataPacket

-----------------------------------------------------------------------------
(* The user's thread: Stop.                                                *)

LEMMA StopKeeps ==
    ASSUME PipelineInv, StopSteps
    PROVE  PipelineInv'
<1>0. /\ PcType /\ FlagType /\ RingType /\ UsbType /\ BlockType
      /\ LifeInv /\ HoldInv /\ FreshInv
      /\ Cap \in Nat \ {0} /\ Transfers \in Nat \ {0} /\ DecRatio \in Nat \ {0}
  BY PipelineAssumption DEF PipelineInv, TypeInv, PipelineAssumption
<1>1. CASE StopBegin
  <2>1. PcType'
    BY <1>0, <1>1 DEF StopBegin, AfterStop, Goto, PcType, Threads, AppStates, SubmitStates,
       R2iqStates, PollStates, StatsStates
  <2>2. FlagType'
    BY <1>0, <1>1 DEF StopBegin, FlagType, flags
  <2>3. RingType'
    BY <1>0, <1>1, SameRings DEF StopBegin
  <2>4. UsbType'
    BY <1>0, <1>1, SameUsb DEF StopBegin
  <2>5. BlockType'
    BY <1>0, <1>1, SameBlocks DEF StopBegin
  <2>6. LifeInv'
    BY <1>0, <1>1 DEF StopBegin, AfterStop, Goto, PcType, Threads, flags, LifeInv, Quiet,
       InSession, Partial, Polling, Closing, TurningOff, StartingStream
  <2>7. HoldInv'
    BY <1>0, <1>1 DEF StopBegin, Goto, PcType, Threads, flags, rings, converter, HoldInv
  <2>8. FreshInv'
    BY <1>0, <1>1 DEF StopBegin, Goto, PcType, Threads, flags, rings, converter, FreshInv
  <2>9. QED
    BY <2>1, <2>2, <2>3, <2>4, <2>5, <2>6, <2>7, <2>8 DEF TypeInv, PipelineInv
<1>2. CASE JoinSubmit
  <2>1. PcType'
    BY <1>0, <1>2 DEF JoinSubmit, Join, Goto, PcType, Threads, AppStates, SubmitStates,
       R2iqStates, PollStates, StatsStates
  <2>2. FlagType'
    BY <1>0, <1>2, SameFlags DEF JoinSubmit
  <2>3. RingType'
    BY <1>0, <1>2, SameRings DEF JoinSubmit
  <2>4. UsbType'
    BY <1>0, <1>2, SameUsb DEF JoinSubmit
  <2>5. BlockType'
    BY <1>0, <1>2, SameBlocks DEF JoinSubmit
  <2>6. LifeInv'
    BY <1>0, <1>2 DEF JoinSubmit, Goto, Join, PcType, Threads, flags, LifeInv, Quiet,
       InSession, Partial, Polling, Closing, TurningOff, StartingStream
  <2>7. HoldInv'
    BY <1>0, <1>2 DEF JoinSubmit, Join, Goto, PcType, Threads, flags, rings, converter, HoldInv
  <2>8. FreshInv'
    BY <1>0, <1>2 DEF JoinSubmit, Join, Goto, PcType, Threads, flags, rings, converter, FreshInv
  <2>9. QED
    BY <2>1, <2>2, <2>3, <2>4, <2>5, <2>6, <2>7, <2>8 DEF TypeInv, PipelineInv
<1>3. CASE TurnOff
  <2>1. PcType'
    BY <1>0, <1>3 DEF TurnOff, Goto, PcType, Threads, AppStates, SubmitStates, R2iqStates,
       PollStates, StatsStates
  <2>2. FlagType'
    BY <1>0, <1>3 DEF TurnOff, FlagType, flags
  <2>3. RingType'
    BY <1>0, <1>3, SameRings DEF TurnOff
  <2>4. UsbType'
    BY <1>0, <1>3, SameUsb DEF TurnOff
  <2>5. BlockType'
    BY <1>0, <1>3, SameBlocks DEF TurnOff
  <2>6. LifeInv'
    BY <1>0, <1>3 DEF TurnOff, Goto, Join, PcType, Threads, flags, LifeInv, Quiet, InSession,
       Partial, Polling, Closing, TurningOff, StartingStream
  <2>7. HoldInv'
    BY <1>0, <1>3 DEF TurnOff, Goto, PcType, Threads, flags, rings, converter, HoldInv
  <2>8. FreshInv'
    BY <1>0, <1>3 DEF TurnOff, Goto, PcType, Threads, flags, rings, converter, FreshInv
  <2>9. QED
    BY <2>1, <2>2, <2>3, <2>4, <2>5, <2>6, <2>7, <2>8 DEF TypeInv, PipelineInv
<1>4. CASE StopInput
  <2>1. PcType'
    BY <1>0, <1>4 DEF StopInput, Goto, PcType, Threads, AppStates, SubmitStates, R2iqStates,
       PollStates, StatsStates
  <2>2. FlagType'
    BY <1>0, <1>4, SameFlags DEF StopInput
  <2>3. RingType' /\ real'.blocks = real.blocks /\ iq' = iq
    BY <1>0, <1>4 DEF StopInput, StopRing, RingType, RingOf
  <2>4. UsbType'
    BY <1>0, <1>4, SameUsb DEF StopInput
  <2>5. BlockType'
    BY <1>0, <1>4, SameBlocks DEF StopInput
  <2>6. LifeInv'
    BY <1>0, <1>4 DEF StopInput, Goto, Join, PcType, Threads, flags, LifeInv, Quiet, InSession,
       Partial, Polling, Closing, TurningOff, StartingStream
  <2>7. HoldInv'
    BY <1>0, <1>4, <2>3 DEF StopInput, Goto, PcType, Threads, flags, converter, HoldInv
  <2>8. FreshInv'
    BY <1>0, <1>4, <2>3 DEF StopInput, Goto, PcType, Threads, flags, converter, FreshInv
  <2>9. QED
    BY <2>1, <2>2, <2>3, <2>4, <2>5, <2>6, <2>7, <2>8 DEF TypeInv, PipelineInv
<1>5. CASE StopOutput
  <2>1. PcType'
    BY <1>0, <1>5 DEF StopOutput, Goto, PcType, Threads, AppStates, SubmitStates, R2iqStates,
       PollStates, StatsStates
  <2>2. FlagType'
    BY <1>0, <1>5, SameFlags DEF StopOutput
  <2>3. RingType' /\ iq'.blocks = iq.blocks /\ real' = real
    BY <1>0, <1>5 DEF StopOutput, StopRing, RingType, RingOf
  <2>4. UsbType'
    BY <1>0, <1>5, SameUsb DEF StopOutput
  <2>5. BlockType'
    BY <1>0, <1>5, SameBlocks DEF StopOutput
  <2>6. LifeInv'
    BY <1>0, <1>5 DEF StopOutput, Goto, Join, PcType, Threads, flags, LifeInv, Quiet,
       InSession, Partial, Polling, Closing, TurningOff, StartingStream
  <2>7. HoldInv'
    BY <1>0, <1>5, <2>3 DEF StopOutput, Goto, PcType, Threads, flags, converter, HoldInv
  <2>8. FreshInv'
    BY <1>0, <1>5, <2>3 DEF StopOutput, Goto, PcType, Threads, flags, converter, FreshInv
  <2>9. QED
    BY <2>1, <2>2, <2>3, <2>4, <2>5, <2>6, <2>7, <2>8 DEF TypeInv, PipelineInv
<1>6. CASE JoinR2iq
  <2>1. PcType'
    BY <1>0, <1>6 DEF JoinR2iq, Join, Goto, PcType, Threads, AppStates, SubmitStates,
       R2iqStates, PollStates, StatsStates
  <2>2. FlagType'
    BY <1>0, <1>6, SameFlags DEF JoinR2iq
  <2>3. RingType'
    BY <1>0, <1>6, SameRings DEF JoinR2iq
  <2>4. UsbType'
    BY <1>0, <1>6, SameUsb DEF JoinR2iq
  <2>5. BlockType'
    BY <1>0, <1>6, SameBlocks DEF JoinR2iq
  <2>6. LifeInv'
    BY <1>0, <1>6 DEF JoinR2iq, Goto, Join, PcType, Threads, flags, LifeInv, Quiet, InSession,
       Partial, Polling, Closing, TurningOff, StartingStream
  <2>7. HoldInv'
    BY <1>0, <1>6 DEF JoinR2iq, Join, Goto, PcType, Threads, flags, rings, converter, HoldInv
  <2>8. FreshInv'
    BY <1>0, <1>6 DEF JoinR2iq, Join, Goto, PcType, Threads, flags, rings, converter, FreshInv
  <2>9. QED
    BY <2>1, <2>2, <2>3, <2>4, <2>5, <2>6, <2>7, <2>8 DEF TypeInv, PipelineInv
<1>7. CASE StopPolling
  <2>1. PcType'
    BY <1>0, <1>7 DEF StopPolling, Goto, PcType, Threads, AppStates, SubmitStates, R2iqStates,
       PollStates, StatsStates
  <2>2. FlagType'
    BY <1>0, <1>7 DEF StopPolling, FlagType, flags
  <2>3. RingType'
    BY <1>0, <1>7, SameRings DEF StopPolling
  <2>4. UsbType'
    BY <1>0, <1>7, SameUsb DEF StopPolling
  <2>5. BlockType'
    BY <1>0, <1>7, SameBlocks DEF StopPolling
  <2>6. LifeInv'
    BY <1>0, <1>7 DEF StopPolling, Goto, Join, PcType, Threads, flags, LifeInv, Quiet,
       InSession, Partial, Polling, Closing, TurningOff, StartingStream
  <2>7. HoldInv'
    BY <1>0, <1>7 DEF StopPolling, Goto, PcType, Threads, flags, rings, converter, HoldInv
  <2>8. FreshInv'
    BY <1>0, <1>7 DEF StopPolling, Goto, PcType, Threads, flags, rings, converter, FreshInv
  <2>9. QED
    BY <2>1, <2>2, <2>3, <2>4, <2>5, <2>6, <2>7, <2>8 DEF TypeInv, PipelineInv
<1>8. CASE JoinPoll
  <2>1. PcType'
    BY <1>0, <1>8 DEF JoinPoll, Join, Goto, PcType, Threads, AppStates, SubmitStates,
       R2iqStates, PollStates, StatsStates
  <2>2. FlagType'
    BY <1>0, <1>8, SameFlags DEF JoinPoll
  <2>3. RingType'
    BY <1>0, <1>8, SameRings DEF JoinPoll
  <2>4. UsbType'
    BY <1>0, <1>8, SameUsb DEF JoinPoll
  <2>5. BlockType'
    BY <1>0, <1>8, SameBlocks DEF JoinPoll
  <2>6. LifeInv'
    BY <1>0, <1>8 DEF JoinPoll, Goto, Join, PcType, Threads, flags, LifeInv, Quiet, InSession,
       Partial, Polling, Closing, TurningOff, StartingStream
  <2>7. HoldInv'
    BY <1>0, <1>8 DEF JoinPoll, Join, Goto, PcType, Threads, flags, rings, converter, HoldInv
  <2>8. FreshInv'
    BY <1>0, <1>8 DEF JoinPoll, Join, Goto, PcType, Threads, flags, rings, converter, FreshInv
  <2>9. QED
    BY <2>1, <2>2, <2>3, <2>4, <2>5, <2>6, <2>7, <2>8 DEF TypeInv, PipelineInv
<1>9. CASE StreamingStop
  <2>1. PcType'
    BY <1>0, <1>9 DEF StreamingStop, Goto, PcType, Threads, AppStates, SubmitStates,
       R2iqStates, PollStates, StatsStates
  <2>2. FlagType'
    BY <1>0, <1>9, SameFlags DEF StreamingStop
  <2>3. RingType'
    BY <1>0, <1>9, SameRings DEF StreamingStop
  <2>4. UsbType' /\ usb'.status = "cancelled"
    BY <1>0, <1>9 DEF StreamingStop, UsbType, UsbStates
  <2>5. BlockType'
    BY <1>0, <1>9, SameBlocks DEF StreamingStop
  <2>6. LifeInv'
    BY <1>0, <1>9, <2>4 DEF StreamingStop, Goto, PcType, Threads, flags, LifeInv, Quiet,
       InSession, Partial, Polling, Closing, TurningOff, StartingStream
  <2>7. HoldInv'
    <3>1. pc["poll"] = "none"
      BY <1>0, <1>9 DEF StreamingStop, LifeInv, Quiet, InSession, Partial, Polling, Closing,
         TurningOff, StartingStream
    <3>2. QED
      BY <1>0, <1>9, <3>1 DEF StreamingStop, Goto, PcType, Threads, flags, rings, converter,
         HoldInv
  <2>8. FreshInv'
    BY <1>0, <1>9 DEF StreamingStop, Goto, PcType, Threads, flags, rings, converter, FreshInv
  <2>9. QED
    BY <2>1, <2>2, <2>3, <2>4, <2>5, <2>6, <2>7, <2>8 DEF TypeInv, PipelineInv
<1>10. CASE Drain
  <2>1. PcType'
    BY <1>0, <1>10 DEF Drain, Goto, PcType, Threads, AppStates, SubmitStates, R2iqStates,
       PollStates, StatsStates
  <2>2. FlagType'
    BY <1>0, <1>10, SameFlags DEF Drain
  <2>3. RingType'
    BY <1>0, <1>10, SameRings DEF Drain
  <2>4. UsbType' /\ (usb'.status = "failed" \/ usb'.status = usb.status)
    <3>1. CASE TransferTimedOut
      BY <1>0, <1>10, <3>1, TransferEnds DEF Drain
    <3>2. CASE TransferFailed
      BY <1>0, <1>10, <3>2, TransferFails DEF Drain
    <3>3. CASE usb' = [usb EXCEPT !.status = "failed"]
      BY <1>0, <3>3 DEF UsbType, UsbStates
    <3>4. QED
      BY <1>10, <3>1, <3>2, <3>3 DEF Drain
  <2>5. BlockType'
    BY <1>0, <1>10, SameBlocks DEF Drain
  <2>6. LifeInv'
    <3>1. usb.status # "off"
      BY <1>0, <1>10 DEF Drain, LifeInv, Quiet, InSession, Partial, Polling, Closing,
         TurningOff, StartingStream
    <3>2. /\ UNCHANGED flags /\ pc'["app"] = pc["app"]
          /\ \A t \in Workers : pc'[t] = "none" <=> pc[t] = "none"
      BY <1>10 DEF Drain
    <3>3. usb'.status = "off" <=> usb.status = "off"
      BY <2>4, <3>1
    <3>4. QED
      BY <1>0, <3>2, <3>3, WorkerKeepsLife
  <2>7. HoldInv'
    <3>1. pc["poll"] = "none"
      BY <1>0, <1>10 DEF Drain, LifeInv, Quiet, InSession, Partial, Polling, Closing,
         TurningOff, StartingStream
    <3>2. QED
      BY <1>0, <1>10, <3>1 DEF Drain, Goto, PcType, Threads, flags, rings, converter, HoldInv
  <2>8. FreshInv'
    BY <1>0, <1>10 DEF Drain, Goto, PcType, Threads, flags, rings, converter, FreshInv
  <2>9. QED
    BY <2>1, <2>2, <2>3, <2>4, <2>5, <2>6, <2>7, <2>8 DEF TypeInv, PipelineInv
<1>11. CASE StreamingClose
  <2>1. PcType'
    BY <1>0, <1>11 DEF StreamingClose, Goto, PcType, Threads, AppStates, SubmitStates,
       R2iqStates, PollStates, StatsStates
  <2>2. FlagType'
    BY <1>0, <1>11, SameFlags DEF StreamingClose
  <2>3. RingType'
    BY <1>0, <1>11, SameRings DEF StreamingClose
  <2>4. UsbType' /\ usb'.status = "off"
    BY <1>0, <1>11 DEF StreamingClose, UsbType, UsbStates
  <2>5. BlockType'
    BY <1>0, <1>11, SameBlocks DEF StreamingClose
  <2>6. LifeInv'
    BY <1>0, <1>11, <2>4 DEF StreamingClose, Goto, PcType, Threads, flags, LifeInv, Quiet,
       InSession, Partial, Polling, Closing, TurningOff, StartingStream
  <2>7. HoldInv'
    <3>1. pc["poll"] = "none"
      BY <1>0, <1>11 DEF StreamingClose, LifeInv, Quiet, InSession, Partial, Polling, Closing,
         TurningOff, StartingStream
    <3>2. QED
      BY <1>0, <1>11, <3>1 DEF StreamingClose, Goto, PcType, Threads, flags, rings, converter,
         HoldInv
  <2>8. FreshInv'
    BY <1>0, <1>11 DEF StreamingClose, Goto, PcType, Threads, flags, rings, converter, FreshInv
  <2>9. QED
    BY <2>1, <2>2, <2>3, <2>4, <2>5, <2>6, <2>7, <2>8 DEF TypeInv, PipelineInv
<1>12. CASE JoinStats
  <2>1. PcType'
    BY <1>0, <1>12 DEF JoinStats, Join, Goto, PcType, Threads, AppStates, SubmitStates,
       R2iqStates, PollStates, StatsStates
  <2>2. FlagType'
    BY <1>0, <1>12, SameFlags DEF JoinStats
  <2>3. RingType'
    BY <1>0, <1>12, SameRings DEF JoinStats
  <2>4. UsbType'
    BY <1>0, <1>12, SameUsb DEF JoinStats
  <2>5. BlockType'
    BY <1>0, <1>12, SameBlocks DEF JoinStats
  <2>6. LifeInv'
    BY <1>0, <1>12 DEF JoinStats, Goto, Join, PcType, Threads, flags, LifeInv, Quiet,
       InSession, Partial, Polling, Closing, TurningOff, StartingStream
  <2>7. HoldInv'
    BY <1>0, <1>12 DEF JoinStats, Join, Goto, PcType, Threads, flags, rings, converter, HoldInv
  <2>8. FreshInv'
    BY <1>0, <1>12 DEF JoinStats, Join, Goto, PcType, Threads, flags, rings, converter, FreshInv
  <2>9. QED
    BY <2>1, <2>2, <2>3, <2>4, <2>5, <2>6, <2>7, <2>8 DEF TypeInv, PipelineInv
<1>13. CASE StopDevice
  <2>1. PcType'
    BY <1>0, <1>13 DEF StopDevice, AfterStop, Goto, PcType, Threads, AppStates, SubmitStates,
       R2iqStates, PollStates, StatsStates
  <2>2. FlagType'
    BY <1>0, <1>13 DEF StopDevice, FlagType, flags
  <2>3. RingType'
    BY <1>0, <1>13, SameRings DEF StopDevice
  <2>4. UsbType'
    BY <1>0, <1>13, SameUsb DEF StopDevice
  <2>5. BlockType'
    BY <1>0, <1>13, SameBlocks DEF StopDevice
  <2>6. LifeInv'
    BY <1>0, <1>13 DEF StopDevice, AfterStop, Goto, PcType, Threads, flags, LifeInv, Quiet,
       InSession, Partial, Polling, Closing, TurningOff, StartingStream
  <2>7. HoldInv'
    BY <1>0, <1>13 DEF StopDevice, Goto, PcType, Threads, flags, rings, converter, HoldInv
  <2>8. FreshInv'
    BY <1>0, <1>13 DEF StopDevice, Goto, PcType, Threads, flags, rings, converter, FreshInv
  <2>9. QED
    BY <2>1, <2>2, <2>3, <2>4, <2>5, <2>6, <2>7, <2>8 DEF TypeInv, PipelineInv
<1>14. QED
  BY <1>1, <1>2, <1>3, <1>4, <1>5, <1>6, <1>7, <1>8, <1>9, <1>10, <1>11, <1>12, <1>13
     DEF StopSteps

-----------------------------------------------------------------------------
(* The user's thread: Start, Pause and Resume.                             *)

LEMMA StartKeeps ==
    ASSUME PipelineInv, StartSteps
    PROVE  PipelineInv'
<1>0. /\ PcType /\ FlagType /\ RingType /\ UsbType /\ BlockType
      /\ LifeInv /\ HoldInv /\ FreshInv
      /\ Cap \in Nat \ {0} /\ Transfers \in Nat \ {0} /\ DecRatio \in Nat \ {0}
  BY PipelineAssumption DEF PipelineInv, TypeInv, PipelineAssumption
<1>1. CASE StartDevice
  <2>1. PcType'
    BY <1>0, <1>1 DEF StartDevice, Goto, PcType, Threads, AppStates, SubmitStates, R2iqStates,
       PollStates, StatsStates
  <2>2. FlagType'
    BY <1>0, <1>1 DEF StartDevice, FlagType, flags
  <2>3. RingType'
    BY <1>0, <1>1, SameRings DEF StartDevice
  <2>4. UsbType'
    BY <1>0, <1>1, SameUsb DEF StartDevice
  <2>5. BlockType'
    BY <1>0, <1>1 DEF StartDevice, BlockType, Sessions, converter
  <2>6. LifeInv'
    BY <1>0, <1>1 DEF StartDevice, Goto, Join, PcType, Threads, flags, LifeInv, Quiet,
       InSession, Partial, Polling, Closing, TurningOff, StartingStream
  <2>7. HoldInv'
    BY <1>0, <1>1 DEF StartDevice, Goto, PcType, Threads, flags, rings, converter, HoldInv
  <2>8. FreshInv'
    <3>1. /\ pc["submit"] = "none" /\ pc["r2iq"] = "none"
          /\ pc["poll"] = "none" /\ pc["stats"] = "none"
      BY <1>0, <1>1 DEF StartDevice, LifeInv, Quiet, InSession, Partial, Polling, Closing,
         TurningOff, StartingStream
    <3>2. QED
      BY <1>0, <1>1, <3>1 DEF StartDevice, Goto, PcType, Threads, FreshInv
  <2>9. QED
    BY <2>1, <2>2, <2>3, <2>4, <2>5, <2>6, <2>7, <2>8 DEF TypeInv, PipelineInv
<1>2. CASE StartR2iq
  <2>1. PcType'
    BY <1>0, <1>2 DEF StartR2iq, Goto, PcType, Threads, AppStates, SubmitStates, R2iqStates,
       PollStates, StatsStates
  <2>2. FlagType'
    BY <1>0, <1>2 DEF StartR2iq, FlagType, flags
  <2>3. RingType'
    <3>1. CASE UNCHANGED rings
      BY <1>0, <3>1, SameRings
    <3>2. CASE real' = EmptyRing /\ iq' = EmptyRing
      BY <1>0, <3>2, EmptyRingIs DEF RingType
    <3>3. QED
      BY <1>2, <3>1, <3>2 DEF StartR2iq, StartRing
  <2>4. UsbType'
    BY <1>0, <1>2, SameUsb DEF StartR2iq
  <2>5. BlockType'
    BY <1>0, <1>2 DEF StartR2iq, BlockType
  <2>6. LifeInv'
    <3>1. /\ pc["app"] = "start_r2iq" /\ pc'["app"] = "start_stream"
          /\ UNCHANGED <<streamRunning, fx3Running, usb>>
          /\ pc'["submit"] = pc["submit"] /\ pc'["poll"] = pc["poll"]
          /\ pc'["stats"] = pc["stats"]
      BY <1>0, <1>2 DEF StartR2iq, Goto, PcType, Threads
    <3>2. Partial
      BY <1>0, <3>1 DEF LifeInv
    <3>3. CASE request = "iq"
      <4>1. r2iqEnabled' /\ r2iqOn' /\ pc'["r2iq"] = "loop"
        BY <1>0, <1>2, <3>3 DEF StartR2iq, PcType, Threads
      <4>2. Partial'
        BY <3>1, <3>2, <4>1 DEF Partial, Polling, Closing, TurningOff, StartingStream
      <4>3. QED
        BY <3>1, <4>2 DEF LifeInv
    <3>4. CASE request # "iq"
      <4>1. ~r2iqEnabled' /\ r2iqOn' = r2iqOn /\ pc'["r2iq"] = pc["r2iq"]
        BY <1>0, <1>2, <3>4 DEF StartR2iq, Goto, PcType, Threads
      <4>2. Partial'
        BY <3>1, <3>2, <4>1 DEF Partial, Polling, Closing, TurningOff, StartingStream
      <4>3. QED
        BY <3>1, <4>2 DEF LifeInv
    <3>5. QED
      BY <3>3, <3>4
  <2>7. HoldInv'
    <3>1. /\ pc["submit"] = "none" /\ pc["r2iq"] = "none"
          /\ pc["poll"] = "none" /\ pc["stats"] = "none"
      BY <1>0, <1>2 DEF StartR2iq, LifeInv, Quiet, InSession, Partial, Polling, Closing,
         TurningOff, StartingStream
    <3>2. Len(iq.blocks) <= Cap
      BY <1>0 DEF RingType
    <3>3. CASE request = "iq"
      <4>1. Len(iq'.blocks) < Cap
        BY <1>0, <1>2, <3>3 DEF StartR2iq, StartRing, EmptyRing
      <4>2. QED
        BY <1>0, <1>2, <3>1, <3>3, <4>1 DEF StartR2iq, Goto, PcType, Threads, HoldInv
    <3>4. CASE request # "iq"
      BY <1>0, <1>2, <3>1, <3>4 DEF StartR2iq, Goto, PcType, Threads, HoldInv
    <3>5. QED
      BY <3>3, <3>4
  <2>8. FreshInv'
    <3>1. /\ pc["submit"] = "none" /\ pc["r2iq"] = "none"
          /\ pc["poll"] = "none" /\ pc["stats"] = "none"
      BY <1>0, <1>2 DEF StartR2iq, LifeInv, Quiet, InSession, Partial, Polling, Closing,
         TurningOff, StartingStream
    <3>2. out' = {} /\ folded' = 0 /\ pc'["r2iq"] # "commit"
      BY <1>0, <1>2, <3>1 DEF StartR2iq, Goto, PcType, Threads
    <3>3. pc'["r2iq"] # "none" => real' = EmptyRing /\ iq' = EmptyRing
      BY <1>0, <1>2, <3>1 DEF StartR2iq, StartRing, Goto, PcType, Threads
    <3>4. <<>> \in Seq({session'}) /\ <<>> \in Seq({{session'}})
      OBVIOUS
    <3>5. QED
      BY <3>2, <3>3, <3>4, EmptyRingIs DEF FreshInv
  <2>9. QED
    BY <2>1, <2>2, <2>3, <2>4, <2>5, <2>6, <2>7, <2>8 DEF TypeInv, PipelineInv
<1>3. CASE StartStream
  <2>1. PcType'
    BY <1>0, <1>3 DEF StartStream, Goto, PcType, Threads, AppStates, SubmitStates, R2iqStates,
       PollStates, StatsStates
  <2>2. FlagType'
    BY <1>0, <1>3 DEF StartStream, FlagType, flags
  <2>3. RingType'
    BY <1>0, <1>3, SameRings DEF StartStream
  <2>4. UsbType' /\ usb'.status # "off"
    BY <1>0, <1>3 DEF StartStream, UsbType, UsbStates
  <2>5. BlockType'
    BY <1>0, <1>3, SameBlocks DEF StartStream
  <2>6. LifeInv'
    BY <1>0, <1>3, <2>4 DEF StartStream, PcType, Threads, LifeInv, Quiet, InSession, Partial,
       Polling, Closing, TurningOff, StartingStream
  <2>7. HoldInv'
    <3>1. pc["poll"] = "none"
      BY <1>0, <1>3 DEF StartStream, LifeInv, Quiet, InSession, Partial, Polling, Closing,
         TurningOff, StartingStream
    <3>2. QED
      BY <1>0, <1>3, <3>1 DEF StartStream, Goto, PcType, Threads, flags, rings, converter,
         HoldInv
  <2>8. FreshInv'
    BY <1>0, <1>3 DEF StartStream, Goto, PcType, Threads, flags, rings, converter, FreshInv
  <2>9. QED
    BY <2>1, <2>2, <2>3, <2>4, <2>5, <2>6, <2>7, <2>8 DEF TypeInv, PipelineInv
<1>4. CASE StartSubmit
  <2>1. PcType'
    BY <1>0, <1>4 DEF StartSubmit, Goto, PcType, Threads, AppStates, SubmitStates, R2iqStates,
       PollStates, StatsStates
  <2>2. FlagType'
    BY <1>0, <1>4, SameFlags DEF StartSubmit
  <2>3. RingType'
    BY <1>0, <1>4, SameRings DEF StartSubmit
  <2>4. UsbType'
    BY <1>0, <1>4, SameUsb DEF StartSubmit
  <2>5. BlockType'
    BY <1>0, <1>4, SameBlocks DEF StartSubmit
  <2>6. LifeInv'
    BY <1>0, <1>4 DEF StartSubmit, Goto, Join, PcType, Threads, flags, LifeInv, Quiet,
       InSession, Partial, Polling, Closing, TurningOff, StartingStream
  <2>7. HoldInv'
    BY <1>0, <1>4 DEF StartSubmit, Goto, PcType, Threads, flags, rings, converter, HoldInv
  <2>8. FreshInv'
    BY <1>0, <1>4 DEF StartSubmit, Goto, PcType, Threads, flags, rings, converter, FreshInv
  <2>9. QED
    BY <2>1, <2>2, <2>3, <2>4, <2>5, <2>6, <2>7, <2>8 DEF TypeInv, PipelineInv
<1>5. CASE StartStats
  <2>1. PcType'
    BY <1>0, <1>5 DEF StartStats, Goto, PcType, Threads, AppStates, SubmitStates, R2iqStates,
       PollStates, StatsStates
  <2>2. FlagType'
    BY <1>0, <1>5, SameFlags DEF StartStats
  <2>3. RingType'
    BY <1>0, <1>5, SameRings DEF StartStats
  <2>4. UsbType'
    BY <1>0, <1>5, SameUsb DEF StartStats
  <2>5. BlockType'
    BY <1>0, <1>5, SameBlocks DEF StartStats
  <2>6. LifeInv'
    BY <1>0, <1>5 DEF StartStats, Goto, Join, PcType, Threads, flags, LifeInv, Quiet,
       InSession, Partial, Polling, Closing, TurningOff, StartingStream
  <2>7. HoldInv'
    BY <1>0, <1>5 DEF StartStats, Goto, PcType, Threads, flags, rings, converter, HoldInv
  <2>8. FreshInv'
    BY <1>0, <1>5 DEF StartStats, Goto, PcType, Threads, flags, rings, converter, FreshInv
  <2>9. QED
    BY <2>1, <2>2, <2>3, <2>4, <2>5, <2>6, <2>7, <2>8 DEF TypeInv, PipelineInv
<1>6. QED
  BY <1>1, <1>2, <1>3, <1>4, <1>5 DEF StartSteps

LEMMA CallKeeps ==
    ASSUME PipelineInv, Call \/ Pause \/ Resume
    PROVE  PipelineInv'
<1>0. /\ PcType /\ FlagType /\ RingType /\ UsbType /\ BlockType
      /\ LifeInv /\ HoldInv /\ FreshInv
      /\ Cap \in Nat \ {0} /\ Transfers \in Nat \ {0} /\ DecRatio \in Nat \ {0}
  BY PipelineAssumption DEF PipelineInv, TypeInv, PipelineAssumption
<1>1. CASE Call
  <2>1. PcType'
    BY <1>0, <1>1 DEF Call, Goto, PcType, Threads, AppStates, SubmitStates, R2iqStates,
       PollStates, StatsStates
  <2>2. FlagType'
    BY <1>0, <1>1, PipelineAssumption DEF PipelineAssumption, Call, FlagType, flags
  <2>3. RingType'
    BY <1>0, <1>1, SameRings DEF Call
  <2>4. UsbType'
    BY <1>0, <1>1, SameUsb DEF Call
  <2>5. BlockType'
    BY <1>0, <1>1, SameBlocks DEF Call
  <2>6. LifeInv'
    BY <1>0, <1>1 DEF Call, Goto, Join, PcType, Threads, flags, LifeInv, Quiet, InSession,
       Partial, Polling, Closing, TurningOff, StartingStream
  <2>7. HoldInv'
    BY <1>0, <1>1 DEF Call, Goto, PcType, Threads, flags, rings, converter, HoldInv
  <2>8. FreshInv'
    BY <1>0, <1>1 DEF Call, Goto, PcType, Threads, flags, rings, converter, FreshInv
  <2>9. QED
    BY <2>1, <2>2, <2>3, <2>4, <2>5, <2>6, <2>7, <2>8 DEF TypeInv, PipelineInv
<1>2. CASE Pause
  <2>1. PcType'
    BY <1>0, <1>2 DEF Pause, Goto, PcType, Threads, AppStates, SubmitStates, R2iqStates,
       PollStates, StatsStates
  <2>2. FlagType'
    BY <1>0, <1>2 DEF Pause, FlagType, flags
  <2>3. RingType'
    BY <1>0, <1>2, SameRings DEF Pause
  <2>4. UsbType'
    BY <1>0, <1>2, SameUsb DEF Pause
  <2>5. BlockType'
    BY <1>0, <1>2, SameBlocks DEF Pause
  <2>6. LifeInv'
    BY <1>0, <1>2 DEF Pause, Goto, Join, PcType, Threads, flags, LifeInv, Quiet, InSession,
       Partial, Polling, Closing, TurningOff, StartingStream
  <2>7. HoldInv'
    BY <1>0, <1>2 DEF Pause, Goto, PcType, Threads, flags, rings, converter, HoldInv
  <2>8. FreshInv'
    BY <1>0, <1>2 DEF Pause, Goto, PcType, Threads, flags, rings, converter, FreshInv
  <2>9. QED
    BY <2>1, <2>2, <2>3, <2>4, <2>5, <2>6, <2>7, <2>8 DEF TypeInv, PipelineInv
<1>3. CASE Resume
  <2>1. PcType'
    BY <1>0, <1>3 DEF Resume, Goto, PcType, Threads, AppStates, SubmitStates, R2iqStates,
       PollStates, StatsStates
  <2>2. FlagType'
    BY <1>0, <1>3 DEF Resume, FlagType, flags
  <2>3. RingType'
    BY <1>0, <1>3, SameRings DEF Resume
  <2>4. UsbType'
    BY <1>0, <1>3, SameUsb DEF Resume
  <2>5. BlockType'
    BY <1>0, <1>3, SameBlocks DEF Resume
  <2>6. LifeInv'
    BY <1>0, <1>3 DEF Resume, Goto, Join, PcType, Threads, flags, LifeInv, Quiet, InSession,
       Partial, Polling, Closing, TurningOff, StartingStream
  <2>7. HoldInv'
    BY <1>0, <1>3 DEF Resume, Goto, PcType, Threads, flags, rings, converter, HoldInv
  <2>8. FreshInv'
    BY <1>0, <1>3 DEF Resume, Goto, PcType, Threads, flags, rings, converter, FreshInv
  <2>9. QED
    BY <2>1, <2>2, <2>3, <2>4, <2>5, <2>6, <2>7, <2>8 DEF TypeInv, PipelineInv
<1>4. QED
  BY <1>1, <1>2, <1>3

-----------------------------------------------------------------------------
(* The theorems.                                                           *)

LEMMA InitPipeline == Init => PipelineInv
<1> SUFFICES ASSUME Init PROVE PipelineInv
  OBVIOUS
<1>1. Cap \in Nat \ {0} /\ Transfers \in Nat \ {0} /\ DecRatio \in Nat \ {0}
  BY PipelineAssumption DEF PipelineAssumption
<1>2. DOMAIN pc = Threads
  BY DEF Init, Threads, Workers
<1>3. /\ pc["app"] = "idle" /\ pc["submit"] = "none" /\ pc["r2iq"] = "none"
      /\ pc["poll"] = "none" /\ pc["stats"] = "none"
  BY DEF Init, Workers
<1>4. PcType
  BY <1>2, <1>3 DEF PcType, AppStates, SubmitStates, R2iqStates, PollStates, StatsStates
<1>5. FlagType /\ UsbType /\ BlockType
  <2>1. FlagType
    BY DEF Init, FlagType
  <2>2. UsbType
    BY <1>1 DEF Init, UsbType, UsbStates
  <2>3. BlockType
    BY <1>1 DEF Init, BlockType, Sessions
  <2>4. QED
    BY <2>1, <2>2, <2>3
<1>6. RingType
  BY <1>1, EmptyRingIs DEF Init, RingType
<1>7. LifeInv
  BY <1>3 DEF Init, LifeInv, Quiet
<1>8. HoldInv
  BY <1>1, <1>3, EmptyRingIs DEF Init, HoldInv
<1>9. FreshInv
  BY <1>3 DEF FreshInv
<1>10. QED
  BY <1>4, <1>5, <1>6, <1>7, <1>8, <1>9 DEF PipelineInv, TypeInv

LEMMA StepPipeline == ASSUME PipelineInv, [Next]_vars PROVE PipelineInv'
<1>1. CASE Next
  BY <1>1, PollKeeps, R2iqKeeps, SubmitKeeps, StopKeeps, StartKeeps, CallKeeps DEF Next
<1>2. CASE UNCHANGED vars
  <2>1. /\ PcType' /\ FlagType' /\ RingType' /\ UsbType' /\ BlockType'
    BY <1>2, SameFlags, SameRings, SameUsb, SameBlocks
    DEF PipelineInv, TypeInv, PcType, vars, flags, rings, converter
  <2>2. LifeInv'
    BY <1>2, WorkerKeepsLife DEF PipelineInv, vars, flags
  <2>3. HoldInv' /\ FreshInv'
    BY <1>2 DEF PipelineInv, HoldInv, FreshInv, vars
  <2>4. QED
    BY <2>1, <2>2, <2>3 DEF PipelineInv, TypeInv
<1>3. QED
  BY <1>1, <1>2

\* The strengthening of the invariants below holds in every behaviour.
THEOREM PipelineInvariant == Spec => []PipelineInv
<1>1. Init => PipelineInv
  BY InitPipeline
<1>2. PipelineInv /\ [Next]_vars => PipelineInv'
  BY StepPipeline
<1>3. QED
  BY <1>1, <1>2, PTL DEF Spec

\* Every variable keeps its type: no ring holds more blocks than it has, and
\* the count of transfers stays between 0 and their number.
THEOREM TypeCorrect == Spec => []TypeOK
<1>1. PipelineInv => TypeOK
  <2> SUFFICES ASSUME PipelineInv PROVE TypeOK
    OBVIOUS
  <2>1. PcType /\ FlagType /\ RingType /\ UsbType /\ BlockType
    BY DEF PipelineInv, TypeInv
  <2>2. Len(real.blocks) <= Cap /\ \A i \in DOMAIN real.blocks : real.blocks[i] \in Sessions
    BY <2>1 DEF RingType, RingOf
  <2>3. Len(iq.blocks) <= Cap /\ \A i \in DOMAIN iq.blocks : iq.blocks[i] \subseteq Sessions
    BY <2>1 DEF RingType, RingOf
  <2>4. /\ pc["app"] \in AppStates
        /\ pc["submit"] \in Idle \cup {"loop", "acquire", "check", "callback", "release"}
        /\ pc["r2iq"] \in Idle \cup {"loop", "acquire_in", "check", "acquire_out", "convert",
                                     "commit", "release_in"}
        /\ pc["poll"] \in Idle \cup {"loop", "events", "acquire", "commit"}
        /\ pc["stats"] \in Idle \cup {"loop"}
    BY <2>1 DEF PcType, SubmitStates, R2iqStates, PollStates, StatsStates, Idle
  <2>5. usb.status \in {"off", "streaming", "cancelled", "failed"}
        /\ usb.active \in 0 .. Transfers
    BY <2>1 DEF UsbType, UsbStates
  <2>6. {streamRunning, r2iqEnabled, r2iqOn, fx3Running, device, submitIq, delivered}
            \subseteq BOOLEAN
    BY <2>1 DEF FlagType
  <2>7. QED
    BY <2>1, <2>2, <2>3, <2>4, <2>5, <2>6 DEF TypeOK, FlagType, BlockType
<1>2. QED
  BY <1>1, PipelineInvariant, PTL

\* The converter and the submit thread never both read the raw ring.
THEOREM RingsHaveOneReader == Spec => []OneReader
<1>1. PipelineInv => OneReader
  <2> SUFFICES ASSUME PipelineInv, ~OneReader PROVE FALSE
    OBVIOUS
  <2>1. /\ pc["r2iq"] \notin {"none", "ended", "loop"}
        /\ pc["submit"] \notin {"none", "ended", "loop"} /\ ~submitIq
    BY DEF OneReader, Idle
  <2>2. submitIq = r2iqEnabled
    BY <2>1 DEF PipelineInv, HoldInv
  <2>3. r2iqEnabled
    BY <2>1, SubmitAndR2iq DEF PipelineInv, TypeInv
  <2>4. QED
    BY <2>1, <2>2, <2>3
<1>2. QED
  BY <1>1, PipelineInvariant, PTL

\* When Stop has returned no thread, no transfer and no flag of the session is
\* left, whatever failed.
THEOREM StopMeansQuiet == Spec => []StoppedIsQuiet
<1>1. PipelineInv => StoppedIsQuiet
  BY DEF PipelineInv, LifeInv, Quiet, StoppedIsQuiet, Workers
<1>2. QED
  BY <1>1, PipelineInvariant, PTL

\* An I/Q callback is called with samples of its own session only.
THEOREM DataIsFresh == Spec => []FreshData
<1>1. PipelineInv => FreshData
  <2> SUFFICES ASSUME PipelineInv, pc["submit"] = "callback", submitIq
               PROVE  iq.blocks[1] = {session}
    BY DEF FreshData
  <2>1. r2iqEnabled /\ iq.blocks # <<>>
    BY DEF PipelineInv, HoldInv
  <2>2. pc["r2iq"] # "none"
    BY <2>1, SubmitAndR2iq DEF PipelineInv, TypeInv
  <2>3. iq.blocks \in Seq({{session}})
    BY <2>2 DEF PipelineInv, FreshInv
  <2>4. QED
    BY <2>1, <2>3
<1>2. QED
  BY <1>1, PipelineInvariant, PTL

\* The rings are restarted only while no thread is at either end of one, which
\* is what RingRefinesFifo needs of the callers of Start.
THEOREM RingsAlwaysStartIdle == Spec => RingsStartIdle
<1>1. PipelineInv /\ [Next]_vars
          => [~r2iqOn /\ r2iqOn' => \A t \in Workers : ~Alive(t)]_vars
  <2> SUFFICES ASSUME PipelineInv, [Next]_vars, ~r2iqOn, r2iqOn', NEW t \in Workers
               PROVE  ~Alive(t)
    OBVIOUS
  <2>1. StartR2iq
    BY DEF Next, Call, Pause, Resume, StopSteps, StopBegin, JoinSubmit, TurnOff, StopInput,
           StopOutput, JoinR2iq, StopPolling, JoinPoll, StreamingStop, Drain, StreamingClose,
           JoinStats, StopDevice, StartSteps, StartDevice, StartStream, StartSubmit, StartStats,
           PollSteps, PollLoop, PollReturn, PollAcquire, PollCommit, PollComplete, PollError,
           PollTimeout, R2iqSteps, R2iqLoop, R2iqAcquireIn, R2iqCheck, R2iqAcquireOut,
           R2iqConvert, R2iqCommit, R2iqReleaseIn, OnDataPacket, SubmitLoop, SubmitAcquire,
           SubmitCheck, SubmitCallback, SubmitRelease, CaculateStats, flags, vars
  <2>2. pc["app"] = "start_r2iq" /\ Partial
    BY <2>1 DEF StartR2iq, PipelineInv, LifeInv
  <2>3. QED
    BY <2>2 DEF Partial, Polling, Closing, TurningOff, StartingStream, Workers, Alive
<1>2. QED
  BY <1>1, PipelineInvariant, PTL DEF Spec, RingsStartIdle
-----------------------------------------------------------------------------
(* The part of the pipeline that is about USB implements TransferCount.    *)

\* Statements of Stop that TransferCount tells apart.
UsbStages == {"join_poll", "cancel", "drain"}

\* A step that neither USB nor the poll thread takes part in is not seen.
LEMMA Unseen ==
    ASSUME UNCHANGED <<usb, fx3Running>>, pc'["poll"] = pc["poll"],
           \/ pc'["app"] = pc["app"]
           \/ pc["app"] \notin UsbStages /\ pc'["app"] \notin UsbStages
    PROVE  UNCHANGED Count!vars
  BY DEF Count!vars, Poll, Stage, UsbStages

\* The poll thread's steps do not open or close the transfers.
LEMMA StageKept ==
    ASSUME usb.status # "off", usb'.status \in {"failed", usb.status}, pc'["app"] = pc["app"]
    PROVE  Stage' = Stage
  BY DEF Stage

LEMMA InitCounts == Init => Count!Init
<1> SUFFICES ASSUME Init PROVE Count!Init
  OBVIOUS
<1>1. pc["poll"] = "none" /\ usb = [status |-> "off", active |-> 0]
  BY DEF Init, Workers
<1>2. Poll = "none" /\ Stage = "closed"
  BY <1>1 DEF Poll, Stage
<1>3. QED
  BY <1>1, <1>2 DEF Init, Count!Init, Count!Off

LEMMA PollCounts ==
    ASSUME PipelineInv, PollSteps \/ PollComplete \/ PollError \/ PollTimeout
    PROVE  Count!Next \/ UNCHANGED Count!vars
<1>0. PcType /\ LifeInv /\ HoldInv /\ UsbType
  BY DEF PipelineInv, TypeInv
<1>1. pc["poll"] # "none" /\ usb.status # "off"
  BY <1>0, PollHasUsb
  DEF PollSteps, PollLoop, PollReturn, PollAcquire, PollCommit, PollComplete, PollError,
      PollTimeout
<1>2. pc'["app"] = pc["app"] /\ UNCHANGED fx3Running
  BY <1>0
  DEF PollSteps, PollLoop, PollReturn, PollAcquire, PollCommit, PollComplete, PollError,
      PollTimeout, Resubmit, Goto, PcType, Threads, flags
<1>3. ASSUME usb' = usb \/ TransferFailed \/ TransferTimedOut PROVE Stage' = Stage
  BY <1>0, <1>1, <1>2, <1>3, StageKept
  DEF TransferFailed, TransferTimedOut, UsbType, UsbStates
<1>4. ASSUME pc["poll"] \in {"acquire", "commit"}, Resubmit PROVE Count!Next
  <2>1. Poll = "packet" /\ Poll' = "events"
    BY <1>0, <1>4 DEF Resubmit, Goto, Poll, PcType, Threads
  <2>2. Stage' = Stage
    BY <1>3, <1>4 DEF Resubmit
  <2>3. Count!Resubmit
    BY <1>2, <1>4, <2>1, <2>2 DEF Resubmit, TransferFailed, Count!Resubmit, Count!Failed
  <2>4. QED
    BY <2>3 DEF Count!Next
<1>5. CASE PollLoop
  <2>1. Poll = "loop" /\ Poll' = (IF fx3Running THEN "events" ELSE "ended") /\ Stage' = Stage
    BY <1>0, <1>3, <1>5 DEF PollLoop, Goto, Poll, PcType, Threads
  <2>2. Count!Loop
    BY <1>2, <1>5, <2>1 DEF PollLoop, Count!Loop
  <2>3. QED
    BY <2>2 DEF Count!Next
<1>6. CASE PollReturn
  <2>1. Poll = "events" /\ Poll' = "loop" /\ Stage' = Stage
    BY <1>0, <1>3, <1>6 DEF PollReturn, Goto, Poll, PcType, Threads
  <2>2. Count!Return
    BY <1>2, <1>6, <2>1 DEF PollReturn, Count!Return
  <2>3. QED
    BY <2>2 DEF Count!Next
<1>7. CASE PollAcquire
  <2>1. CASE Resubmit
    BY <1>4, <1>7, <2>1 DEF PollAcquire
  <2>2. CASE Goto("poll", "commit") /\ UNCHANGED usb
    <3>1. Poll = "packet" /\ Poll' = "packet" /\ Stage' = Stage
      BY <1>0, <1>3, <1>7, <2>2 DEF PollAcquire, Goto, Poll, PcType, Threads
    <3>2. QED
      BY <1>2, <2>2, <3>1 DEF Count!vars
  <2>3. QED
    BY <1>7, <2>1, <2>2 DEF PollAcquire
<1>8. CASE PollCommit
  BY <1>4, <1>8 DEF PollCommit
<1>9. CASE PollComplete /\ usb.status = "streaming"
  <2>1. Poll = "events" /\ Poll' = "packet" /\ Stage' = Stage /\ usb' = usb
    BY <1>0, <1>3, <1>9 DEF PollComplete, Goto, Poll, PcType, Threads
  <2>2. Count!Data
    BY <1>2, <1>9, <2>1 DEF PollComplete, Count!Data
  <2>3. QED
    BY <2>2 DEF Count!Next
<1>10. CASE \/ PollComplete /\ usb.status # "streaming"
            \/ PollError \/ PollTimeout
  <2>1. /\ \/ (UsbCanFail \/ usb.status # "streaming") /\ TransferFailed
           \/ TransferTimedOut
        /\ pc' = pc /\ pc["poll"] = "events" /\ usb.active > 0
    BY <1>10 DEF PollComplete, PollError, PollTimeout
  <2>2. Poll = "events" /\ Poll' = Poll /\ Stage' = Stage
    BY <1>3, <2>1 DEF Poll
  <2>3. Count!Finished
    BY <1>2, <2>1, <2>2
    DEF TransferFailed, TransferTimedOut, Count!Finished, Count!Failed, Count!GivenUp
  <2>4. QED
    BY <2>3 DEF Count!Next
<1>11. QED
  BY <1>5, <1>6, <1>7, <1>8, <1>9, <1>10 DEF PollSteps

LEMMA OtherWorkersUnseen ==
    ASSUME PipelineInv, R2iqSteps \/ OnDataPacket \/ CaculateStats
    PROVE  UNCHANGED Count!vars
<1>1. /\ pc'["poll"] = pc["poll"] /\ pc'["app"] = pc["app"]
      /\ UNCHANGED <<usb, fx3Running>>
  BY DEF R2iqSteps, R2iqLoop, R2iqAcquireIn, R2iqCheck, R2iqAcquireOut, R2iqConvert,
     R2iqCommit, R2iqReleaseIn, OnDataPacket, SubmitLoop, SubmitAcquire, SubmitCheck,
     SubmitCallback, SubmitRelease, CaculateStats, Goto, flags, PipelineInv, TypeInv,
     PcType, Threads
<1>2. QED
  BY <1>1, Unseen
LEMMA AppCounts ==
    ASSUME PipelineInv, StopSteps \/ StartSteps \/ Call \/ Pause \/ Resume
    PROVE  Count!Next \/ UNCHANGED Count!vars
<1>0. PcType /\ LifeInv /\ UsbType
  BY DEF PipelineInv, TypeInv
<1>1. CASE Call \/ Pause \/ Resume
  <2>1. /\ pc["app"] = "idle" /\ pc'["app"] \in {"idle", "stop"} /\ pc'["poll"] = pc["poll"]
        /\ UNCHANGED <<usb, fx3Running>>
    BY <1>0, <1>1 DEF Call, Pause, Resume, Goto, PcType, Threads, flags
  <2>2. QED
    BY <2>1, Unseen DEF UsbStages
<1>2. CASE StopBegin \/ JoinSubmit \/ TurnOff \/ StopInput \/ StopOutput \/ JoinR2iq
           \/ JoinStats \/ StopDevice
  <2>1. /\ pc["app"] \notin UsbStages /\ pc'["app"] \notin UsbStages
        /\ pc'["poll"] = pc["poll"] /\ UNCHANGED <<usb, fx3Running>>
    BY <1>0, <1>2 DEF StopBegin, JoinSubmit, TurnOff, StopInput, StopOutput, JoinR2iq,
       JoinStats, StopDevice, AfterStop, Join, Goto, PcType, Threads, flags, UsbStages
  <2>2. QED
    BY <2>1, Unseen
<1>3. CASE StartDevice \/ StartR2iq \/ StartSubmit \/ StartStats
  <2>1. /\ pc["app"] \notin UsbStages /\ pc'["app"] \notin UsbStages
        /\ pc'["poll"] = pc["poll"] /\ UNCHANGED <<usb, fx3Running>>
    BY <1>0, <1>3 DEF StartDevice, StartR2iq, StartSubmit, StartStats, Goto, PcType,
       Threads, flags, UsbStages
  <2>2. QED
    BY <2>1, Unseen
<1>4. CASE StartStream
  <2>1. pc["app"] = "start_stream" /\ Partial
    BY <1>0, <1>4 DEF StartStream, LifeInv
  <2>2. usb.status = "off" /\ pc["poll"] = "none"
    BY <2>1 DEF Partial, Polling, Closing, TurningOff, StartingStream
  <2>3. pc'["app"] = "start_submit" /\ pc'["poll"] = "loop" /\ usb'.status # "off" /\ fx3Running'
    BY <1>0, <1>4 DEF StartStream, PcType, Threads
  <2>4. Stage = "closed" /\ Poll = "none" /\ Stage' = "started" /\ Poll' = "loop"
    BY <2>2, <2>3 DEF Stage, Poll
  <2>5. Count!Start
    BY <1>4, <2>3, <2>4 DEF StartStream, Count!Start
  <2>6. QED
    BY <2>5 DEF Count!Next
<1>5. CASE StopPolling
  <2>1. pc["app"] = "stop_stream" /\ Partial
    BY <1>0, <1>5 DEF StopPolling, LifeInv
  <2>2. usb.status # "off"
    BY <2>1 DEF Partial, Polling, Closing, TurningOff, StartingStream
  <2>3. /\ pc'["app"] = "join_poll" /\ pc'["poll"] = pc["poll"]
        /\ usb' = usb /\ fx3Running' = FALSE
    BY <1>0, <1>5 DEF StopPolling, Goto, PcType, Threads
  <2>4. Stage = "started" /\ Stage' = "join" /\ Poll' = Poll
    BY <2>1, <2>2, <2>3 DEF Stage, Poll
  <2>5. Count!StopPolling
    BY <2>3, <2>4 DEF Count!StopPolling
  <2>6. QED
    BY <2>5 DEF Count!Next
<1>6. CASE JoinPoll
  <2>1. pc["app"] = "join_poll" /\ Partial
    BY <1>0, <1>6 DEF JoinPoll, LifeInv
  <2>2. usb.status # "off" /\ pc["poll"] # "none"
    BY <2>1 DEF Partial, Polling, Closing, TurningOff, StartingStream
  <2>3. /\ pc["poll"] = "ended" /\ pc'["poll"] = "none" /\ pc'["app"] = "cancel"
        /\ UNCHANGED <<usb, fx3Running>>
    BY <1>0, <1>6, <2>2 DEF JoinPoll, Join, Goto, PcType, Threads, flags
  <2>4. Stage = "join" /\ Stage' = "stop" /\ Poll = "ended" /\ Poll' = "none"
    BY <2>1, <2>2, <2>3 DEF Stage, Poll
  <2>5. Count!Join
    BY <2>3, <2>4 DEF Count!Join
  <2>6. QED
    BY <2>5 DEF Count!Next
<1>7. CASE StreamingStop
  <2>1. pc["app"] = "cancel" /\ Partial
    BY <1>0, <1>7 DEF StreamingStop, LifeInv
  <2>2. usb.status # "off"
    BY <2>1 DEF Partial, Polling, Closing, TurningOff, StartingStream
  <2>3. /\ pc'["poll"] = pc["poll"] /\ pc'["app"] = "drain" /\ UNCHANGED fx3Running
        /\ usb' = [usb EXCEPT !.status = "cancelled"] /\ usb'.status = "cancelled"
    BY <1>0, <1>7 DEF StreamingStop, Goto, PcType, Threads, flags, UsbType, UsbStates
  <2>4. Stage = "stop" /\ Stage' = "drain" /\ Poll' = Poll
    BY <2>1, <2>2, <2>3 DEF Stage, Poll
  <2>5. Count!Cancel
    BY <2>3, <2>4 DEF Count!Cancel
  <2>6. QED
    BY <2>5 DEF Count!Next
<1>8. CASE Drain
  <2>1. pc["app"] = "drain" /\ Partial /\ usb.active > 0
    BY <1>0, <1>8 DEF Drain, LifeInv
  <2>2. usb.status # "off"
    BY <2>1 DEF Partial, Polling, Closing, TurningOff, StartingStream
  <2>3. /\ pc' = pc /\ UNCHANGED fx3Running
        /\ \/ Count!Failed
           \/ Count!GivenUp
           \/ UsbCanFail /\ usb' = [usb EXCEPT !.status = "failed"]
    BY <1>8 DEF Drain, TransferFailed, TransferTimedOut, Count!Failed, Count!GivenUp, flags
  <2>4. usb'.status # "off"
    BY <1>0, <2>2, <2>3 DEF Count!Failed, Count!GivenUp, UsbType, UsbStates
  <2>5. Stage = "drain" /\ Stage' = "drain" /\ Poll' = Poll
    BY <2>1, <2>2, <2>3, <2>4 DEF Stage, Poll
  <2>6. Count!Drain
    BY <2>1, <2>3, <2>5 DEF Count!Drain
  <2>7. QED
    BY <2>6 DEF Count!Next
<1>9. CASE StreamingClose
  <2>1. pc["app"] = "drain" /\ Partial /\ usb.active = 0
    BY <1>0, <1>9 DEF StreamingClose, LifeInv
  <2>2. usb.status # "off"
    BY <2>1 DEF Partial, Polling, Closing, TurningOff, StartingStream
  <2>3. /\ pc'["poll"] = pc["poll"] /\ UNCHANGED fx3Running
        /\ usb' = [status |-> "off", active |-> 0] /\ usb'.status = "off"
    BY <1>0, <1>9 DEF StreamingClose, Goto, PcType, Threads, flags
  <2>4. Stage = "drain" /\ Stage' = "closed" /\ Poll' = Poll
    BY <2>1, <2>2, <2>3 DEF Stage, Poll
  <2>5. Count!Close
    BY <2>1, <2>3, <2>4 DEF Count!Close, Count!Off
  <2>6. QED
    BY <2>5 DEF Count!Next
<1>10. QED
  BY <1>1, <1>2, <1>3, <1>4, <1>5, <1>6, <1>7, <1>8, <1>9 DEF StopSteps, StartSteps

LEMMA StepCounts ==
    ASSUME PipelineInv, [Next]_vars
    PROVE  [Count!Next]_(Count!vars)
<1>1. CASE Next
  BY <1>1, PollCounts, OtherWorkersUnseen, AppCounts DEF Next
<1>2. CASE UNCHANGED vars
  BY <1>2, Unseen DEF vars
<1>3. QED
  BY <1>1, <1>2

\* In the pipeline, with its rings, its converter, Pause and failures of the
\* hardware, the status of the stream and the number of transfers change as
\* TransferCount says, as they do in UsbStreaming (TransfersRefineCount).
THEOREM PipelineRefinesCount == Spec => RefinesCount
<1>1. Init => Count!Init
  BY InitCounts
<1>2. PipelineInv /\ [Next]_vars => [Count!Next]_(Count!vars)
  BY StepCounts
<1>3. QED
  BY <1>1, <1>2, PipelineInvariant, PTL DEF Spec, RefinesCount, Count!Spec
\* What TransferCount does not speak of.
NotUsb == <<request, streamRunning, r2iqEnabled, r2iqOn, iq, device, session, submitIq,
            converter, delivered>>

\* The converse, for what libusb and the device decide: whatever TransferCount
\* lets streaming_start, a finished transfer, a repeated submission or the
\* drain come to is a step of the pipeline where its threads stand there.  So
\* no event of a single transfer is lost by counting the transfers only.
THEOREM NoTransferEventIsMissing ==
    ASSUME PipelineInv, CanPause, UNCHANGED NotUsb
    PROVE  /\ (/\ Count!Start /\ pc["app"] = "start_stream" /\ real' = real
               /\ pc' = [pc EXCEPT !["app"] = "start_submit", !["poll"] = "loop"])
              => Next
           /\ (Count!Data /\ pc' = [pc EXCEPT !["poll"] = "acquire"] /\ real' = real)
              => Next
           /\ (Count!Finished /\ pc' = pc /\ real' = real) => Next
           /\ (/\ Count!Resubmit /\ pc' = [pc EXCEPT !["poll"] = "events"]
               /\ \/ pc["poll"] = "acquire" /\ real.stopped /\ real' = real
                  \/ pc["poll"] = "commit" /\ real' = Push(real, session))
              => Next
           /\ (Count!Drain /\ pc' = pc /\ real' = real) => Next
<1>1. ASSUME Count!Start, pc["app"] = "start_stream", real' = real,
             pc' = [pc EXCEPT !["app"] = "start_submit", !["poll"] = "loop"]
      PROVE  Next
  <2>1. StartStream
    BY <1>1 DEF Count!Start, StartStream, NotUsb, rings, converter
  <2>2. QED
    BY <2>1 DEF Next, StartSteps
<1>2. ASSUME Count!Data, pc' = [pc EXCEPT !["poll"] = "acquire"], real' = real
      PROVE  Next
  <2>1. pc["poll"] = "events"
    BY <1>2 DEF Count!Data, Poll
  <2>2. PollComplete
    BY <1>2, <2>1 DEF Count!Data, PollComplete, Goto, NotUsb, rings, converter, flags
  <2>3. QED
    BY <2>2 DEF Next
<1>3. ASSUME Count!Finished, pc' = pc, real' = real
      PROVE  Next
  <2>1. pc["poll"] = "events"
    BY <1>3 DEF Count!Finished, Poll
  <2>2. PollError \/ PollComplete \/ PollTimeout
    BY <1>3, <2>1 DEF Count!Finished, Count!Failed, Count!GivenUp, PollError, PollComplete,
       PollTimeout, TransferFailed, TransferTimedOut, NotUsb, rings, converter, flags
  <2>3. QED
    BY <2>2 DEF Next
<1>4. ASSUME Count!Resubmit, pc' = [pc EXCEPT !["poll"] = "events"],
             \/ pc["poll"] = "acquire" /\ real.stopped /\ real' = real
             \/ pc["poll"] = "commit" /\ real' = Push(real, session)
      PROVE  Next
  <2>1. Resubmit
    BY <1>4 DEF Count!Resubmit, Count!Failed, Resubmit, TransferFailed, Goto
  <2>2. PollAcquire \/ PollCommit
    BY <1>4, <2>1 DEF PollAcquire, PollCommit, Count!Resubmit, NotUsb, rings, converter, flags
  <2>3. QED
    BY <2>2 DEF Next, PollSteps
<1>5. ASSUME Count!Drain, pc' = pc, real' = real
      PROVE  Next
  <2>1. pc["app"] = "drain"
    BY <1>5 DEF Count!Drain, Stage
  <2>2. Drain
    BY <1>5, <2>1 DEF Count!Drain, Count!Failed, Count!GivenUp, Drain, TransferFailed,
       TransferTimedOut, NotUsb, rings, converter, flags
  <2>3. QED
    BY <2>2 DEF Next, StopSteps
<1>6. QED
  BY <1>1, <1>2, <1>3, <1>4, <1>5
=============================================================================
