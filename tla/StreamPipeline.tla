--------------------------- MODULE StreamPipeline ---------------------------
(***************************************************************************)
(* The streaming pipeline of libsddc: RadioHandler (Core/RadioHandler.cpp),*)
(* its fx3handler (Core/arch/linux/FX3handler.cpp) with the USB transfers  *)
(* of Core/arch/linux/streaming.cpp, the converter fft_mt_r2iq, and the    *)
(* two rings between them.                                                 *)
(*                                                                         *)
(*   device --USB--> poll --real--> r2iq --iq--> submit --> user callback  *)
(*   device --USB--> poll --real---------------> submit --> user callback  *)
(*                                                                         *)
(* The first path is Start(true), the second Start(false).  The user's     *)
(* thread ("app") calls Start, Stop, Pause and Resume, one at a time.      *)
(*                                                                         *)
(* A ring is used through what module SampleQueue says of it: a bounded    *)
(* FIFO with a stop flag, as the refinement of Ringbuffer establishes.     *)
(* That refinement needs Start to be called on an idle ring, which is      *)
(* RingsStartIdle below.  A block is represented by the session (the Start *)
(* call) in which its samples reached the host.                            *)
(***************************************************************************)
EXTENDS Naturals, Sequences, FiniteSets

CONSTANTS
    Modes,       \* the modes Start is called with: a set of "iq" and "real"
    Cap,         \* blocks per ring (64 in the code)
    Transfers,   \* USB transfers (16 in the code)
    DecRatio,    \* input blocks folded into one I/Q block
    CanPause,    \* may the user call Pause and Resume, so that transfers time out?
    HwCanFail,   \* may STARTFX3 or STOPFX3 fail?
    UsbCanFail   \* may a bulk transfer end with an error?

ASSUME PipelineAssumption ==
    /\ Modes \subseteq {"iq", "real"} /\ Modes # {}
    /\ {Cap, Transfers, DecRatio} \subseteq Nat \ {0}
    /\ {CanPause, HwCanFail, UsbCanFail} \subseteq BOOLEAN

VARIABLES
    pc,            \* control state of each thread
    request,       \* what the user's pending call is: "stop", "iq" or "real"
    streamRunning, \* RadioHandler::streamRunning
    r2iqEnabled,   \* RadioHandler::r2iqEnabled
    r2iqOn,        \* r2iqControlClass::r2iqOn
    fx3Running,    \* fx3handler::streamRunning
    real, iq,      \* the rings: [blocks, stopped]
    usb,           \* streaming_t: [status, active], status "off" when closed
    device,        \* is the device sending?
    session,       \* number of the current session, modulo Sessions
    submitIq,      \* submit: which branch of its loop it is in
    out,           \* r2iq: sessions of the blocks folded into its output block
    folded,        \* r2iq: decimate_count
    delivered      \* has the callback run since the last Start or Resume?

vars == <<pc, request, streamRunning, r2iqEnabled, r2iqOn, fx3Running, real, iq,
          usb, device, session, submitIq, out, folded, delivered>>

Sessions == 0 .. 2
Workers == {"submit", "r2iq", "poll", "stats"}

\* Thread states: "none" cannot be joined, "ended" can.
Alive(t) == pc[t] \notin {"none", "ended"}

Goto(t, state) == pc' = [pc EXCEPT ![t] = state]

\* A std::thread that is not joinable throws when it is joined; a running
\* one blocks the caller.
Join(t, next) ==
    \/ /\ pc[t] = "ended"
       /\ pc' = [pc EXCEPT ![t] = "none", !["app"] = next]
    \/ /\ pc[t] = "none"
       /\ Goto("app", "crashed")

EmptyRing == [blocks |-> <<>>, stopped |-> FALSE]

\* Mutants: Start keeps the blocks, or forgets to clear `stopped`.
StartRingKeeps(ring) == [ring EXCEPT !.stopped = FALSE]
StartRingStopped(ring) == [EmptyRing EXCEPT !.stopped = ring.stopped]

StartRing(ring) == EmptyRing

\* Mutant: TurnOff does not reach this ring.
StopRingForgotten(ring) == ring

StopRing(ring) == [ring EXCEPT !.stopped = TRUE]

\* commitWriteBlock drops the block of a stopped ring, releaseReadBlock does
\* nothing on an empty one.
Push(ring, b) == IF ring.stopped THEN ring ELSE [ring EXCEPT !.blocks = Append(@, b)]
Release(ring) == IF ring.blocks = <<>> THEN ring ELSE [ring EXCEPT !.blocks = Tail(@)]

\* Mutant: the writer gets a block of a full ring.
CanWriteFull(ring) == Len(ring.blocks) <= Cap

CanWrite(ring) == Len(ring.blocks) < Cap
CanRead(ring) == ring.blocks # <<>>

Init ==
    /\ pc = [t \in Workers \cup {"app"} |-> IF t = "app" THEN "idle" ELSE "none"]
    /\ request = "stop"
    /\ streamRunning = FALSE
    /\ r2iqEnabled = FALSE
    /\ r2iqOn = FALSE
    /\ fx3Running = FALSE
    /\ real = EmptyRing
    /\ iq = EmptyRing
    /\ usb = [status |-> "off", active |-> 0]
    /\ device = FALSE
    /\ session = 0
    /\ submitIq = FALSE
    /\ out = {}
    /\ folded = 0
    /\ delivered = FALSE

flags == <<streamRunning, r2iqEnabled, r2iqOn, fx3Running>>
rings == <<real, iq>>
converter == <<out, folded>>

-----------------------------------------------------------------------------
(* The user's thread: RadioHandler::Start, Stop, Pause and Resume.         *)

Call ==
    /\ pc["app"] = "idle"
    /\ request' \in {"stop"} \cup Modes
    /\ Goto("app", "stop")
    /\ UNCHANGED <<flags, rings, usb, device, session, submitIq, converter, delivered>>

\* Where Stop returns to: the user, or the Start that called it.
AfterStop == IF request = "stop" THEN "idle" ELSE "start"

StopBegin ==
    /\ pc["app"] = "stop"
    /\ Goto("app", IF streamRunning THEN "join_submit" ELSE AfterStop)
    /\ streamRunning' = FALSE
    /\ UNCHANGED <<request, r2iqEnabled, r2iqOn, fx3Running, rings, usb, device, session,
                   submitIq, converter, delivered>>

JoinSubmit ==
    /\ pc["app"] = "join_submit"
    /\ Join("submit", "turn_off")
    /\ UNCHANGED <<request, flags, rings, usb, device, session, submitIq, converter, delivered>>

\* fft_mt_r2iq::TurnOff, up to its join.
TurnOff ==
    /\ pc["app"] = "turn_off"
    /\ Goto("app", IF r2iqOn THEN "stop_input" ELSE "stop_stream")
    /\ r2iqOn' = FALSE
    /\ UNCHANGED <<request, streamRunning, r2iqEnabled, fx3Running, rings, usb, device,
                   session, submitIq, converter, delivered>>

StopInput ==
    /\ pc["app"] = "stop_input"
    /\ real' = StopRing(real)
    /\ Goto("app", "stop_output")
    /\ UNCHANGED <<request, flags, iq, usb, device, session, submitIq, converter, delivered>>

StopOutput ==
    /\ pc["app"] = "stop_output"
    /\ iq' = StopRing(iq)
    /\ Goto("app", "join_r2iq")
    /\ UNCHANGED <<request, flags, real, usb, device, session, submitIq, converter, delivered>>

\* Mutant: the thread is not joined.
JoinR2iqSkipped ==
    /\ pc["app"] = "join_r2iq"
    /\ Goto("app", "stop_stream")
    /\ UNCHANGED <<request, flags, rings, usb, device, session, submitIq, converter, delivered>>

JoinR2iq ==
    /\ pc["app"] = "join_r2iq"
    /\ Join("r2iq", "stop_stream")
    /\ UNCHANGED <<request, flags, rings, usb, device, session, submitIq, converter, delivered>>

\* fx3handler::StopStream: its flag, its join, streaming_stop and
\* streaming_close.
StopPolling ==
    /\ pc["app"] = "stop_stream"
    /\ fx3Running' = FALSE
    /\ Goto("app", "join_poll")
    /\ UNCHANGED <<request, streamRunning, r2iqEnabled, r2iqOn, rings, usb, device, session,
                   submitIq, converter, delivered>>

\* Mutant: the thread is not joined.
JoinPollSkipped ==
    /\ pc["app"] = "join_poll"
    /\ Goto("app", "cancel")
    /\ UNCHANGED <<request, flags, rings, usb, device, session, submitIq, converter, delivered>>

JoinPoll ==
    /\ pc["app"] = "join_poll"
    /\ Join("poll", "cancel")
    /\ UNCHANGED <<request, flags, rings, usb, device, session, submitIq, converter, delivered>>

StreamingStop ==
    /\ pc["app"] = "cancel"
    /\ usb' = [usb EXCEPT !.status = "cancelled"]
    /\ Goto("app", "drain")
    /\ UNCHANGED <<request, flags, rings, device, session, submitIq, converter, delivered>>

TransferFailed == usb' = [status |-> "failed", active |-> usb.active - 1]
TransferTimedOut == usb' = [usb EXCEPT !.active = @ - 1]

\* The app's thread handles the events of the transfers still in flight:
\* a completed one counts as a failure, a timed-out one does not, and libusb
\* may fail without handling any.
Drain ==
    /\ pc["app"] = "drain"
    /\ usb.active > 0
    /\ \/ TransferFailed
       \/ CanPause /\ TransferTimedOut
       \/ UsbCanFail /\ usb' = [usb EXCEPT !.status = "failed"]
    /\ UNCHANGED <<pc, request, flags, rings, device, session, submitIq, converter, delivered>>

StreamingClose ==
    /\ pc["app"] = "drain"
    /\ usb.active = 0
    /\ usb' = [status |-> "off", active |-> 0]
    /\ Goto("app", "join_stats")
    /\ UNCHANGED <<request, flags, rings, device, session, submitIq, converter, delivered>>

\* Mutant: the thread is not joined.
JoinStatsSkipped ==
    /\ pc["app"] = "join_stats"
    /\ Goto("app", "stop_device")
    /\ UNCHANGED <<request, flags, rings, usb, device, session, submitIq, converter, delivered>>

JoinStats ==
    /\ pc["app"] = "join_stats"
    /\ Join("stats", "stop_device")
    /\ UNCHANGED <<request, flags, rings, usb, device, session, submitIq, converter, delivered>>

StopDevice ==
    /\ pc["app"] = "stop_device"
    /\ \/ device' = FALSE /\ Goto("app", AfterStop)
       \/ HwCanFail /\ UNCHANGED device /\ Goto("app", "idle")
    /\ UNCHANGED <<request, flags, rings, usb, session, submitIq, converter, delivered>>

\* Start after its Stop: the flag is set before the device is asked.
StartDevice ==
    /\ pc["app"] = "start"
    /\ streamRunning' = TRUE
    /\ session' = (session + 1) % 3
    /\ delivered' = FALSE
    /\ \/ device' = TRUE /\ Goto("app", "start_r2iq")
       \/ HwCanFail /\ UNCHANGED device /\ Goto("app", "idle")
    /\ UNCHANGED <<request, r2iqEnabled, r2iqOn, fx3Running, rings, usb, submitIq, converter>>

\* fft_mt_r2iq::TurnOn restarts both rings and starts its thread.
StartR2iq ==
    /\ pc["app"] = "start_r2iq"
    /\ r2iqEnabled' = (request = "iq")
    /\ IF request = "iq"
       THEN /\ r2iqOn' = TRUE
            /\ real' = StartRing(real)
            /\ iq' = StartRing(iq)
            /\ pc' = [pc EXCEPT !["app"] = "start_stream", !["r2iq"] = "loop"]
       ELSE /\ Goto("app", "start_stream")
            /\ UNCHANGED <<r2iqOn, rings>>
    /\ out' = {}
    /\ folded' = 0
    /\ UNCHANGED <<request, streamRunning, fx3Running, usb, device, session, submitIq, delivered>>

\* fx3handler::StartStream ignores what streaming_start returns.
StartStream ==
    /\ pc["app"] = "start_stream"
    /\ fx3Running' = TRUE
    /\ \/ usb' = [status |-> "streaming", active |-> Transfers]
       \/ /\ UsbCanFail
          /\ \E n \in 0 .. (Transfers - 1) : usb' = [status |-> "failed", active |-> n]
    /\ pc' = [pc EXCEPT !["app"] = "start_submit", !["poll"] = "loop"]
    /\ UNCHANGED <<request, streamRunning, r2iqEnabled, r2iqOn, rings, device, session,
                   submitIq, converter, delivered>>

StartSubmit ==
    /\ pc["app"] = "start_submit"
    /\ pc' = [pc EXCEPT !["app"] = "start_stats", !["submit"] = "loop"]
    /\ UNCHANGED <<request, flags, rings, usb, device, session, submitIq, converter, delivered>>

StartStats ==
    /\ pc["app"] = "start_stats"
    /\ pc' = [pc EXCEPT !["app"] = "idle", !["stats"] = "loop"]
    /\ UNCHANGED <<request, flags, rings, usb, device, session, submitIq, converter, delivered>>

\* Pause and Resume only talk to the device.
Pause ==
    /\ CanPause
    /\ pc["app"] = "idle"
    /\ device' = FALSE
    /\ UNCHANGED <<pc, request, flags, rings, usb, session, submitIq, converter, delivered>>

Resume ==
    /\ CanPause
    /\ pc["app"] = "idle"
    /\ ~device
    /\ device' = TRUE
    /\ delivered' = FALSE
    /\ UNCHANGED <<pc, request, flags, rings, usb, session, submitIq, converter>>

StopSteps ==
    \/ StopBegin \/ JoinSubmit \/ TurnOff \/ StopInput \/ StopOutput \/ JoinR2iq
    \/ StopPolling \/ JoinPoll \/ StreamingStop \/ Drain \/ StreamingClose
    \/ JoinStats \/ StopDevice

StartSteps ==
    StartDevice \/ StartR2iq \/ StartStream \/ StartSubmit \/ StartStats

-----------------------------------------------------------------------------
(* The poll thread: libusb events, the transfer callback and PacketRead.   *)

PollLoop ==
    /\ pc["poll"] = "loop"
    /\ Goto("poll", IF fx3Running THEN "events" ELSE "ended")
    /\ UNCHANGED <<request, flags, rings, usb, device, session, submitIq, converter, delivered>>

\* libusb returns to the loop, at the latest after its own timeout.
PollReturn ==
    /\ pc["poll"] = "events"
    /\ Goto("poll", "loop")
    /\ UNCHANGED <<request, flags, rings, usb, device, session, submitIq, converter, delivered>>

\* A transfer has completed, perhaps before the device was paused: while
\* streaming its data goes to PacketRead, in any other status the transfer is
\* dropped and the status becomes FAILED.
PollComplete ==
    /\ pc["poll"] = "events"
    /\ usb.active > 0
    /\ IF usb.status = "streaming"
       THEN Goto("poll", "acquire") /\ UNCHANGED usb
       ELSE TransferFailed /\ UNCHANGED pc
    /\ UNCHANGED <<request, flags, rings, device, session, submitIq, converter, delivered>>

PollError ==
    /\ UsbCanFail
    /\ pc["poll"] = "events"
    /\ usb.active > 0
    /\ TransferFailed
    /\ UNCHANGED <<pc, request, flags, rings, device, session, submitIq, converter, delivered>>

\* A transfer has timed out while the device was silent, which it need not be
\* any more, and is not submitted again.
PollTimeout ==
    /\ CanPause
    /\ pc["poll"] = "events"
    /\ usb.active > 0
    /\ TransferTimedOut
    /\ UNCHANGED <<pc, request, flags, rings, device, session, submitIq, converter, delivered>>

\* The callback submits the transfer again when PacketRead has returned.
Resubmit ==
    /\ Goto("poll", "events")
    /\ \/ UNCHANGED usb
       \/ UsbCanFail /\ TransferFailed

\* PacketRead asks the ring for a block, inside the event handler; it returns
\* at once when the ring is stopped.
PollAcquire ==
    /\ pc["poll"] = "acquire"
    /\ \/ real.stopped /\ Resubmit
       \/ ~real.stopped /\ CanWrite(real) /\ Goto("poll", "commit") /\ UNCHANGED usb
    /\ UNCHANGED <<request, flags, rings, device, session, submitIq, converter, delivered>>

\* PacketRead commits and returns.
PollCommit ==
    /\ pc["poll"] = "commit"
    /\ real' = Push(real, session)
    /\ Resubmit
    /\ UNCHANGED <<request, flags, iq, device, session, submitIq, converter, delivered>>

PollSteps == PollLoop \/ PollReturn \/ PollAcquire \/ PollCommit

-----------------------------------------------------------------------------
(* The converter thread: fft_mt_r2iq::r2iqThreadf.                         *)

R2iqLoop ==
    /\ pc["r2iq"] = "loop"
    /\ Goto("r2iq", IF r2iqOn THEN "acquire_in" ELSE "ended")
    /\ UNCHANGED <<request, flags, rings, usb, device, session, submitIq, converter, delivered>>

R2iqAcquireIn ==
    /\ pc["r2iq"] = "acquire_in"
    /\ \/ real.stopped /\ Goto("r2iq", "ended")
       \/ ~real.stopped /\ CanRead(real) /\ Goto("r2iq", "check")
    /\ UNCHANGED <<request, flags, rings, usb, device, session, submitIq, converter, delivered>>

\* With no output block in hand it acquires one before it converts.
R2iqCheck ==
    /\ pc["r2iq"] = "check"
    /\ IF r2iqOn
       THEN /\ Goto("r2iq", IF folded = 0 THEN "acquire_out" ELSE "convert")
            /\ UNCHANGED real
       ELSE /\ Goto("r2iq", "ended")
            /\ real' = Release(real)
    /\ UNCHANGED <<request, flags, iq, usb, device, session, submitIq, converter, delivered>>

R2iqAcquireOut ==
    /\ pc["r2iq"] = "acquire_out"
    /\ \/ /\ iq.stopped
          /\ Goto("r2iq", "ended")
          /\ real' = Release(real)
       \/ /\ ~iq.stopped
          /\ CanWrite(iq)
          /\ Goto("r2iq", "convert")
          /\ UNCHANGED real
    /\ UNCHANGED <<request, flags, iq, usb, device, session, submitIq, converter, delivered>>

\* One input block is folded in; the output block is complete after DecRatio.
R2iqConvert ==
    /\ pc["r2iq"] = "convert"
    /\ out' = out \cup {Head(real.blocks)}
    /\ folded' = (folded + 1) % DecRatio
    /\ Goto("r2iq", IF folded' = 0 THEN "commit" ELSE "release_in")
    /\ UNCHANGED <<request, flags, rings, usb, device, session, submitIq, delivered>>

R2iqCommit ==
    /\ pc["r2iq"] = "commit"
    /\ iq' = Push(iq, out)
    /\ out' = {}
    /\ Goto("r2iq", "release_in")
    /\ UNCHANGED <<request, flags, real, usb, device, session, submitIq, folded, delivered>>

R2iqReleaseIn ==
    /\ pc["r2iq"] = "release_in"
    /\ real' = Release(real)
    /\ Goto("r2iq", "loop")
    /\ UNCHANGED <<request, flags, iq, usb, device, session, submitIq, converter, delivered>>

R2iqSteps ==
    \/ R2iqLoop \/ R2iqAcquireIn \/ R2iqCheck \/ R2iqAcquireOut \/ R2iqConvert
    \/ R2iqCommit \/ R2iqReleaseIn

-----------------------------------------------------------------------------
(* The submit thread: RadioHandler::OnDataPacket.                          *)

submitRing == IF submitIq THEN iq ELSE real

ReleaseSubmit ==
    IF submitIq THEN iq' = Release(iq) /\ UNCHANGED real
                ELSE real' = Release(real) /\ UNCHANGED iq

SubmitLoop ==
    /\ pc["submit"] = "loop"
    /\ Goto("submit", IF streamRunning THEN "acquire" ELSE "ended")
    /\ submitIq' = r2iqEnabled
    /\ UNCHANGED <<request, flags, rings, usb, device, session, converter, delivered>>

SubmitAcquire ==
    /\ pc["submit"] = "acquire"
    /\ \/ submitRing.stopped /\ Goto("submit", "ended")
       \/ ~submitRing.stopped /\ CanRead(submitRing) /\ Goto("submit", "check")
    /\ UNCHANGED <<request, flags, rings, usb, device, session, submitIq, converter, delivered>>

SubmitCheck ==
    /\ pc["submit"] = "check"
    /\ IF streamRunning
       THEN Goto("submit", "callback") /\ UNCHANGED rings
       ELSE Goto("submit", "ended") /\ ReleaseSubmit
    /\ UNCHANGED <<request, flags, usb, device, session, submitIq, converter, delivered>>

SubmitCallback ==
    /\ pc["submit"] = "callback"
    /\ delivered' = TRUE
    /\ Goto("submit", "release")
    /\ UNCHANGED <<request, flags, rings, usb, device, session, submitIq, converter>>

SubmitRelease ==
    /\ pc["submit"] = "release"
    /\ ReleaseSubmit
    /\ Goto("submit", "loop")
    /\ UNCHANGED <<request, flags, usb, device, session, submitIq, converter, delivered>>

OnDataPacket ==
    SubmitLoop \/ SubmitAcquire \/ SubmitCheck \/ SubmitCallback \/ SubmitRelease

\* The statistics thread sleeps while the stream runs.
CaculateStats ==
    /\ pc["stats"] = "loop"
    /\ ~streamRunning
    /\ Goto("stats", "ended")
    /\ UNCHANGED <<request, flags, rings, usb, device, session, submitIq, converter, delivered>>

-----------------------------------------------------------------------------
Next ==
    \/ Call \/ Pause \/ Resume
    \/ StopSteps \/ StartSteps
    \/ PollSteps \/ PollComplete \/ PollError \/ PollTimeout
    \/ R2iqSteps
    \/ OnDataPacket
    \/ CaculateStats

Spec == Init /\ [][Next]_vars

\* Threads that can run do run, and a call in progress goes on.  A sending
\* device completes transfers again and again; a transfer of a silent one
\* times out after BULK_XFER_TIMEOUT (both only while transfers are with
\* libusb, hence strong fairness); one call of libusb handles a bounded
\* number of events and returns.  The user has to call nothing, and nothing
\* has to fail.
FairSpec ==
    /\ Spec
    /\ WF_vars(StopSteps) /\ WF_vars(StartSteps)
    /\ WF_vars(PollSteps) /\ SF_vars(PollReturn)
    /\ SF_vars(device /\ PollComplete) /\ SF_vars(~device /\ PollTimeout)
    /\ WF_vars(R2iqSteps) /\ WF_vars(OnDataPacket) /\ WF_vars(CaculateStats)

-----------------------------------------------------------------------------
AppStates == {"idle", "crashed", "stop", "join_submit", "turn_off", "stop_input",
              "stop_output", "join_r2iq", "stop_stream", "join_poll", "cancel",
              "drain", "join_stats", "stop_device", "start", "start_r2iq",
              "start_stream", "start_submit", "start_stats"}

Idle == {"none", "ended"}
InStop == AppStates \ {"idle", "crashed", "start", "start_r2iq", "start_stream",
                       "start_submit", "start_stats"}

\* Type invariant.
TypeOK ==
    /\ pc["app"] \in AppStates
    /\ pc["submit"] \in Idle \cup {"loop", "acquire", "check", "callback", "release"}
    /\ pc["r2iq"] \in Idle \cup {"loop", "acquire_in", "check", "acquire_out", "convert",
                                 "commit", "release_in"}
    /\ pc["poll"] \in Idle \cup {"loop", "events", "acquire", "commit"}
    /\ pc["stats"] \in Idle \cup {"loop"}
    /\ request \in {"stop", "iq", "real"}
    /\ {streamRunning, r2iqEnabled, r2iqOn, fx3Running, device, submitIq, delivered}
          \subseteq BOOLEAN
    /\ Len(real.blocks) <= Cap /\ \A i \in DOMAIN real.blocks : real.blocks[i] \in Sessions
    /\ Len(iq.blocks) <= Cap /\ \A i \in DOMAIN iq.blocks : iq.blocks[i] \subseteq Sessions
    /\ usb.status \in {"off", "streaming", "cancelled", "failed"}
    /\ usb.active \in 0 .. Transfers
    /\ session \in Sessions
    /\ out \subseteq Sessions
    /\ folded \in 0 .. (DecRatio - 1)

\* The rings are restarted only when no thread is at either end of one: what
\* Ringbuffer assumes of its callers, across every Start, Stop and failure.
RingsStartIdle ==
    [][~r2iqOn /\ r2iqOn' => \A t \in Workers : ~Alive(t)]_vars

\* A ring has one reader and one writer (the rings are intentionally SPSC):
\* the converter and the submit thread never both read `real_buffer`.
OneReader ==
    ~ /\ pc["r2iq"] \notin Idle \cup {"loop"}
      /\ pc["submit"] \notin Idle \cup {"loop"}
      /\ ~submitIq

\* Once Stop has returned nothing of the session is left: no thread that
\* could call the user back, nothing to be joined, no transfer open.
StoppedIsQuiet ==
    pc["app"] = "idle" /\ ~streamRunning =>
        /\ \A t \in Workers : pc[t] = "none"
        /\ usb.status = "off"
        /\ ~r2iqOn /\ ~fx3Running

\* An I/Q callback gets samples received in the current session only, though
\* the rings outlive the sessions.
FreshData ==
    pc["submit"] = "callback" /\ submitIq => iq.blocks[1] = {session}

\* Joining never meets a thread that does not exist: Start stops the stream
\* "if it was already running" and only then.
NoBadJoin == pc["app"] # "crashed"

\* The part of the state that is about USB, as TransferCount has it.
Poll == IF pc["poll"] \in {"acquire", "commit"} THEN "packet" ELSE pc["poll"]
Stage == CASE usb.status = "off" -> "closed"
           [] usb.status # "off" /\ pc["app"] = "join_poll" -> "join"
           [] usb.status # "off" /\ pc["app"] = "cancel" -> "stop"
           [] usb.status # "off" /\ pc["app"] = "drain" -> "drain"
           [] OTHER -> "started"

Count == INSTANCE TransferCount WITH
    CanFail <- UsbCanFail,
    polling <- fx3Running,
    poll <- Poll,
    stage <- Stage

\* The transfers of this module behave as those of UsbStreaming do: both
\* implement TransferCount.
RefinesCount == Count!Spec

\* Stop returns.
StopReturns == pc["app"] \in InStop ~> pc["app"] \notin InStop

\* While the device sends and the stream runs, samples reach the callback.
SamplesArrive ==
    pc["app"] = "idle" /\ streamRunning /\ device /\ ~delivered
        ~> delivered \/ ~streamRunning \/ ~device
=============================================================================
