---------------------------- MODULE UsbStreaming ----------------------------
(***************************************************************************)
(* The asynchronous USB transfers of Core/arch/linux/streaming.cpp, one by *)
(* one, driven by StartStream and StopStream of FX3handler.cpp.            *)
(*                                                                         *)
(* libusb owns a submitted transfer until it has finished and a thread     *)
(* that handles events has run its callback: fx3handler's poll thread      *)
(* while the stream runs, the user's thread inside streaming_stop.  Module *)
(* StreamPipeline keeps the number of such transfers only.  That this      *)
(* number is right is ActiveIsExact; that it behaves as TransferCount says *)
(* is RefinesCount.                                                        *)
(***************************************************************************)
EXTENDS Naturals, FiniteSets

CONSTANTS
    NumFrames,  \* num_frames, the number of transfers (16 in the code)
    CanFail     \* may submissions, transfers and event handling fail?

ASSUME UsbAssumption == NumFrames \in Nat \ {0} /\ CanFail \in BOOLEAN

VARIABLES
    status,     \* streaming_t::status; "none" while there is no streaming_t
    active,     \* streaming_t::active_transfers
    transfer,   \* state of each libusb_transfer
    running,    \* fx3handler::streamRunning
    app, poll,  \* control states of the user's thread and the poll thread
    current     \* the transfer whose data the poll thread hands to PacketRead

vars == <<status, active, transfer, running, app, poll, current>>

Transfers == 1 .. NumFrames

\* A finished transfer waits for its callback.
Finished == {"completed", "timed_out", "error", "cancelled"}
Outstanding == {t \in Transfers : transfer[t] \notin {"freed", "idle"}}

Init ==
    /\ status = "none"
    /\ active = 0
    /\ transfer = [t \in Transfers |-> "freed"]
    /\ running = FALSE
    /\ app = "closed"
    /\ poll = "none"
    /\ current = 1

Becomes(t, state) == transfer' = [transfer EXCEPT ![t] = state]

-----------------------------------------------------------------------------
(* fx3handler::StartStream.                                                *)

\* When the memory for the transfers can be had and the endpoint is one of a
\* USB 3 port.  Otherwise the code returns -1, which StartStream does not look
\* at, and streaming_start follows a null pointer.
StreamingOpenAsync ==
    /\ app = "closed"
    /\ status' = "ready"
    /\ active' = 0
    /\ transfer' = [t \in Transfers |-> "idle"]
    /\ app' = "submit"
    /\ running' = TRUE
    /\ UNCHANGED <<poll, current>>

\* Mutant: the loop runs once too often.
SubmitPastEnd ==
    /\ app = "submit"
    /\ active <= NumFrames
    /\ Becomes(active + 1, "submitted")
    /\ active' = active + 1
    /\ UNCHANGED <<status, running, app, poll, current>>

\* streaming_start submits one transfer after the other.  Nobody handles
\* events yet, so the index of the loop is the number of active transfers.
SubmitNext ==
    /\ app = "submit"
    /\ active < NumFrames
    /\ Becomes(active + 1, "submitted")
    /\ active' = active + 1
    /\ UNCHANGED <<status, running, app, poll, current>>

\* Whatever streaming_start returns, the poll thread is started.
StartPolling ==
    /\ app = "submit"
    /\ \/ active = NumFrames /\ status' = "streaming"
       \/ CanFail /\ active < NumFrames /\ status' = "failed"
    /\ app' = "started"
    /\ poll' = "loop"
    /\ UNCHANGED <<active, transfer, running, current>>

StartStream == StreamingOpenAsync \/ SubmitNext \/ StartPolling

-----------------------------------------------------------------------------
(* libusb and the device (external).                                       *)

\* A submitted transfer completes, times out or fails.
Finish(t) ==
    /\ transfer[t] = "submitted"
    /\ \/ Becomes(t, "completed")
       \/ Becomes(t, "timed_out")
       \/ CanFail /\ Becomes(t, "error")
    /\ UNCHANGED <<status, active, running, app, poll, current>>

-----------------------------------------------------------------------------
(* streaming_read_async_callback.                                          *)

\* The end of the callback's failure path.  The loop that follows cancels
\* the transfer that has just finished, which libusb does not find.
TransferFailed(t) ==
    /\ status' = "failed"
    /\ active' = active - 1
    /\ Becomes(t, "idle")

\* Mutant: a timed out transfer is still counted.
TransferGivenUpUncounted(t) ==
    /\ Becomes(t, "idle")
    /\ UNCHANGED <<status, active>>

\* Cancelled and timed out transfers are given up without a failure.
TransferGivenUp(t) ==
    /\ active' = active - 1
    /\ Becomes(t, "idle")
    /\ UNCHANGED status

\* A completed transfer that is not handed to PacketRead, or one that did
\* not complete; the same in both threads that handle events.
Callback(t) ==
    \/ transfer[t] = "completed" /\ status # "streaming" /\ TransferFailed(t)
    \/ transfer[t] = "error" /\ TransferFailed(t)
    \/ transfer[t] \in {"timed_out", "cancelled"} /\ TransferGivenUp(t)

PollCallback(t) ==
    /\ poll = "events"
    /\ Callback(t)
    /\ UNCHANGED <<running, app, poll, current>>

PollData(t) ==
    /\ poll = "events"
    /\ transfer[t] = "completed"
    /\ status = "streaming"
    /\ poll' = "packet"
    /\ current' = t
    /\ UNCHANGED <<status, active, transfer, running, app>>

\* Mutant: the transfer that could not be submitted again is still counted.
ResubmitUncounted ==
    /\ poll = "packet"
    /\ poll' = "events"
    /\ \/ Becomes(current, "submitted") /\ UNCHANGED status
       \/ CanFail /\ Becomes(current, "idle") /\ status' = "failed"
    /\ UNCHANGED <<active, running, app, current>>

\* PacketRead returned and the transfer is submitted again.
Resubmit ==
    /\ poll = "packet"
    /\ poll' = "events"
    /\ \/ Becomes(current, "submitted") /\ UNCHANGED <<status, active>>
       \/ CanFail /\ TransferFailed(current)
    /\ UNCHANGED <<running, app, current>>

PollLoop ==
    /\ poll = "loop"
    /\ poll' = IF running THEN "events" ELSE "ended"
    /\ UNCHANGED <<status, active, transfer, running, app, current>>

\* libusb_handle_events_completed returns.
PollReturn ==
    /\ poll = "events"
    /\ poll' = "loop"
    /\ UNCHANGED <<status, active, transfer, running, app, current>>

-----------------------------------------------------------------------------
(* fx3handler::StopStream.                                                 *)

StopPolling ==
    /\ app = "started"
    /\ running' = FALSE
    /\ app' = "join"
    /\ UNCHANGED <<status, active, transfer, poll, current>>

\* Mutant: the poll thread is not waited for.
JoinPollSkipped ==
    /\ app = "join"
    /\ app' = "stop"
    /\ UNCHANGED <<status, active, transfer, running, poll, current>>

JoinPoll ==
    /\ app = "join"
    /\ poll = "ended"
    /\ poll' = "none"
    /\ app' = "stop"
    /\ UNCHANGED <<status, active, transfer, running, current>>

StreamingStop ==
    /\ app = "stop"
    /\ status' = "cancelled"
    /\ app' = "drain"
    /\ UNCHANGED <<active, transfer, running, poll, current>>

DrainCallback(t) ==
    /\ app = "drain"
    /\ Callback(t)
    /\ UNCHANGED <<running, app, poll, current>>

DrainError ==
    /\ app = "drain"
    /\ CanFail
    /\ active > 0
    /\ status' = "failed"
    /\ UNCHANGED <<active, transfer, running, app, poll, current>>

\* Mutant: the drain loop leaves the last transfer.
DrainedEarly == active <= 1

Drained == active = 0

\* The cancellations that follow the drain find nothing to cancel.
CancelAll ==
    /\ app = "drain"
    /\ Drained
    /\ transfer' = [t \in Transfers |->
                       IF transfer[t] = "submitted" THEN "cancelled" ELSE transfer[t]]
    /\ app' = "close"
    /\ UNCHANGED <<status, active, running, poll, current>>

StreamingClose ==
    /\ app = "close"
    /\ transfer' = [t \in Transfers |-> "freed"]
    /\ status' = "none"
    /\ app' = "closed"
    /\ UNCHANGED <<active, running, poll, current>>

StopStream ==
    \/ StopPolling \/ JoinPoll \/ StreamingStop \/ DrainError \/ CancelAll
    \/ StreamingClose

Next ==
    \/ StartStream
    \/ StopStream
    \/ PollLoop \/ PollReturn \/ Resubmit
    \/ \E t \in Transfers :
          Finish(t) \/ PollCallback(t) \/ PollData(t) \/ DrainCallback(t)

Spec == Init /\ [][Next]_vars

\* Each submitted transfer finishes, at the latest after BULK_XFER_TIMEOUT;
\* the threads run; libusb returns to the poll loop again and again, and a
\* thread that handles events gets to each finished transfer.  PacketRead
\* returns: the ring it waits for is the subject of StreamPipeline.
FairSpec ==
    /\ Spec
    /\ WF_vars(StartStream)
    /\ WF_vars(PollLoop) /\ SF_vars(PollReturn) /\ WF_vars(Resubmit)
    /\ WF_vars(JoinPoll) /\ WF_vars(StreamingStop)
    /\ WF_vars(CancelAll) /\ WF_vars(StreamingClose)
    /\ \A t \in Transfers : WF_vars(Finish(t)) /\ WF_vars(DrainCallback(t))

-----------------------------------------------------------------------------
\* Type invariant.
TypeOK ==
    /\ status \in {"none", "ready", "streaming", "cancelled", "failed"}
    /\ active \in 0 .. NumFrames
    /\ transfer \in [Transfers -> Finished \cup {"freed", "idle", "submitted"}]
    /\ running \in BOOLEAN
    /\ app \in {"closed", "submit", "started", "join", "stop", "drain", "close"}
    /\ poll \in {"none", "loop", "events", "packet", "ended"}
    /\ current \in Transfers

\* active_transfers counts exactly the transfers libusb owns or whose
\* callback is running, on every path through the callback.
ActiveIsExact == active = Cardinality(Outstanding)

\* streaming_close frees a transfer only when libusb is done with it.
NoFreeInFlight == app = "close" => Outstanding = {}

\* The stream as the rest of the host sees it: streaming_start has returned
\* and streaming_close has not.
Open == app \notin {"closed", "submit"}

Counted == IF Open THEN [status |-> status, active |-> active]
                   ELSE [status |-> "off", active |-> 0]
Stage == CASE ~Open -> "closed"
           [] app = "close" -> "drain"
           [] OTHER -> app

Count == INSTANCE TransferCount WITH
    Transfers <- NumFrames,
    usb <- Counted,
    polling <- Open /\ running,
    stage <- Stage

\* Leaving out which transfer is where loses nothing: with each transfer in a
\* state of its own, submissions that stop half way and callbacks in any
\* order in two threads, status and active_transfers still change as a plain
\* counter's would, and the drain ends at zero only.
RefinesCount == Count!Spec

\* Data goes to PacketRead, and a transfer is submitted again, only while
\* the stream is in the status STREAMING: the status does not change under a
\* callback that has passed its check.
DataWhileStreaming == poll = "packet" => status = "streaming"

\* StopStream ends: the drain loop sees every transfer off.
StopDrains == app = "join" ~> app = "closed"

=============================================================================
