---------------------------- MODULE TransferCount ----------------------------
(***************************************************************************)
(* What a stream of USB transfers is to the rest of the host: a status, a  *)
(* number of transfers still in flight, a poll thread and the steps of     *)
(* StartStream and StopStream (Core/arch/linux/FX3handler.cpp and          *)
(* streaming.cpp).  Which transfer is in which state is left out.          *)
(*                                                                         *)
(* UsbStreaming, which follows each transfer, implements this module, and  *)
(* so does the part of StreamPipeline that is about USB: its count behaves *)
(* as the transfers do.                                                    *)
(***************************************************************************)
EXTENDS Naturals

CONSTANTS
    Transfers,  \* number of transfers of a stream
    CanFail     \* may submissions, transfers and event handling fail?

VARIABLES
    usb,        \* [status, active], status "off" while there is no stream
    polling,    \* fx3handler::streamRunning
    poll,       \* the poll thread; "packet" while PacketRead runs
    stage       \* how far StopStream has got

vars == <<usb, polling, poll, stage>>

Off == [status |-> "off", active |-> 0]

Init ==
    /\ usb = Off
    /\ polling = FALSE
    /\ poll = "none"
    /\ stage = "closed"

\* A finished transfer that is not submitted again, with and without a failure.
GivenUp == usb' = [usb EXCEPT !.active = @ - 1]
Failed == usb' = [status |-> "failed", active |-> usb.active - 1]

-----------------------------------------------------------------------------
\* The poll thread is started even when not all transfers were submitted.
Start ==
    /\ stage = "closed"
    /\ poll = "none"
    /\ \/ usb' = [status |-> "streaming", active |-> Transfers]
       \/ /\ CanFail
          /\ \E n \in 0 .. (Transfers - 1) : usb' = [status |-> "failed", active |-> n]
    /\ polling' = TRUE
    /\ poll' = "loop"
    /\ stage' = "started"

Loop ==
    /\ poll = "loop"
    /\ poll' = IF polling THEN "events" ELSE "ended"
    /\ UNCHANGED <<usb, polling, stage>>

Return ==
    /\ poll = "events"
    /\ poll' = "loop"
    /\ UNCHANGED <<usb, polling, stage>>

\* A transfer has finished: with data for PacketRead while streaming, with
\* data nobody wants, with a failure, or without data.
Data ==
    /\ poll = "events"
    /\ usb.active > 0
    /\ usb.status = "streaming"
    /\ poll' = "packet"
    /\ UNCHANGED <<usb, polling, stage>>

Finished ==
    /\ poll = "events"
    /\ usb.active > 0
    /\ \/ (CanFail \/ usb.status # "streaming") /\ Failed
       \/ GivenUp
    /\ UNCHANGED <<polling, poll, stage>>

Resubmit ==
    /\ poll = "packet"
    /\ poll' = "events"
    /\ \/ UNCHANGED usb
       \/ CanFail /\ Failed
    /\ UNCHANGED <<polling, stage>>

-----------------------------------------------------------------------------
StopPolling ==
    /\ stage = "started"
    /\ polling' = FALSE
    /\ stage' = "join"
    /\ UNCHANGED <<usb, poll>>

Join ==
    /\ stage = "join"
    /\ poll = "ended"
    /\ poll' = "none"
    /\ stage' = "stop"
    /\ UNCHANGED <<usb, polling>>

Cancel ==
    /\ stage = "stop"
    /\ usb' = [usb EXCEPT !.status = "cancelled"]
    /\ stage' = "drain"
    /\ UNCHANGED <<polling, poll>>

\* The status is not STREAMING any more, so data counts as a failure.
Drain ==
    /\ stage = "drain"
    /\ usb.active > 0
    /\ \/ Failed
       \/ GivenUp
       \/ CanFail /\ usb' = [usb EXCEPT !.status = "failed"]
    /\ UNCHANGED <<polling, poll, stage>>

Close ==
    /\ stage = "drain"
    /\ usb.active = 0
    /\ usb' = Off
    /\ stage' = "closed"
    /\ UNCHANGED <<polling, poll>>

-----------------------------------------------------------------------------
Next ==
    \/ Start \/ StopPolling \/ Join \/ Cancel \/ Drain \/ Close
    \/ Loop \/ Return \/ Data \/ Finished \/ Resubmit

Spec == Init /\ [][Next]_vars
=============================================================================
