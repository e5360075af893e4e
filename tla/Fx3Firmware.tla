----------------------------- MODULE Fx3Firmware -----------------------------
(***************************************************************************)
(* The firmware of the FX3 controller (SDDC_FX3): the USB driver's thread, *)
(* which runs the callbacks for control requests and bus events, the       *)
(* application thread, which drains the event queue, and the path of the   *)
(* samples from the GPIF block through DMA buffers and the bulk endpoint.  *)
(* The host is on the other side of the bus; it may die at any time and    *)
(* leave the device as it is.                                              *)
(*                                                                         *)
(* A control transfer to the device is acknowledged as soon as its data is *)
(* read: the host goes on while the request is still being worked on.      *)
(* Threads interleave freely, as the driver's thread preempts the other    *)
(* one and every sleep lets the other run.                                 *)
(***************************************************************************)
EXTENDS Naturals, Sequences, SequencesExt

CONSTANTS
    QueueLength,    \* entries of EventAvailable (16)
    ConsoleSize,    \* sizeof ConsoleInBuffer (32)
    MaxTrace,       \* MAXLEN_D_USB (100)
    MessageLength,  \* length of a debug message
    Messages,       \* how many of them TraceSerial writes about a request
    DmaBuffers      \* buffers of the DMA channel

ASSUME FirmwareAssumption ==
    /\ QueueLength \in Nat \ {0}
    /\ ConsoleSize \in Nat \ {0}
    /\ {MaxTrace, MessageLength, Messages} \subseteq Nat \ {0}
    /\ DmaBuffers \in Nat \ {0}

VARIABLES
    host,    \* what the host is doing: its state, the request it waits for
    usb,     \* the USB driver's thread: pc, and where it goes afterwards
    app,     \* the application thread: pc
    printer, \* the two threads' progress in DebugPrint2USB
    queue,   \* EventAvailable
    qevent,  \* Qevent, which both threads write
    active,  \* glIsApplnActive
    debug,   \* flagdebug
    trace,   \* debtxtlen, and the length of the reply being made of the text
    console, \* ConsoleInIndex, and the highest index ever written
    chan,    \* the DMA channel: does it exist, is a transfer set
    path,    \* GPIF and buffers: loaded, software input, samples on the way
    lpm,     \* are low power link states enabled
    hung     \* is a thread in CheckStatus' endless loop

vars == <<host, usb, app, printer, queue, qevent, active, debug, trace,
          console, chan, path, lpm, hung>>

bus == <<host, lpm>>
samples == <<chan, path>>
texts == <<debug, trace, console>>

Threads == {"usb", "app"}
Requests == {"START", "STOP", "READ", "OTHER"}

Init ==
    /\ host = [state |-> "detached", request |-> "none"]
    /\ usb = [pc |-> "idle", prints |-> 0, next |-> "idle"]
    /\ app = [pc |-> "sleep", lines |-> 0]
    /\ printer = [t \in Threads |-> "off"]
    /\ queue = <<>>
    /\ qevent = "event"
    /\ active = FALSE
    /\ debug = FALSE
    /\ trace = [len |-> 0, reply |-> 0]
    /\ console = [index |-> 0, top |-> 0]
    /\ chan = [exists |-> FALSE, xfer |-> FALSE]
    /\ path = [loaded |-> FALSE, input |-> FALSE, dma |-> <<>>, ep |-> <<>>]
    /\ lpm = TRUE
    /\ hung = FALSE

-----------------------------------------------------------------------------
(* DebugPrint2USB, in whichever thread: the room is tested, perhaps slept  *)
(* for, tested again, and only then used; nothing locks the buffer.        *)

\* The call itself; it returns at once if nobody wants the text.
Printing(t) ==
    printer' = [printer EXCEPT ![t] = IF active /\ debug THEN "test" ELSE "off"]

Silent == UNCHANGED printer

PrintTest(t) ==
    /\ printer[t] = "test"
    /\ printer' = [printer EXCEPT ![t] =
           IF trace.len + MessageLength > MaxTrace THEN "sleep" ELSE "room"]
    /\ UNCHANGED trace

PrintWake(t) ==
    /\ printer[t] = "sleep"
    /\ printer' = [printer EXCEPT ![t] = "room"]
    /\ UNCHANGED trace

PrintRoom(t) ==
    /\ printer[t] = "room"
    /\ printer' = [printer EXCEPT ![t] =
           IF trace.len + MessageLength < MaxTrace THEN "append" ELSE "off"]
    /\ UNCHANGED trace

PrintAppend(t) ==
    /\ printer[t] = "append"
    /\ printer' = [printer EXCEPT ![t] = "off"]
    /\ trace' = [trace EXCEPT !.len = @ + MessageLength]

DebugPrint2USB(t) ==
    /\ PrintTest(t) \/ PrintWake(t) \/ PrintRoom(t) \/ PrintAppend(t)
    /\ UNCHANGED <<bus, samples, usb, app, queue, qevent, active, debug,
                   console, hung>>

\* The thread is in its own code and not in CheckStatus' loop.
Runs(t) == printer[t] = "off" /\ ~hung

\* Mutant: nothing is dropped.
SentAlways(q, entry) == Append(q, entry)

\* CyU3PQueueSend(.., CYU3P_NO_WAIT): dropped if there is no room.
Sent(q, entry) == IF Len(q) < QueueLength THEN Append(q, entry) ELSE q

-----------------------------------------------------------------------------
(* StartApplication and StopApplication, in two steps each: the calls that *)
(* concern the channel and the endpoint, and those that concern the GPIF   *)
(* and the flag.  CheckStatus loops for ever on a call that fails.         *)

StopApplicationBegin(next) ==
    /\ path' \in {[path EXCEPT !.loaded = FALSE, !.input = keep, !.dma = <<>>] :
                     keep \in {FALSE, path.input}}
    /\ chan' = [exists |-> FALSE, xfer |-> FALSE]
    /\ hung' = ~chan.exists
    /\ usb' = [usb EXCEPT !.pc = "stopping", !.next = next]
    /\ Printing("usb")
    /\ UNCHANGED active

StopApplicationEnd ==
    /\ usb.pc = "stopping" /\ Runs("usb")
    /\ path' = [path EXCEPT !.ep = <<>>]
    /\ active' = FALSE
    /\ usb' = [usb EXCEPT !.pc = usb.next]
    /\ lpm' = IF usb.next = "idle" THEN TRUE ELSE lpm
    /\ UNCHANGED <<host, app, queue, qevent, texts, chan, hung>>
    /\ Silent

StartApplicationBegin ==
    /\ path' = [path EXCEPT !.ep = <<>>]
    /\ chan' = [exists |-> TRUE, xfer |-> TRUE]
    /\ hung' = chan.exists
    /\ usb' = [usb EXCEPT !.pc = "starting", !.next = "idle"]
    /\ Printing("usb")
    /\ UNCHANGED active

StartApplicationRestart ==
    /\ usb.pc = "restart" /\ Runs("usb")
    /\ StartApplicationBegin
    /\ UNCHANGED <<bus, app, queue, qevent, texts>>

\* The host, which waited for the configuration, sees the device.
StartApplicationEnd ==
    /\ usb.pc = "starting" /\ Runs("usb")
    /\ path' = [path EXCEPT !.loaded = TRUE]
    /\ active' = TRUE
    /\ usb' = [usb EXCEPT !.pc = "idle"]
    /\ host' = [host EXCEPT !.state = "closed"]
    /\ UNCHANGED <<app, queue, qevent, texts, chan, lpm, hung>>
    /\ Silent

-----------------------------------------------------------------------------
(* USBEvent_Callback.                                                      *)

\* Mutant: the application is started over the one that runs.
SetConfStartsOver == StartApplicationBegin

SetConf ==
    IF active THEN StopApplicationBegin("restart") ELSE StartApplicationBegin

\* The host configures the device, after a reset or once more.
SetConfEvent ==
    /\ usb.pc = "idle" /\ Runs("usb")
    /\ host.request = "none"
    /\ host.state \in {"detached", "closed"}
    /\ host' = [host EXCEPT !.state = "configuring"]
    /\ queue' = Sent(queue, "event")
    /\ SetConf
    /\ UNCHANGED <<app, qevent, texts, lpm>>

\* RESET or DISCONNECT: the process on the host loses the device.
ResetEvent ==
    /\ usb.pc = "idle" /\ Runs("usb")
    /\ host.state \notin {"detached", "configuring"}
    /\ host' = [host EXCEPT !.state = "detached", !.request = "none"]
    /\ queue' = Sent(queue, "event")
    /\ IF active THEN StopApplicationBegin("idle")
       ELSE UNCHANGED <<path, chan, hung, usb, active, printer>>
    /\ UNCHANGED <<app, qevent, texts, lpm>>

-----------------------------------------------------------------------------
(* CyFxSlFifoApplnUSBSetupCB.                                              *)

\* The text TraceSerial writes when a request is done.
Traced == usb' = [usb EXCEPT !.pc = "trace", !.prints = Messages]

\* Mutant: the low power states stay as they are.
PowerStatesLeft(request) == lpm

\* STARTFX3 disables the low power states and STOPFX3 enables them.
PowerStates(request) ==
    CASE request = "START" -> FALSE
      [] request = "STOP" -> TRUE
      [] OTHER -> lpm

\* A request begins with the power states and then waits for the data of the
\* transfer.
BeginRequest ==
    /\ usb.pc = "idle" /\ Runs("usb")
    /\ host.request \in Requests
    /\ lpm' = PowerStates(host.request)
    /\ usb' = [usb EXCEPT !.pc = host.request]
    /\ UNCHANGED <<host, app, queue, qevent, active, texts, samples, hung>>
    /\ Silent

Acked == host' = [host EXCEPT !.request = "none"]

\* The channel is restarted and the GPIF let go; samples still in the
\* endpoint stay there, and are old from now on.
StartFx3 ==
    /\ usb.pc = "START" /\ Runs("usb")
    /\ Acked
    /\ chan' = [chan EXCEPT !.xfer = chan.exists]
    /\ path' = [path EXCEPT !.input = TRUE, !.dma = <<>>,
                            !.ep = IF @ = <<>> THEN <<>> ELSE <<"old">>]
    /\ Traced
    /\ UNCHANGED <<app, queue, qevent, active, texts, lpm, hung>>
    /\ Silent

\* The GPIF is told to pause and given 10 ms.
StopFx3 ==
    /\ usb.pc = "STOP" /\ Runs("usb")
    /\ Acked
    /\ path' = [path EXCEPT !.input = FALSE]
    /\ usb' = [usb EXCEPT !.pc = "paused"]
    /\ UNCHANGED <<app, queue, qevent, active, texts, chan, lpm, hung>>
    /\ Silent

\* Mutant: the endpoint keeps what the DMA had moved into it.
DrainedDmaOnly ==
    /\ chan' = [chan EXCEPT !.xfer = FALSE]
    /\ path' = [path EXCEPT !.dma = <<>>]

\* CyU3PDmaMultiChannelReset and CyU3PUsbFlushEp.
Drained ==
    /\ chan' = [chan EXCEPT !.xfer = FALSE]
    /\ path' = [path EXCEPT !.dma = <<>>, !.ep = <<>>]

StopFx3End ==
    /\ usb.pc = "paused" /\ Runs("usb")
    /\ Drained
    /\ Traced
    /\ UNCHANGED <<bus, app, queue, qevent, active, texts, hung>>
    /\ Silent

\* TESTFX3, which switches the debug text on or off, and GPIOFX3, STARTADC,
\* TUNERINIT and the others, which only reach a chip.
OtherRequest ==
    /\ usb.pc = "OTHER" /\ Runs("usb")
    /\ Acked
    /\ debug' \in BOOLEAN
    /\ Traced
    /\ UNCHANGED <<app, queue, qevent, active, trace, console, samples, lpm, hung>>
    /\ Silent

\* Mutant: the index is not taken back at the end of the buffer.
TypedUnbounded(c) ==
    [index |-> c.index + 1,
     top |-> IF c.index + 1 > c.top THEN c.index + 1 ELSE c.top]

\* A character goes to the index and a 0 behind it; the test comes after the
\* increment of the index it tests.
Typed(c) ==
    LET last == IF c.index < ConsoleSize THEN c.index + 1 ELSE c.index
    IN  [index |-> last, top |-> IF last > c.top THEN last ELSE c.top]

\* READINFODEBUG: perhaps a character of the console, a return being a
\* command for the application thread; then the text so far, to the length
\* read before it is copied.
ReadInfo ==
    /\ usb.pc = "READ" /\ Runs("usb")
    /\ \/ UNCHANGED <<queue, qevent, console>>
       \/ /\ qevent' = "command"
          /\ queue' = Sent(queue, "command")
          /\ UNCHANGED console
       \/ /\ console' = Typed(console)
          /\ UNCHANGED <<queue, qevent>>
    /\ trace' = [trace EXCEPT !.reply = trace.len]
    /\ usb' = [usb EXCEPT !.pc = "drain"]
    /\ UNCHANGED <<bus, app, active, debug, samples, hung>>
    /\ Silent

ReadInfoEnd ==
    /\ usb.pc = "drain" /\ Runs("usb")
    /\ Acked
    /\ trace' = [trace EXCEPT !.len = IF trace.reply > 0 THEN 0 ELSE @,
                              !.reply = 0]
    /\ usb' = [usb EXCEPT !.pc = "idle"]
    /\ UNCHANGED <<app, queue, qevent, active, debug, console, samples, lpm, hung>>
    /\ Silent

TraceSerial ==
    /\ usb.pc = "trace" /\ Runs("usb")
    /\ IF usb.prints = 0
       THEN usb' = [usb EXCEPT !.pc = "idle"] /\ Silent
       ELSE usb' = [usb EXCEPT !.prints = @ - 1] /\ Printing("usb")
    /\ UNCHANGED <<bus, app, queue, qevent, active, texts, samples, hung>>

UsbThread ==
    \/ StopApplicationEnd \/ StartApplicationRestart \/ StartApplicationEnd
    \/ BeginRequest \/ StartFx3 \/ StopFx3 \/ StopFx3End
    \/ OtherRequest \/ ReadInfo \/ ReadInfoEnd \/ TraceSerial

-----------------------------------------------------------------------------
(* ApplicationThread, from the point where USB is up.                      *)

AppWake ==
    /\ app.pc = "sleep" /\ Runs("app")
    /\ app' = [pc |-> "receive", lines |-> 0]
    /\ UNCHANGED <<queue, qevent, console, printer>>

\* Mutant: events are only looked at once the device is enumerated.
MayReceiveActive == active

MayReceive == TRUE

\* An entry is received into Qevent; the first one gets a line of its own.
AppReceive ==
    /\ app.pc = "receive" /\ Runs("app")
    /\ IF queue = <<>> \/ ~MayReceive
       THEN /\ app' = [app EXCEPT !.pc = "sleep"]
            /\ UNCHANGED <<queue, qevent, printer>>
       ELSE /\ qevent' = Head(queue)
            /\ queue' = Tail(queue)
            /\ app' = [pc |-> "parse", lines |-> 1]
            /\ IF app.lines = 0 THEN Printing("app") ELSE Silent
    /\ UNCHANGED console

\* MsgParsing(Qevent): what Qevent holds by now.
AppParse ==
    /\ app.pc = "parse" /\ Runs("app")
    /\ app' = [app EXCEPT !.pc = IF qevent = "command" THEN "command"
                                 ELSE "receive"]
    /\ Printing("app")
    /\ UNCHANGED <<queue, qevent, console>>

\* ParseCommand is done with the text of the command.
AppCommand ==
    /\ app.pc = "command" /\ Runs("app")
    /\ console' = [console EXCEPT !.index = 0]
    /\ app' = [app EXCEPT !.pc = "receive"]
    /\ UNCHANGED <<queue, qevent, printer>>

AppThread ==
    /\ AppWake \/ AppReceive \/ AppParse \/ AppCommand
    /\ UNCHANGED <<bus, samples, usb, active, debug, trace, hung>>

-----------------------------------------------------------------------------
(* The hardware: a sample is new until the next STARTFX3.               *)

GpifProduce ==
    /\ path.loaded /\ path.input /\ chan.xfer
    /\ Len(path.dma) < DmaBuffers
    /\ path' = [path EXCEPT !.dma = Append(@, "new")]

DmaMove ==
    /\ chan.xfer
    /\ path.dma # <<>> /\ path.ep = <<>>
    /\ path' = [path EXCEPT !.ep = <<Head(path.dma)>>, !.dma = Tail(@)]

HostMayRead ==
    host.state = "streaming" /\ host.request = "none" /\ path.ep # <<>>

HostRead ==
    /\ HostMayRead
    /\ path' = [path EXCEPT !.ep = <<>>]

Hardware ==
    /\ GpifProduce \/ DmaMove \/ HostRead
    /\ UNCHANGED <<bus, usb, app, printer, queue, qevent, active, texts, chan,
                   hung>>

-----------------------------------------------------------------------------
(* The host's program: fx3handler.                                         *)

\* Open ends with STOPFX3.
OpenRequest(h) == [h EXCEPT !.state = "open", !.request = "STOP"]

HostOpen ==
    /\ host.state = "closed" /\ host.request = "none"
    /\ host' = OpenRequest(host)

HostStart ==
    /\ host.state = "open" /\ host.request = "none"
    /\ host' = [host EXCEPT !.state = "streaming", !.request = "START"]

HostStop ==
    /\ host.state = "streaming" /\ host.request = "none"
    /\ host' = [host EXCEPT !.state = "open", !.request = "STOP"]

HostRequest ==
    /\ host.state \in {"open", "streaming"} /\ host.request = "none"
    /\ \E request \in {"READ", "OTHER"} :
           host' = [host EXCEPT !.request = request]

\* The program ends or dies; a request on its way is carried out.
HostGone ==
    /\ host.state \in {"open", "streaming"}
    /\ host' = [host EXCEPT !.state = "closed"]

Host ==
    /\ HostOpen \/ HostStart \/ HostStop \/ HostRequest \/ HostGone
    /\ UNCHANGED <<usb, app, printer, queue, qevent, active, texts, samples,
                   lpm, hung>>

-----------------------------------------------------------------------------
Next ==
    \/ UsbThread
    \/ SetConfEvent
    \/ ResetEvent
    \/ AppThread
    \/ \E t \in Threads : DebugPrint2USB(t)
    \/ Hardware
    \/ Host

\* The threads of the device run; nothing is asked of the host.
Fairness ==
    /\ WF_vars(AppThread)
    /\ WF_vars(UsbThread)
    /\ \A t \in Threads : WF_vars(DebugPrint2USB(t))

Spec == Init /\ [][Next]_vars /\ Fairness

-----------------------------------------------------------------------------
(* Properties.                                                             *)

States == {"detached", "configuring", "closed", "open", "streaming"}

\* Every variable holds a value of its kind, and no queue is over its length.
TypeOK ==
    /\ host \in [state : States, request : Requests \union {"none"}]
    /\ usb \in [pc : Requests \union {"idle", "stopping", "starting", "restart",
                                      "paused", "drain", "trace"},
                prints : 0 .. Messages, next : {"idle", "restart"}]
    /\ app \in [pc : {"sleep", "receive", "parse", "command"}, lines : 0 .. 1]
    /\ printer \in [Threads -> {"off", "test", "sleep", "room", "append"}]
    /\ Len(queue) <= QueueLength
    /\ Range(queue) \union {qevent} \subseteq {"event", "command"}
    /\ active \in BOOLEAN /\ debug \in BOOLEAN /\ lpm \in BOOLEAN
    /\ hung \in BOOLEAN
    /\ trace \in [len : Nat, reply : Nat]
    /\ chan \in [exists : BOOLEAN, xfer : BOOLEAN]
    /\ Range(path.dma) \union Range(path.ep) \subseteq {"old", "new"}

\* The driver's calls come in an order the SDK accepts: whatever resets and
\* configurations follow each other, a channel is created only when there is
\* none and destroyed only when there is one. Otherwise CheckStatus stops
\* the firmware in its endless loop.
NeverHangs == ~hung

\* A program that has started the stream only reads samples taken after its
\* own STARTFX3, although the program before it may have died in the middle
\* of a stream and STARTFX3 does not flush the endpoint.
FreshAfterStart ==
    HostMayRead => path.ep = <<"new">>

\* Once STARTFX3 is carried out and until the program stops or the bus is
\* reset, the device has a channel with a transfer set, the GPIF runs and
\* the link is kept out of its low power states.
StreamRuns ==
    host.state = "streaming" /\ usb.pc \in {"idle", "trace"}
        /\ host.request # "START" =>
        chan.exists /\ chan.xfer /\ path.loaded /\ path.input /\ ~lpm

\* The console input is written at most one byte behind its buffer, however
\* many characters come before the next command (USBhandler.c:520).
ConsoleOverrun == console.top <= ConsoleSize

\* A command the queue has taken is carried out, also when Qevent is
\* overwritten between the receipt of another entry and its use, and when
\* the device is no longer configured by then.
CommandRuns == Contains(queue, "command") ~> app.pc = "command"

=============================================================================
