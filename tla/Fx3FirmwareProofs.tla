------------------------- MODULE Fx3FirmwareProofs -------------------------
(***************************************************************************)
(* Safety of Fx3Firmware for every length of the queue, of the texts and   *)
(* of the console, and every number of DMA buffers and trace messages.     *)
(*                                                                         *)
(* RequestInv says which request the USB thread is at while the host waits *)
(* for it, ApplicationInv what of the application exists in which state of *)
(* the host, and SampleInv where samples may be between a STOPFX3 and the  *)
(* next STARTFX3.                                                          *)
(***************************************************************************)
EXTENDS Fx3Firmware, SequenceTheorems, TLAPS

Entries == {"event", "command"}

UsbStates ==
    [pc : Requests \union {"idle", "stopping", "starting", "restart",
                           "paused", "drain", "trace"},
     prints : 0 .. Messages, next : {"idle", "restart"}]

PrinterStates == {"off", "test", "sleep", "room", "append"}

\* What can be seen of the threads and texts.
ThreadType ==
    /\ host \in [state : States, request : Requests \union {"none"}]
    /\ usb \in UsbStates
    /\ app \in [pc : {"sleep", "receive", "parse", "command"}, lines : 0 .. 1]
    /\ printer \in [Threads -> PrinterStates]
    /\ queue \in Seq(Entries) /\ Len(queue) <= QueueLength
    /\ qevent \in Entries
    /\ debug \in BOOLEAN
    /\ trace \in [len : Nat, reply : Nat]

\* The DMA buffers hold samples since the last STARTFX3 only; one block may
\* be in the endpoint, from before or after it.
SampleType ==
    /\ active \in BOOLEAN /\ lpm \in BOOLEAN /\ hung \in BOOLEAN
    /\ chan \in [exists : BOOLEAN, xfer : BOOLEAN]
    /\ path \in [loaded : BOOLEAN, input : BOOLEAN, dma : Seq({"new"}),
                 ep : {<<>>, <<"old">>, <<"new">>}]

\* The input index and its highest value stay inside the console's buffer,
\* the end included.
ConsoleInv == console \in [index : 0 .. ConsoleSize, top : 0 .. ConsoleSize]

\* The host waits for the request the USB thread is at, and what it waits for
\* fits what it is doing.
RequestInv ==
    /\ usb.pc \in Requests => host.request = usb.pc
    /\ usb.pc = "drain" => host.request = "READ"
    /\ host.state = "open" => host.request # "START"
    /\ host.state = "streaming" => host.request # "STOP"
    /\ host.state \in {"detached", "configuring"} => host.request = "none"

\* While the application is stopped or started the host has no device;
\* otherwise channel, GPIF and glIsApplnActive agree, and a device the host
\* sees has them all.
ApplicationInv ==
    /\ ~hung
    /\ usb.pc \in {"stopping", "restart", "starting"} <=>
           \/ host.state = "configuring"
           \/ host.state = "detached" /\ usb.pc = "stopping"
    /\ host.state = "configuring" /\ usb.pc = "stopping" => usb.next = "restart"
    /\ host.state = "detached" /\ usb.pc = "stopping" => usb.next = "idle"
    /\ usb.pc \in {"stopping", "restart"} => ~chan.exists
    /\ usb.pc = "starting" => chan.exists
    /\ usb.pc \notin {"stopping", "restart", "starting"} =>
           /\ active = chan.exists
           /\ active => path.loaded
    /\ host.state \in {"closed", "open", "streaming"} => active

\* The host has been told that the stream stands still, or has not been told
\* yet that its start is done.
Stopped ==
    \/ host.state = "open" /\ host.request # "STOP"
    \/ host.state = "streaming" /\ host.request = "START"

\* Without a transfer set no sample is on its way, but for what the endpoint
\* holds when the application stops. From the answer to STOPFX3 to the next
\* STARTFX3 none is set, once the 10 ms are over; from then on the stream runs
\* and the endpoint holds nothing old.
SampleInv ==
    /\ chan.xfer => chan.exists
    /\ ~chan.xfer => path.dma = <<>> /\ (usb.pc = "stopping" \/ path.ep = <<>>)
    /\ Stopped => usb.pc = "paused" \/ ~chan.xfer
    /\ usb.pc = "START" => ~lpm
    /\ host.state = "streaming" /\ host.request # "START" =>
           /\ chan.xfer /\ path.input /\ ~lpm
           /\ path.ep # <<"old">>
           /\ usb.pc # "paused"

FirmwareInv ==
    ThreadType /\ SampleType /\ ConsoleInv /\ RequestInv /\ ApplicationInv /\ SampleInv

-----------------------------------------------------------------------------
(* The queue.                                                              *)

LEMMA SentType ==
    ASSUME NEW q \in Seq(Entries), Len(q) <= QueueLength, NEW e \in Entries
    PROVE  Sent(q, e) \in Seq(Entries) /\ Len(Sent(q, e)) <= QueueLength
<1>1. CASE Len(q) < QueueLength
  <2>1. Append(q, e) \in Seq(Entries) /\ Len(Append(q, e)) = Len(q) + 1
    BY AppendProperties
  <2>2. Len(q) + 1 <= QueueLength
    BY <1>1, FirmwareAssumption DEF FirmwareAssumption
  <2>3. QED
    BY <1>1, <2>1, <2>2 DEF Sent
<1>2. CASE ~(Len(q) < QueueLength)
  BY <1>2 DEF Sent
<1>3. QED
  BY <1>1, <1>2

LEMMA ReceivedType ==
    ASSUME NEW q \in Seq(Entries), Len(q) <= QueueLength, q # <<>>
    PROVE  /\ Head(q) \in Entries
           /\ Tail(q) \in Seq(Entries) /\ Len(Tail(q)) <= QueueLength
<1>1. /\ Head(q) \in Entries /\ Tail(q) \in Seq(Entries)
      /\ Len(Tail(q)) = Len(q) - 1
  BY HeadTailProperties
<1>2. Len(q) - 1 <= QueueLength
  BY FirmwareAssumption DEF FirmwareAssumption
<1>3. QED
  BY <1>1, <1>2

-----------------------------------------------------------------------------
(* The steps.                                                              *)

LEMMA InitFirmware == Init => FirmwareInv
<1> SUFFICES ASSUME Init PROVE FirmwareInv
  OBVIOUS
<1> USE FirmwareAssumption DEF FirmwareAssumption
<1>0. /\ <<>> \in Seq(Entries) /\ Len(<<>>) = 0 /\ <<>> \in Seq({"new"})
      /\ 0 \in 0 .. Messages /\ 0 \in 0 .. 1
  BY EmptySeq
<1>1. ThreadType
  <2>1. host \in [state : States, request : Requests \union {"none"}]
    BY DEF Init, States, Requests
  <2>2. usb \in UsbStates
    BY <1>0 DEF Init, UsbStates, Requests
  <2>3. printer \in [Threads -> PrinterStates]
    BY DEF Init, PrinterStates
  <2>4. queue \in Seq(Entries) /\ Len(queue) <= QueueLength
    <3>1. queue = <<>> /\ 0 <= QueueLength
      BY DEF Init
    <3>2. QED
      BY <1>0, <3>1
  <2>5. qevent \in Entries
    BY DEF Init, Entries
  <2>6. /\ app \in [pc : {"sleep", "receive", "parse", "command"}, lines : 0 .. 1]
        /\ trace \in [len : Nat, reply : Nat] /\ debug \in BOOLEAN
    BY <1>0 DEF Init
  <2>7. QED
    BY <2>1, <2>2, <2>3, <2>4, <2>5, <2>6 DEF ThreadType
<1>2. SampleType
  BY <1>0 DEF Init, SampleType
<1>3. ConsoleInv
  BY DEF Init, ConsoleInv
<1>4. RequestInv /\ ApplicationInv /\ SampleInv
  BY DEF Init, RequestInv, ApplicationInv, SampleInv, Stopped, Requests
<1>5. QED
  BY <1>1, <1>2, <1>3, <1>4 DEF FirmwareInv

\* A call of DebugPrint2USB leaves the other thread's alone.
LEMMA PrintingType ==
    ASSUME NEW t \in Threads, printer \in [Threads -> PrinterStates], Printing(t)
    PROVE  printer' \in [Threads -> PrinterStates]
  BY DEF Printing, PrinterStates

\* The message.
LEMMA StepPrint ==
    ASSUME FirmwareInv, NEW t \in Threads, DebugPrint2USB(t)
    PROVE  FirmwareInv'
<1> USE DEF FirmwareInv
<1>1. ThreadType'
  BY FirmwareAssumption, SMTT(30)
  DEF DebugPrint2USB, PrintTest, PrintWake, PrintRoom, PrintAppend, ThreadType,
      PrinterStates, FirmwareAssumption, bus, samples
<1>2. SampleType' /\ ConsoleInv' /\ RequestInv' /\ ApplicationInv' /\ SampleInv'
  BY DEF DebugPrint2USB, SampleType, ConsoleInv, RequestInv, ApplicationInv,
         SampleInv, Stopped, bus, samples
<1>3. QED
  BY <1>1, <1>2

LEMMA StepApp ==
    ASSUME FirmwareInv, AppThread
    PROVE  FirmwareInv'
<1> USE DEF FirmwareInv
<1>1. ThreadType'
  <2>1. CASE AppWake
    BY <2>1 DEF AppThread, AppWake, ThreadType, bus, samples
  <2>2. CASE AppReceive
    <3>1. "app" \in Threads
      BY DEF Threads
    <3>2. printer' \in [Threads -> PrinterStates]
      BY <2>2, <3>1, PrintingType DEF AppReceive, Silent, ThreadType
    <3>3. queue' \in Seq(Entries) /\ Len(queue') <= QueueLength /\ qevent' \in Entries
      BY <2>2, ReceivedType DEF AppReceive, ThreadType
    <3>4. QED
      BY <2>2, <3>2, <3>3 DEF AppThread, AppReceive, ThreadType, bus, samples
  <2>3. CASE AppParse
    <3>1. "app" \in Threads
      BY DEF Threads
    <3>2. printer' \in [Threads -> PrinterStates]
      BY <2>3, <3>1, PrintingType DEF AppParse, ThreadType
    <3>3. QED
      BY <2>3, <3>2 DEF AppThread, AppParse, ThreadType, bus, samples
  <2>4. CASE AppCommand
    BY <2>4 DEF AppThread, AppCommand, ThreadType, bus, samples
  <2>5. QED
    BY <2>1, <2>2, <2>3, <2>4 DEF AppThread
<1>2. ConsoleInv'
  BY FirmwareAssumption
  DEF AppThread, AppWake, AppReceive, AppParse, AppCommand, ConsoleInv, FirmwareAssumption
<1>3. SampleType' /\ RequestInv' /\ ApplicationInv' /\ SampleInv'
  BY DEF AppThread, SampleType, RequestInv, ApplicationInv, SampleInv, Stopped, bus, samples
<1>4. QED
  BY <1>1, <1>2, <1>3

LEMMA StepHardware ==
    ASSUME FirmwareInv, Hardware
    PROVE  FirmwareInv'
<1> USE DEF FirmwareInv
<1>1. ThreadType' /\ ConsoleInv'
  BY DEF Hardware, ThreadType, ConsoleInv, bus, texts
<1>2. RequestInv'
  BY DEF Hardware, RequestInv, bus
<1>3. CASE GpifProduce
  <2>1. Append(path.dma, "new") \in Seq({"new"})
    BY AppendProperties DEF SampleType
  <2>2. SampleType'
    BY <1>3, <2>1 DEF Hardware, GpifProduce, SampleType, bus
  <2>3. ApplicationInv' /\ SampleInv'
    BY <1>3 DEF Hardware, GpifProduce, SampleType, ApplicationInv, SampleInv, Stopped, bus
  <2>4. QED
    BY <1>1, <1>2, <2>2, <2>3
<1>4. CASE DmaMove
  <2>1. Head(path.dma) = "new" /\ Tail(path.dma) \in Seq({"new"})
    BY <1>4, HeadTailProperties DEF DmaMove, SampleType
  <2>2. SampleType'
    BY <1>4, <2>1 DEF Hardware, DmaMove, SampleType, bus
  <2>3. ApplicationInv' /\ SampleInv'
    BY <1>4, <2>1 DEF Hardware, DmaMove, SampleType, ApplicationInv, SampleInv, Stopped, bus
  <2>4. QED
    BY <1>1, <1>2, <2>2, <2>3
<1>5. CASE HostRead
  <2>1. SampleType' /\ ApplicationInv' /\ SampleInv'
    BY <1>5 DEF Hardware, HostRead, SampleType, ApplicationInv, SampleInv, Stopped, bus
  <2>2. QED
    BY <1>1, <1>2, <2>1
<1>6. QED
  BY <1>3, <1>4, <1>5 DEF Hardware

LEMMA StepHost ==
    ASSUME FirmwareInv, Host
    PROVE  FirmwareInv'
<1> USE DEF FirmwareInv
<1>1. SampleType' /\ ConsoleInv'
  BY DEF Host, SampleType, ConsoleInv, samples, texts
<1>2. ThreadType'
  BY DEF Host, HostOpen, OpenRequest, HostStart, HostStop, HostRequest, HostGone,
         ThreadType, States, Requests, texts
<1>3. RequestInv'
  BY ZenonT(60) DEF Host, HostOpen, OpenRequest, HostStart, HostStop, HostRequest, HostGone,
         ThreadType, States, Requests, RequestInv, texts
<1>4. ApplicationInv'
  BY ZenonT(60) DEF Host, HostOpen, OpenRequest, HostStart, HostStop, HostRequest, HostGone,
         ThreadType, States, Requests, ApplicationInv, samples
<1>5. SampleInv'
  BY ZenonT(60) DEF Host, HostOpen, OpenRequest, HostStart, HostStop, HostRequest, HostGone,
         ThreadType, States, Requests, RequestInv, SampleInv, Stopped, samples
<1>6. QED
  BY <1>1, <1>2, <1>3, <1>4, <1>5

\* StopApplication takes away the channel and what is on its way to it.
LEMMA StopBegins ==
    ASSUME SampleType, NEW next, StopApplicationBegin(next)
    PROVE  /\ path'.loaded = FALSE /\ path'.input \in BOOLEAN
           /\ path'.dma = <<>> /\ path'.ep = path.ep
           /\ path' \in [loaded : BOOLEAN, input : BOOLEAN, dma : Seq({"new"}),
                         ep : {<<>>, <<"old">>, <<"new">>}]
           /\ active' \in BOOLEAN
<1>1. PICK keep \in {FALSE, path.input} :
          path' = [path EXCEPT !.loaded = FALSE, !.input = keep, !.dma = <<>>]
  BY DEF StopApplicationBegin
<1>2. keep \in BOOLEAN
  BY <1>1 DEF SampleType
<1>3. <<>> \in Seq({"new"})
  BY EmptySeq
<1>4. QED
  BY <1>1, <1>2, <1>3 DEF StopApplicationBegin, SampleType

\* A configuration, first or renewed.
LEMMA StepSetConf ==
    ASSUME FirmwareInv, SetConfEvent
    PROVE  FirmwareInv'
<1> USE DEF FirmwareInv
<1>0. "usb" \in Threads
  BY DEF Threads
<1>1. /\ queue' \in Seq(Entries) /\ Len(queue') <= QueueLength
      /\ printer' \in [Threads -> PrinterStates]
  BY <1>0, SentType, PrintingType
  DEF SetConfEvent, SetConf, StopApplicationBegin, StartApplicationBegin, ThreadType, Entries
<1>2. /\ usb.pc = "idle" /\ host.request = "none"
      /\ host'.state = "configuring" /\ host'.request = "none"
      /\ lpm' = lpm
  BY DEF SetConfEvent, ThreadType
<1>3. ThreadType' /\ ConsoleInv'
  BY <1>1, ZenonT(60)
  DEF SetConfEvent, SetConf, StopApplicationBegin, StartApplicationBegin, ThreadType,
      ConsoleInv, UsbStates, Requests, States, texts
<1>4. CASE active
  <2>1. StopApplicationBegin("restart")
    BY <1>4 DEF SetConfEvent, SetConf
  <2>2. /\ usb'.pc = "stopping" /\ usb'.next = "restart"
        /\ chan' = [exists |-> FALSE, xfer |-> FALSE] /\ hung' = FALSE
    BY <1>2, <1>4, <2>1
    DEF StopApplicationBegin, ThreadType, SampleType, UsbStates, ApplicationInv
  <2>3. SampleType'
    <3>1. lpm' \in BOOLEAN
      BY <1>2 DEF SampleType
    <3>2. chan' \in [exists : BOOLEAN, xfer : BOOLEAN] /\ hung' \in BOOLEAN
      BY <2>2
    <3>3. QED
      BY <2>1, <3>1, <3>2, StopBegins DEF SampleType
  <2>4. RequestInv' /\ ApplicationInv'
    BY <1>2, <2>2 DEF RequestInv, ApplicationInv, Requests
  <2>5. SampleInv'
    BY <1>2, <2>1, <2>2, StopBegins DEF SampleInv, Stopped
  <2>6. QED
    BY <1>3, <2>3, <2>4, <2>5
<1>5. CASE ~active
  <2>1. StartApplicationBegin
    BY <1>5 DEF SetConfEvent, SetConf
  <2>2. /\ usb'.pc = "starting"
        /\ chan' = [exists |-> TRUE, xfer |-> TRUE] /\ ~hung'
    BY <1>2, <1>5, <2>1
    DEF StartApplicationBegin, ThreadType, UsbStates, ApplicationInv, SampleType
  <2>3. SampleType'
    BY <1>2, <2>1, <2>2 DEF StartApplicationBegin, SampleType
  <2>4. RequestInv' /\ ApplicationInv' /\ SampleInv'
    BY <1>2, <2>2 DEF RequestInv, ApplicationInv, SampleInv, Stopped, Requests
  <2>5. QED
    BY <1>3, <2>3, <2>4
<1>6. QED
  BY <1>4, <1>5

\* A reset only finds a running application.
LEMMA StepReset ==
    ASSUME FirmwareInv, ResetEvent
    PROVE  FirmwareInv'
<1> USE DEF FirmwareInv
<1>0. "usb" \in Threads
  BY DEF Threads
<1>1. active /\ StopApplicationBegin("idle")
  BY DEF ResetEvent, ApplicationInv, ThreadType, States
<1>2. /\ queue' \in Seq(Entries) /\ Len(queue') <= QueueLength
      /\ printer' \in [Threads -> PrinterStates]
  BY <1>0, <1>1, SentType, PrintingType
  DEF ResetEvent, StopApplicationBegin, ThreadType, Entries
<1>3. /\ usb.pc = "idle" /\ lpm' = lpm
      /\ host'.state = "detached" /\ host'.request = "none"
  BY DEF ResetEvent, ThreadType
<1>4. ThreadType' /\ ConsoleInv'
  BY <1>1, <1>2
  DEF ResetEvent, StopApplicationBegin, ThreadType, ConsoleInv, UsbStates, Requests,
      States, texts
<1>5. /\ usb'.pc = "stopping" /\ usb'.next = "idle"
      /\ chan' = [exists |-> FALSE, xfer |-> FALSE] /\ hung' = FALSE
  BY <1>1, <1>3
  DEF StopApplicationBegin, ThreadType, SampleType, UsbStates, ApplicationInv
<1>6. SampleType'
  <2>1. lpm' \in BOOLEAN
    BY <1>3 DEF SampleType
  <2>2. chan' \in [exists : BOOLEAN, xfer : BOOLEAN] /\ hung' \in BOOLEAN
    BY <1>5
  <2>3. QED
    BY <1>1, <2>1, <2>2, StopBegins DEF SampleType
<1>7. RequestInv' /\ ApplicationInv'
  BY <1>3, <1>5 DEF RequestInv, ApplicationInv, Requests
<1>8. SampleInv'
  BY <1>1, <1>3, <1>5, StopBegins DEF SampleInv, Stopped
<1>9. QED
  BY <1>4, <1>6, <1>7, <1>8

\* StopApplication and StartApplication, once begun.
LEMMA StepApplication ==
    ASSUME FirmwareInv,
           StopApplicationEnd \/ StartApplicationRestart \/ StartApplicationEnd
    PROVE  FirmwareInv'
<1> USE DEF FirmwareInv
<1>0. "usb" \in Threads
  BY DEF Threads
<1>1. CASE StopApplicationEnd
  <2>1. ThreadType' /\ ConsoleInv'
    BY <1>1
    DEF StopApplicationEnd, ThreadType, ConsoleInv, UsbStates, Silent, texts
  <2>2. SampleType'
    BY <1>1 DEF StopApplicationEnd, SampleType
  <2>3. /\ usb.pc = "stopping" /\ usb'.pc = usb.next /\ host' = host
        /\ chan' = chan /\ active' = FALSE /\ hung' = hung
        /\ path'.ep = <<>> /\ path'.dma = path.dma
    BY <1>1 DEF StopApplicationEnd, ThreadType, UsbStates, SampleType
  <2>4. \/ host.state = "configuring" /\ usb.next = "restart"
        \/ host.state = "detached" /\ usb.next = "idle"
    BY <2>3 DEF ApplicationInv
  <2>5. chan.exists = FALSE /\ host.request = "none"
    BY <2>3, <2>4 DEF ApplicationInv, RequestInv, SampleType
  <2>6. RequestInv'
    BY <2>3, <2>4, <2>5 DEF RequestInv, Requests
  <2>7. ApplicationInv'
    BY <2>3, <2>4, <2>5 DEF ApplicationInv
  <2>8. SampleInv'
    BY <2>3, <2>4, <2>5 DEF SampleInv, Stopped
  <2>9. QED
    BY <2>1, <2>2, <2>6, <2>7, <2>8
<1>2. CASE StartApplicationRestart
  <2>1. printer' \in [Threads -> PrinterStates]
    BY <1>0, <1>2, PrintingType
    DEF StartApplicationRestart, StartApplicationBegin, ThreadType
  <2>2. ThreadType' /\ ConsoleInv'
    BY <1>2, <2>1
    DEF StartApplicationRestart, StartApplicationBegin, ThreadType, ConsoleInv,
        UsbStates, bus, texts
  <2>3. /\ usb.pc = "restart" /\ usb'.pc = "starting" /\ host' = host
        /\ chan' = [exists |-> TRUE, xfer |-> TRUE] /\ ~hung'
    BY <1>2
    DEF StartApplicationRestart, StartApplicationBegin, ThreadType, UsbStates,
        SampleType, ApplicationInv, bus
  <2>4. SampleType'
    BY <1>2, <2>3 DEF StartApplicationRestart, StartApplicationBegin, SampleType, bus
  <2>5. host.state = "configuring" /\ host.request = "none"
    BY <2>3 DEF ApplicationInv, RequestInv
  <2>6. RequestInv' /\ ApplicationInv' /\ SampleInv'
    BY <2>3, <2>5 DEF RequestInv, ApplicationInv, SampleInv, Stopped, Requests
  <2>7. QED
    BY <2>2, <2>4, <2>6
<1>3. CASE StartApplicationEnd
  <2>1. ThreadType' /\ ConsoleInv'
    BY <1>3
    DEF StartApplicationEnd, ThreadType, ConsoleInv, UsbStates, States, Silent, texts
  <2>2. SampleType'
    BY <1>3 DEF StartApplicationEnd, SampleType
  <2>3. /\ usb.pc = "starting" /\ usb'.pc = "idle"
        /\ host'.state = "closed" /\ host'.request = host.request
        /\ chan' = chan /\ active' = TRUE /\ hung' = hung
        /\ path'.loaded /\ path'.ep = path.ep /\ path'.dma = path.dma
    BY <1>3 DEF StartApplicationEnd, ThreadType, UsbStates, SampleType
  <2>4. chan.exists /\ host.request = "none"
    BY <2>3 DEF ApplicationInv, RequestInv
  <2>5. RequestInv' /\ ApplicationInv'
    BY <2>3, <2>4 DEF RequestInv, ApplicationInv, Requests
  <2>6. SampleInv'
    BY <2>3, <2>4 DEF SampleInv, Stopped
  <2>7. QED
    BY <2>1, <2>2, <2>5, <2>6
<1>4. QED
  BY <1>1, <1>2, <1>3

\* Requests: nothing of the application comes or goes.
LEMMA RequestKeepsApplication ==
    ASSUME ApplicationInv, usb.pc \notin {"stopping", "restart", "starting"},
           usb'.pc \notin {"stopping", "restart", "starting"},
           host'.state = host.state, active' = active, hung' = hung,
           chan'.exists = chan.exists, path'.loaded = path.loaded
    PROVE  ApplicationInv'
  BY DEF ApplicationInv

LEMMA StepBeginRequest ==
    ASSUME FirmwareInv, BeginRequest
    PROVE  FirmwareInv'
<1> USE DEF FirmwareInv
<1>1. ThreadType' /\ ConsoleInv'
  BY DEF BeginRequest, ThreadType, ConsoleInv, UsbStates, Silent, texts
<1>2. SampleType'
  BY DEF BeginRequest, SampleType, PowerStates, samples, Requests
<1>3. /\ usb.pc = "idle" /\ usb'.pc = host.request /\ host.request \in Requests
      /\ host' = host /\ chan' = chan /\ path' = path
      /\ active' = active /\ hung' = hung
      /\ lpm' = PowerStates(host.request)
  BY DEF BeginRequest, ThreadType, UsbStates, samples
<1>4. RequestInv'
  BY <1>3 DEF RequestInv, Requests
<1>5. ApplicationInv'
  BY <1>3, RequestKeepsApplication DEF Requests
<1>6. host.request = "STOP" => host.state # "streaming"
  BY DEF RequestInv
<1>7. SampleInv'
  BY <1>3, <1>6 DEF SampleInv, Stopped, PowerStates, Requests
<1>8. QED
  BY <1>1, <1>2, <1>4, <1>5, <1>7

LEMMA StepStartStop ==
    ASSUME FirmwareInv, StartFx3 \/ StopFx3 \/ StopFx3End
    PROVE  FirmwareInv'
<1> USE DEF FirmwareInv
<1>0. 0 \in 0 .. Messages /\ Messages \in 0 .. Messages
  BY FirmwareAssumption DEF FirmwareAssumption
<1>1. ThreadType' /\ ConsoleInv'
  BY <1>0, ZenonT(60)
  DEF StartFx3, StopFx3, StopFx3End, Acked, Traced, ThreadType, ConsoleInv, UsbStates,
      Silent, texts, bus
<1>2. CASE StartFx3
  <2>1. SampleType'
    BY <1>2, EmptySeq DEF StartFx3, SampleType
  <2>2. /\ usb.pc = "START" /\ usb'.pc = "trace"
        /\ host'.state = host.state /\ host'.request = "none"
        /\ chan'.exists = chan.exists /\ chan'.xfer = chan.exists
        /\ path'.loaded = path.loaded /\ path'.input = TRUE /\ path'.dma = <<>>
        /\ path'.ep = IF path.ep = <<>> THEN <<>> ELSE <<"old">>
        /\ active' = active /\ hung' = hung /\ lpm' = lpm
    BY <1>2 DEF StartFx3, Acked, Traced, ThreadType, SampleType, UsbStates
  <2>3. RequestInv'
    BY <2>2 DEF RequestInv, Requests
  <2>4. ApplicationInv'
    BY <2>2, RequestKeepsApplication
  <2>5. host.request = "START" /\ host.state # "open"
    BY <2>2 DEF RequestInv, Requests
  <2>6. ~lpm /\ (host.state = "streaming" => chan.exists /\ ~chan.xfer)
    BY <2>2, <2>5 DEF SampleInv, Stopped, ApplicationInv
  <2>7. ~chan.xfer => path.ep = <<>>
    BY <2>2 DEF SampleInv
  <2>8. <<>> # <<"old">>
    OBVIOUS
  <2>9. SampleInv'
    BY <2>2, <2>5, <2>6, <2>7, <2>8 DEF SampleInv, Stopped, SampleType
  <2>10. QED
    BY <1>1, <2>1, <2>3, <2>4, <2>9
<1>3. CASE StopFx3
  <2>1. SampleType'
    BY <1>3 DEF StopFx3, SampleType
  <2>2. /\ usb.pc = "STOP" /\ usb'.pc = "paused"
        /\ host'.state = host.state /\ host'.request = "none"
        /\ chan' = chan /\ path'.loaded = path.loaded
        /\ path'.dma = path.dma /\ path'.ep = path.ep
        /\ active' = active /\ hung' = hung
    BY <1>3 DEF StopFx3, Acked, ThreadType, SampleType, UsbStates
  <2>3. RequestInv'
    BY <2>2 DEF RequestInv, Requests
  <2>4. ApplicationInv'
    BY <2>2, RequestKeepsApplication
  <2>5. host.state # "streaming"
    BY <2>2 DEF RequestInv, Requests
  <2>6. SampleInv'
    BY <2>2, <2>5 DEF SampleInv, Stopped
  <2>7. QED
    BY <1>1, <2>1, <2>3, <2>4, <2>6
<1>4. CASE StopFx3End
  <2>1. SampleType'
    BY <1>4, EmptySeq DEF StopFx3End, Drained, SampleType, bus
  <2>2. /\ usb.pc = "paused" /\ usb'.pc = "trace" /\ host' = host
        /\ chan'.exists = chan.exists /\ chan'.xfer = FALSE
        /\ path'.loaded = path.loaded /\ path'.dma = <<>> /\ path'.ep = <<>>
        /\ active' = active /\ hung' = hung
    BY <1>4 DEF StopFx3End, Drained, Traced, ThreadType, SampleType, UsbStates, bus
  <2>3. RequestInv'
    BY <2>2 DEF RequestInv, Requests
  <2>4. ApplicationInv'
    BY <2>2, RequestKeepsApplication
  <2>5. host.state = "streaming" => host.request = "START"
    BY <2>2 DEF SampleInv
  <2>6. SampleInv'
    BY <2>2, <2>5 DEF SampleInv, Stopped
  <2>7. QED
    BY <1>1, <2>1, <2>3, <2>4, <2>6
<1>5. QED
  BY <1>2, <1>3, <1>4

\* A character leaves the index and its highest value inside.
LEMMA TypedStaysInside ==
    ASSUME NEW c \in [index : 0 .. ConsoleSize, top : 0 .. ConsoleSize]
    PROVE  Typed(c) \in [index : 0 .. ConsoleSize, top : 0 .. ConsoleSize]
  BY FirmwareAssumption DEF FirmwareAssumption, Typed

\* The other requests and the text about them touch no sample.
LEMMA StepOther ==
    ASSUME FirmwareInv, OtherRequest \/ ReadInfo \/ ReadInfoEnd \/ TraceSerial
    PROVE  FirmwareInv'
<1> USE DEF FirmwareInv
<1>0. /\ 0 \in 0 .. Messages /\ Messages \in 0 .. Messages
      /\ "usb" \in Threads /\ "command" \in Entries
  BY FirmwareAssumption DEF FirmwareAssumption, Threads, Entries
<1>1. ThreadType'
  <2>1. CASE OtherRequest
    BY <1>0, <2>1 DEF OtherRequest, Acked, Traced, ThreadType, UsbStates, Silent
  <2>2. CASE ReadInfo
    <3>1. queue' \in Seq(Entries) /\ Len(queue') <= QueueLength /\ qevent' \in Entries
      BY <1>0, <2>2, SentType DEF ReadInfo, ThreadType
    <3>2. QED
      BY <2>2, <3>1 DEF ReadInfo, ThreadType, UsbStates, Silent, bus
  <2>3. CASE ReadInfoEnd
    BY <2>3 DEF ReadInfoEnd, Acked, ThreadType, UsbStates, Silent
  <2>4. CASE TraceSerial
    <3>1. printer' \in [Threads -> PrinterStates]
      BY <1>0, <2>4, PrintingType DEF TraceSerial, Silent, ThreadType
    <3>2. usb' \in UsbStates
      <4>1. usb.prints # 0 => usb.prints - 1 \in 0 .. Messages
        BY FirmwareAssumption DEF FirmwareAssumption, ThreadType, UsbStates
      <4>2. QED
        BY <2>4, <4>1 DEF TraceSerial, ThreadType, UsbStates
    <3>3. QED
      BY <2>4, <3>1, <3>2 DEF TraceSerial, ThreadType, bus, texts
  <2>5. QED
    BY <2>1, <2>2, <2>3, <2>4
<1>2. SampleType'
  BY DEF OtherRequest, ReadInfo, ReadInfoEnd, TraceSerial, SampleType, samples, bus
<1>3. ConsoleInv'
  BY TypedStaysInside
  DEF OtherRequest, ReadInfo, ReadInfoEnd, TraceSerial, ConsoleInv, texts
<1>4. /\ host'.state = host.state
      /\ active' = active /\ hung' = hung /\ chan' = chan /\ path' = path /\ lpm' = lpm
  BY DEF OtherRequest, ReadInfo, ReadInfoEnd, TraceSerial, Acked, samples, bus, ThreadType
<1>5. \/ /\ usb.pc = "OTHER" /\ usb'.pc = "trace" /\ host'.request = "none"
      \/ /\ usb.pc = "READ" /\ usb'.pc = "drain" /\ host'.request = host.request
      \/ /\ usb.pc = "drain" /\ usb'.pc = "idle" /\ host'.request = "none"
      \/ /\ usb.pc = "trace" /\ usb'.pc \in {"idle", "trace"}
         /\ host'.request = host.request
  BY DEF OtherRequest, ReadInfo, ReadInfoEnd, TraceSerial, Acked, Traced, bus,
         ThreadType, UsbStates
<1>6. RequestInv'
  BY <1>4, <1>5 DEF RequestInv, Requests
<1>7. ApplicationInv'
  BY <1>4, <1>5, RequestKeepsApplication
<1>8. usb.pc \in {"OTHER", "READ", "drain"} => host.request = 
          IF usb.pc = "OTHER" THEN "OTHER" ELSE "READ"
  BY DEF RequestInv, Requests
<1>9. SampleInv'
  BY <1>4, <1>5, <1>8 DEF SampleInv, Stopped
<1>10. QED
  BY <1>1, <1>2, <1>3, <1>6, <1>7, <1>9

LEMMA StepFirmware == FirmwareInv /\ [Next]_vars => FirmwareInv'
<1> SUFFICES ASSUME FirmwareInv, [Next]_vars PROVE FirmwareInv'
  OBVIOUS
<1>1. CASE UsbThread
  BY <1>1, StepApplication, StepBeginRequest, StepStartStop, StepOther DEF UsbThread
<1>2. CASE UNCHANGED vars
  BY <1>2
  DEF vars, FirmwareInv, ThreadType, SampleType, ConsoleInv, RequestInv,
      ApplicationInv, SampleInv, Stopped
<1>3. QED
  BY <1>1, <1>2, StepSetConf, StepReset, StepApp, StepPrint, StepHardware, StepHost
  DEF Next

-----------------------------------------------------------------------------
(* The theorems.                                                           *)

\* The strengthening of the invariants below holds in every behaviour.
THEOREM FirmwareInvariant == Spec => []FirmwareInv
<1>1. QED
  BY InitFirmware, StepFirmware, PTL DEF Spec

\* Every variable keeps its kind; above all the event queue, which the USB
\* thread fills without waiting, never exceeds its length.
THEOREM TypeCorrect == Spec => []TypeOK
<1>1. ASSUME NEW S, NEW q \in Seq(S) PROVE Range(q) \subseteq S
  BY ElementOfSeq DEF Range
<1>2. FirmwareInv => TypeOK
  <2> SUFFICES ASSUME FirmwareInv PROVE TypeOK
    OBVIOUS
  <2>1. Range(queue) \subseteq Entries /\ Range(path.dma) \subseteq {"new"}
    BY <1>1 DEF FirmwareInv, ThreadType, SampleType
  <2>2. Range(path.ep) \subseteq {"old", "new"}
    BY DEF FirmwareInv, SampleType, Range
  <2>3. QED
    BY <2>1, <2>2 DEF FirmwareInv, ThreadType, SampleType, TypeOK, UsbStates, PrinterStates, Entries
<1>3. QED
  BY <1>2, FirmwareInvariant, PTL

\* Resets and configurations in any order never make CheckStatus loop: the
\* DMA channel is created once and destroyed once.
THEOREM FirmwareNeverHangs == Spec => []NeverHangs
<1>1. FirmwareInv => NeverHangs
  BY DEF FirmwareInv, ApplicationInv, NeverHangs
<1>2. QED
  BY <1>1, FirmwareInvariant, PTL

\* A program only reads samples from after its own STARTFX3, though the one
\* before may have died while it streamed.
THEOREM SamplesAreFresh == Spec => []FreshAfterStart
<1>1. FirmwareInv => FreshAfterStart
  BY DEF FirmwareInv, SampleType, SampleInv, FreshAfterStart, HostMayRead
<1>2. QED
  BY <1>1, FirmwareInvariant, PTL

\* Between STARTFX3 and STOPFX3 the whole path of the samples is up, and the
\* link may not go to sleep.
THEOREM StreamKeepsRunning == Spec => []StreamRuns
<1>1. FirmwareInv => StreamRuns
  BY DEF FirmwareInv, ApplicationInv, SampleInv, StreamRuns
<1>2. QED
  BY <1>1, FirmwareInvariant, PTL

\* The console writes at most one byte behind its buffer.
THEOREM ConsoleStaysInside == Spec => []ConsoleOverrun
<1>1. FirmwareInv => ConsoleOverrun
  BY DEF FirmwareInv, ConsoleInv, ConsoleOverrun
<1>2. QED
  BY <1>1, FirmwareInvariant, PTL

=============================================================================
