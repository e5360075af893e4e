------------------------- MODULE UsbStreamingProofs -------------------------
(***************************************************************************)
(* Safety of UsbStreaming for every number of transfers, with and without  *)
(* failures.  The inductive invariant UsbInv adds to the checked ones what *)
(* streaming_start has submitted so far (StartInv), when a poll thread     *)
(* exists (PollInv), and that nothing is counted outside of a stream       *)
(* (IdleInv).                                                              *)
(***************************************************************************)
EXTENDS UsbStreaming, FiniteSetTheorems, TLAPS

\* The loop has not submitted the transfers beyond those it has counted.
StartInv ==
    app = "submit" => \A t \in Transfers : t > active => transfer[t] = "idle"

\* The poll thread lives from StartPolling to JoinPoll, and the transfer in
\* its hands is a completed one of a stream that was not stopped.
PollInv ==
    /\ app \in {"closed", "submit", "stop", "drain", "close"} => poll = "none"
    /\ poll = "packet" => transfer[current] = "completed" /\ status = "streaming"

IdleInv ==
    /\ app = "closed" => \A t \in Transfers : transfer[t] = "freed"
    /\ app = "close" => active = 0

UsbInv == TypeOK /\ ActiveIsExact /\ StartInv /\ PollInv /\ IdleInv

-----------------------------------------------------------------------------
(* Counting.                                                               *)

LEMMA OutstandingFinite == IsFiniteSet(Outstanding)
<1>1. IsFiniteSet(Transfers)
  BY FS_Interval, UsbAssumption DEF UsbAssumption, Transfers
<1>2. Outstanding \in SUBSET Transfers
  BY DEF Outstanding
<1>3. QED
  BY <1>1, <1>2, FS_Subset

\* No transfer is counted exactly if none is outstanding.
LEMMA NoneOutstanding ==
    ASSUME ActiveIsExact
    PROVE  active = 0 <=> Outstanding = {}
  BY OutstandingFinite, FS_EmptySet DEF ActiveIsExact

\* A transfer that goes back to idle leaves the count one lower, and there
\* was one to take away.
LEMMA OneLess ==
    ASSUME TypeOK, ActiveIsExact, NEW t \in Outstanding,
           Becomes(t, "idle"), active' = active - 1
    PROVE  ActiveIsExact' /\ active' \in 0 .. NumFrames
<1>1. Outstanding' = Outstanding \ {t}
  BY DEF Outstanding, Becomes, TypeOK
<1>2. Cardinality(Outstanding \ {t}) = Cardinality(Outstanding) - 1
  BY OutstandingFinite, FS_RemoveElement
<1>3. active \in 0 .. NumFrames /\ active # 0
  BY NoneOutstanding DEF TypeOK
<1>4. active' \in 0 .. NumFrames
  BY <1>3, UsbAssumption DEF UsbAssumption
<1>5. QED
  BY <1>1, <1>2, <1>4 DEF ActiveIsExact

\* A change between two states that are both outstanding, or both not,
\* leaves the count as it is.
LEMMA SameCount ==
    ASSUME TypeOK, ActiveIsExact, NEW t \in Transfers, NEW state,
           Becomes(t, state), active' = active,
           t \in Outstanding <=> state \notin {"freed", "idle"}
    PROVE  ActiveIsExact'
<1>1. Outstanding' = Outstanding
  BY DEF Outstanding, Becomes, TypeOK
<1>2. QED
  BY <1>1 DEF ActiveIsExact

-----------------------------------------------------------------------------
(* The steps.                                                              *)

\* The callback off the poll thread's own path: it is the same in both
\* threads, and accounts for the transfer on every path.
LEMMA CallbackCounts ==
    ASSUME TypeOK, ActiveIsExact, NEW t \in Transfers, Callback(t)
    PROVE  /\ t \in Outstanding
           /\ Becomes(t, "idle")
           /\ ActiveIsExact' /\ active' \in 0 .. NumFrames
           /\ status' \in {status, "failed"}
<1>1. t \in Outstanding /\ Becomes(t, "idle") /\ active' = active - 1
      /\ status' \in {status, "failed"}
  BY DEF Callback, TransferFailed, TransferGivenUp, Outstanding
<1>2. QED
  BY <1>1, OneLess

LEMMA InitUsb == Init => UsbInv
<1> SUFFICES ASSUME Init PROVE UsbInv
  OBVIOUS
<1>1. TypeOK
  <2>1. 1 \in Transfers /\ 0 \in 0 .. NumFrames
    BY UsbAssumption DEF UsbAssumption, Transfers
  <2>2. QED
    BY <2>1 DEF Init, TypeOK
<1>2. Outstanding = {}
  BY DEF Init, Outstanding
<1>3. ActiveIsExact
  BY <1>2, FS_EmptySet DEF Init, ActiveIsExact
<1>4. QED
  BY <1>1, <1>3 DEF Init, UsbInv, StartInv, PollInv, IdleInv

LEMMA StepUsb == UsbInv /\ [Next]_vars => UsbInv'
<1> SUFFICES ASSUME UsbInv, [Next]_vars PROVE UsbInv'
  OBVIOUS
<1> USE UsbAssumption DEF UsbAssumption
<1>0. TypeOK /\ ActiveIsExact /\ StartInv /\ PollInv /\ IdleInv
  BY DEF UsbInv
<1>1. CASE StreamingOpenAsync
  <2>1. Outstanding' = {}
    BY <1>1 DEF StreamingOpenAsync, Outstanding
  <2>2. ActiveIsExact'
    BY <1>1, <2>1, FS_EmptySet DEF StreamingOpenAsync, ActiveIsExact
  <2>3. StartInv'
    BY <1>1 DEF StreamingOpenAsync, StartInv, Transfers
  <2>4. TypeOK' /\ PollInv' /\ IdleInv'
    BY <1>0, <1>1 DEF StreamingOpenAsync, TypeOK, PollInv, IdleInv
  <2>5. QED
    BY <2>2, <2>3, <2>4 DEF UsbInv
<1>2. CASE SubmitNext
  <2> DEFINE next == active + 1
  <2>1. next \in Transfers /\ transfer[next] = "idle"
    BY <1>0, <1>2 DEF SubmitNext, TypeOK, StartInv, Transfers
  <2>2. Outstanding' = Outstanding \cup {next} /\ next \notin Outstanding
    BY <1>0, <1>2, <2>1 DEF SubmitNext, Outstanding, Becomes, TypeOK
  <2>3. ActiveIsExact'
    BY <1>0, <1>2, <2>2, OutstandingFinite, FS_AddElement
    DEF SubmitNext, ActiveIsExact
  <2>4. TypeOK'
    BY <1>0, <1>2, <2>1 DEF SubmitNext, Becomes, TypeOK
  <2>5. StartInv'
    BY <1>0, <1>2, <2>1 DEF SubmitNext, Becomes, TypeOK, StartInv, Transfers
  <2>6. PollInv' /\ IdleInv'
    BY <1>0, <1>2 DEF SubmitNext, PollInv, IdleInv
  <2>7. QED
    BY <2>3, <2>4, <2>5, <2>6 DEF UsbInv
<1>3. CASE StartPolling
  BY <1>0, <1>3 DEF StartPolling, UsbInv, TypeOK, ActiveIsExact, Outstanding,
                    StartInv, PollInv, IdleInv
<1>4. ASSUME NEW t \in Transfers, Finish(t) PROVE UsbInv'
  <2>1. PICK state \in Finished : Becomes(t, state)
    BY <1>4 DEF Finish, Finished
  <2>2. ActiveIsExact'
    BY <1>0, <1>4, <2>1, SameCount DEF Finish, Outstanding, Finished
  <2>3. TypeOK'
    BY <1>0, <1>4, <2>1 DEF Finish, Becomes, TypeOK
  <2>4. StartInv'
    BY <1>0, <1>4, <2>1 DEF Finish, Becomes, TypeOK, StartInv
  <2>5. PollInv'
    BY <1>0, <1>4, <2>1 DEF Finish, Becomes, TypeOK, PollInv
  <2>6. IdleInv'
    BY <1>0, <1>4 DEF Finish, IdleInv
  <2>7. QED
    BY <2>2, <2>3, <2>4, <2>5, <2>6 DEF UsbInv
<1>5. ASSUME NEW t \in Transfers, PollCallback(t) PROVE UsbInv'
  <2>1. Callback(t) /\ app # "submit" /\ poll = "events"
    BY <1>0, <1>5 DEF PollCallback, PollInv
  <2>2. Becomes(t, "idle") /\ ActiveIsExact' /\ active' \in 0 .. NumFrames
        /\ t \in Outstanding /\ status' \in {status, "failed"}
    BY <1>0, <2>1, CallbackCounts
  <2>3. TypeOK'
    BY <1>0, <1>5, <2>2 DEF PollCallback, Becomes, TypeOK
  <2>4. StartInv' /\ PollInv'
    BY <1>0, <1>5, <2>1 DEF PollCallback, StartInv, PollInv
  <2>5. IdleInv'
    BY <1>0, <1>5, <2>1, <2>2 DEF PollCallback, IdleInv, PollInv
  <2>6. QED
    BY <2>2, <2>3, <2>4, <2>5 DEF UsbInv
<1>6. ASSUME NEW t \in Transfers, PollData(t) PROVE UsbInv'
  <2>1. app \notin {"closed", "submit", "stop", "drain", "close"}
    BY <1>0, <1>6 DEF PollData, PollInv
  <2>2. QED
    BY <1>0, <1>6, <2>1 DEF PollData, UsbInv, TypeOK, ActiveIsExact,
                            Outstanding, StartInv, PollInv, IdleInv
<1>7. ASSUME NEW t \in Transfers, DrainCallback(t) PROVE UsbInv'
  <2>1. Callback(t) /\ app = "drain" /\ poll = "none"
    BY <1>0, <1>7 DEF DrainCallback, PollInv
  <2>2. Becomes(t, "idle") /\ ActiveIsExact' /\ active' \in 0 .. NumFrames
        /\ status' \in {status, "failed"}
    BY <1>0, <2>1, CallbackCounts
  <2>3. TypeOK'
    BY <1>0, <1>7, <2>2 DEF DrainCallback, Becomes, TypeOK
  <2>4. StartInv' /\ PollInv' /\ IdleInv'
    BY <1>7, <2>1 DEF DrainCallback, StartInv, PollInv, IdleInv
  <2>5. QED
    BY <2>2, <2>3, <2>4 DEF UsbInv
<1>8. CASE Resubmit
  <2>1. /\ current \in Transfers /\ transfer[current] = "completed"
        /\ current \in Outstanding /\ poll' = "events"
        /\ app' = app /\ app \notin {"closed", "submit", "stop", "drain", "close"}
    BY <1>0, <1>8 DEF Resubmit, TypeOK, PollInv, Outstanding
  <2>2. CASE Becomes(current, "submitted") /\ UNCHANGED <<status, active>>
    <3>1. ActiveIsExact'
      BY <1>0, <2>1, <2>2, SameCount
    <3>2. TypeOK'
      BY <1>0, <1>8, <2>2 DEF Resubmit, Becomes, TypeOK
    <3>3. QED
      BY <2>1, <3>1, <3>2 DEF UsbInv, StartInv, PollInv, IdleInv
  <2>3. CASE TransferFailed(current)
    <3>1. ActiveIsExact' /\ active' \in 0 .. NumFrames
      BY <1>0, <2>1, <2>3, OneLess DEF TransferFailed
    <3>2. TypeOK'
      BY <1>0, <1>8, <2>3, <3>1 DEF Resubmit, TransferFailed, Becomes, TypeOK
    <3>3. QED
      BY <2>1, <3>1, <3>2 DEF UsbInv, StartInv, PollInv, IdleInv
  <2>4. QED
    BY <1>8, <2>2, <2>3 DEF Resubmit
<1>9. CASE PollLoop \/ PollReturn
  BY <1>0, <1>9 DEF PollLoop, PollReturn, UsbInv, TypeOK, ActiveIsExact,
                    Outstanding, StartInv, PollInv, IdleInv
<1>10. CASE StopPolling \/ JoinPoll \/ StreamingStop \/ DrainError
  BY <1>0, <1>10 DEF StopPolling, JoinPoll, StreamingStop, DrainError, UsbInv,
                     TypeOK, ActiveIsExact, Outstanding, StartInv, PollInv,
                     IdleInv
<1>11. CASE CancelAll
  <2>1. Outstanding = {}
    BY <1>0, <1>11, NoneOutstanding DEF CancelAll, Drained
  <2>2. transfer' = transfer
    BY <1>0, <1>11, <2>1 DEF CancelAll, Outstanding, TypeOK
  <2>3. QED
    BY <1>0, <1>11, <2>2 DEF CancelAll, Drained, UsbInv, TypeOK, ActiveIsExact,
                             Outstanding, StartInv, PollInv, IdleInv
<1>12. CASE StreamingClose
  <2>1. Outstanding' = {}
    BY <1>12 DEF StreamingClose, Outstanding
  <2>2. active' = 0
    BY <1>0, <1>12 DEF StreamingClose, IdleInv
  <2>3. ActiveIsExact'
    BY <2>1, <2>2, FS_EmptySet DEF ActiveIsExact
  <2>4. TypeOK' /\ StartInv' /\ PollInv' /\ IdleInv'
    BY <1>0, <1>12 DEF StreamingClose, TypeOK, StartInv, PollInv, IdleInv
  <2>5. QED
    BY <2>3, <2>4 DEF UsbInv
<1>13. CASE UNCHANGED vars
  BY <1>0, <1>13 DEF vars, UsbInv, TypeOK, ActiveIsExact, Outstanding, StartInv,
                     PollInv, IdleInv
<1>14. QED
  BY <1>1, <1>2, <1>3, <1>4, <1>5, <1>6, <1>7, <1>8, <1>9, <1>10, <1>11, <1>12,
     <1>13 DEF Next, StartStream, StopStream

-----------------------------------------------------------------------------
\* UsbInv is an invariant: TypeOK and ActiveIsExact are not inductive alone,
\* because what streaming_start submits next, and what the poll thread holds,
\* has to be known.
THEOREM UsbInvariant == Spec => []UsbInv
<1>1. QED
  BY InitUsb, StepUsb, PTL DEF Spec

\* Every member holds a value of its kind, active_transfers never leaves the
\* number of transfers on either side.
THEOREM TypeCorrect == Spec => []TypeOK
<1>1. UsbInv => TypeOK
  BY DEF UsbInv
<1>2. QED
  BY <1>1, UsbInvariant, PTL

\* active_transfers is the number of transfers with libusb, whatever fails:
\* StreamPipeline may count transfers instead of following each.
THEOREM CountIsExact == Spec => []ActiveIsExact
<1>1. UsbInv => ActiveIsExact
  BY DEF UsbInv
<1>2. QED
  BY <1>1, UsbInvariant, PTL

\* When streaming_close frees the transfers, libusb owns none.
THEOREM FreesAreSafe == Spec => []NoFreeInFlight
<1>1. UsbInv => NoFreeInFlight
  BY NoneOutstanding DEF UsbInv, IdleInv, NoFreeInFlight
<1>2. QED
  BY <1>1, UsbInvariant, PTL

-----------------------------------------------------------------------------
(* UsbStreaming implements TransferCount.                                  *)

\* What the refinement needs besides UsbInv: fx3handler's flag at each
\* statement, and that transfers only fail where they can.
FlagInv ==
    /\ app = "submit" => running
    /\ app \in {"join", "stop", "drain", "close"} => ~running
    /\ \A t \in Transfers : transfer[t] = "error" => CanFail

LEMMA InitFlag == Init => FlagInv
  BY DEF Init, FlagInv

LEMMA StepFlag == TypeOK /\ FlagInv /\ [Next]_vars => FlagInv'
<1> SUFFICES ASSUME TypeOK, FlagInv, [Next]_vars PROVE FlagInv'
  OBVIOUS
<1>1. CASE StartStream
  BY <1>1 DEF StartStream, StreamingOpenAsync, SubmitNext, StartPolling, Becomes, TypeOK,
     FlagInv
<1>2. CASE StopStream
  BY <1>2 DEF StopStream, StopPolling, JoinPoll, StreamingStop, DrainError, CancelAll,
     StreamingClose, TypeOK, FlagInv
<1>3. CASE PollLoop \/ PollReturn \/ UNCHANGED vars
  BY <1>3 DEF PollLoop, PollReturn, vars, FlagInv
<1>4. CASE Resubmit
  BY <1>4 DEF Resubmit, TransferFailed, Becomes, TypeOK, FlagInv
<1>5. ASSUME NEW t \in Transfers,
             Finish(t) \/ PollCallback(t) \/ PollData(t) \/ DrainCallback(t)
      PROVE  FlagInv'
  BY <1>5 DEF Finish, PollCallback, PollData, DrainCallback, Callback, TransferFailed,
     TransferGivenUp, Becomes, TypeOK, FlagInv
<1>6. QED
  BY <1>1, <1>2, <1>3, <1>4, <1>5 DEF Next

\* What TransferCount sees of a stream that is not open.
LEMMA ClosedView ==
    ASSUME ~Open
    PROVE  /\ Counted = [status |-> "off", active |-> 0]
           /\ Stage = "closed" /\ ~(Open /\ running)
  BY DEF Counted, Stage, Open

\* And of one that is.
LEMMA OpenView ==
    ASSUME Open
    PROVE  /\ Counted = [status |-> status, active |-> active]
           /\ Counted.status = status /\ Counted.active = active
           /\ Open /\ running <=> running
           /\ app = "close" => Stage = "drain"
           /\ app # "close" => Stage = app
  BY DEF Counted, Stage, Open

LEMMA InitCounts == Init => Count!Init
<1> SUFFICES ASSUME Init PROVE Count!Init
  OBVIOUS
<1>1. ~Open /\ poll = "none"
  BY DEF Init, Open
<1>2. QED
  BY <1>1, ClosedView DEF Count!Init, Count!Off

\* A callback finds a stream that counts at least its own transfer, and is
\* one of the two ways in which TransferCount sees a transfer finish.
LEMMA CallbackEnds ==
    ASSUME UsbInv, FlagInv, NEW t \in Transfers, Callback(t),
           Open, UNCHANGED <<app, running>>
    PROVE  /\ active > 0
           /\ \/ (CanFail \/ status # "streaming") /\ Count!Failed
              \/ Count!GivenUp
           /\ Stage' = Stage /\ (Open /\ running)' = (Open /\ running)
<1>1. t \in Outstanding
  BY CallbackCounts DEF UsbInv
<1>2. active \in Nat /\ active > 0
  BY <1>1, NoneOutstanding, UsbAssumption DEF UsbInv, TypeOK, UsbAssumption
<1>3. Open'
  BY DEF Open
<1>4. Counted = [status |-> status, active |-> active]
  BY OpenView
<1>5. Counted' = [status |-> status', active |-> active']
  BY <1>3 DEF Counted
<1>6. CASE TransferFailed(t) /\ (CanFail \/ status # "streaming")
  <2>1. Counted' = [status |-> "failed", active |-> Counted.active - 1]
    BY <1>4, <1>5, <1>6 DEF TransferFailed
  <2>2. QED
    BY <1>2, <1>6, <2>1 DEF Count!Failed, Stage, Open
<1>7. CASE TransferGivenUp(t)
  <2>1. Counted' = [Counted EXCEPT !.active = @ - 1]
    BY <1>4, <1>5, <1>7 DEF TransferGivenUp
  <2>2. QED
    BY <1>2, <2>1 DEF Count!GivenUp, Stage, Open
<1>8. QED
  BY <1>6, <1>7 DEF Callback, FlagInv

LEMMA StepCounts ==
    ASSUME UsbInv, FlagInv, [Next]_vars
    PROVE  [Count!Next]_(Count!vars)
<1>0. TypeOK /\ ActiveIsExact /\ PollInv /\ IdleInv /\ NumFrames \in Nat \ {0}
  BY UsbAssumption DEF UsbInv, UsbAssumption
<1>1. CASE StreamingOpenAsync \/ SubmitNext
  <2>1. ~Open /\ ~Open' /\ poll' = poll
    BY <1>1 DEF StreamingOpenAsync, SubmitNext, Open
  <2>2. UNCHANGED Count!vars
    BY <2>1 DEF Count!vars, Counted, Stage, Open
  <2>3. QED
    BY <2>2
<1>2. CASE StartPolling
  <2>1. ~Open /\ Open' /\ app' = "started" /\ running' /\ poll = "none" /\ poll' = "loop"
    BY <1>0, <1>2 DEF StartPolling, Open, FlagInv, PollInv
  <2>2. Counted' = [status |-> status', active |-> active] /\ Stage' = "started"
    BY <1>2, <2>1 DEF StartPolling, Counted, Stage
  <2>3. \/ Counted' = [status |-> "streaming", active |-> NumFrames]
        \/ CanFail /\ active \in 0 .. NumFrames - 1
                   /\ Counted' = [status |-> "failed", active |-> active]
    BY <1>0, <1>2, <2>2 DEF StartPolling, TypeOK
  <2>4. Stage = "closed"
    BY <2>1, ClosedView
  <2>5. Count!Start
    BY <2>1, <2>2, <2>3, <2>4 DEF Count!Start
  <2>6. QED
    BY <2>5 DEF Count!Next
<1>3. ASSUME NEW t \in Transfers, Finish(t) PROVE UNCHANGED Count!vars
  BY <1>3 DEF Finish, Count!vars, Counted, Stage, Open
<1>4. ASSUME NEW t \in Transfers, PollCallback(t) PROVE Count!Next
  <2>1. Open /\ poll = "events" /\ poll' = "events"
    BY <1>0, <1>4 DEF PollCallback, PollInv, TypeOK, Open
  <2>2. Counted.active = active /\ Counted.status = status
    BY <2>1, OpenView
  <2>3. Count!Finished
    BY <1>4, <2>1, <2>2, CallbackEnds DEF PollCallback, Count!Finished
  <2>4. QED
    BY <2>3 DEF Count!Next
<1>5. ASSUME NEW t \in Transfers, PollData(t) PROVE Count!Next
  <2>1. Open /\ Open'
    BY <1>0, <1>5 DEF PollData, PollInv, TypeOK, Open
  <2>2. Counted.active = active /\ Counted.status = status
    BY <2>1, OpenView
  <2>3. t \in Outstanding
    BY <1>5 DEF PollData, Outstanding
  <2>4. active > 0
    BY <1>0, <2>3, NoneOutstanding DEF TypeOK
  <2>5. Count!Data
    BY <1>5, <2>1, <2>2, <2>4 DEF PollData, Count!Data, Counted, Stage, Open
  <2>6. QED
    BY <2>5 DEF Count!Next
<1>6. CASE Resubmit
  <2>1. Open /\ Open'
    BY <1>0, <1>6 DEF Resubmit, PollInv, TypeOK, Open
  <2>2. Counted = [status |-> status, active |-> active]
        /\ Counted' = [status |-> status', active |-> active']
    BY <2>1 DEF Counted
  <2>3. \/ status' = status /\ active' = active
        \/ CanFail /\ status' = "failed" /\ active' = active - 1
    BY <1>6 DEF Resubmit, TransferFailed
  <2>4. Counted.active = active
    BY <2>1, OpenView
  <2>5. \/ Counted' = Counted
        \/ CanFail /\ Counted' = [status |-> "failed", active |-> Counted.active - 1]
    <3>1. CASE status' = status /\ active' = active
      BY <2>2, <3>1
    <3>2. CASE CanFail /\ status' = "failed" /\ active' = active - 1
      BY <2>2, <2>4, <3>2
    <3>3. QED
      BY <2>3, <3>1, <3>2
  <2>6. Count!Resubmit
    BY <1>6, <2>5 DEF Resubmit, Count!Resubmit, Count!Failed, Stage, Open
  <2>7. QED
    BY <2>6 DEF Count!Next
<1>7. CASE PollLoop \/ PollReturn
  <2>1. poll # "none"
    BY <1>7 DEF PollLoop, PollReturn
  <2>2. Open
    BY <1>0, <2>1 DEF PollInv, Open
  <2>3. Count!Loop \/ Count!Return
    BY <1>7, <2>2 DEF PollLoop, PollReturn, Count!Loop, Count!Return, Counted, Stage, Open
  <2>4. QED
    BY <2>3 DEF Count!Next
<1>8. CASE StopPolling
  <2>1. Open /\ Open' /\ Counted' = Counted /\ Stage = "started" /\ Stage' = "join"
    BY <1>8 DEF StopPolling, Open, Counted, Stage
  <2>2. Count!StopPolling
    BY <1>8, <2>1 DEF StopPolling, Count!StopPolling
  <2>3. QED
    BY <2>2 DEF Count!Next
<1>9. CASE JoinPoll
  <2>1. Open /\ Open' /\ Counted' = Counted /\ Stage = "join" /\ Stage' = "stop"
    BY <1>9 DEF JoinPoll, Open, Counted, Stage
  <2>2. Count!Join
    BY <1>9, <2>1 DEF JoinPoll, Count!Join
  <2>3. QED
    BY <2>2 DEF Count!Next
<1>10. CASE StreamingStop
  <2>1. Open /\ Open' /\ Stage = "stop" /\ Stage' = "drain"
    BY <1>10 DEF StreamingStop, Open, Stage
  <2>2. Counted' = [Counted EXCEPT !.status = "cancelled"]
    BY <1>10, <2>1 DEF StreamingStop, Counted
  <2>3. Count!Cancel
    BY <1>10, <2>1, <2>2 DEF StreamingStop, Count!Cancel
  <2>4. QED
    BY <2>3 DEF Count!Next
<1>11. ASSUME NEW t \in Transfers, DrainCallback(t) PROVE Count!Next
  <2>1. Open /\ Stage = "drain"
    BY <1>11 DEF DrainCallback, Open, Stage
  <2>2. Counted.active = active /\ Counted.status = status
    BY <2>1, OpenView
  <2>3. Count!Drain
    BY <1>11, <2>1, <2>2, CallbackEnds DEF DrainCallback, Count!Drain
  <2>4. QED
    BY <2>3 DEF Count!Next
<1>12. CASE DrainError
  <2>1. Open /\ Open' /\ Stage = "drain" /\ Stage' = "drain"
    BY <1>12 DEF DrainError, Open, Stage
  <2>2. Counted' = [Counted EXCEPT !.status = "failed"] /\ Counted.active = active
    BY <1>12, <2>1 DEF DrainError, Counted
  <2>3. Count!Drain
    BY <1>12, <2>1, <2>2 DEF DrainError, Count!Drain
  <2>4. QED
    BY <2>3 DEF Count!Next
<1>13. CASE CancelAll
  BY <1>13 DEF CancelAll, Count!vars, Counted, Stage, Open
<1>14. CASE StreamingClose
  <2>1. Open /\ ~Open' /\ Stage = "drain" /\ ~running /\ ~running' /\ poll' = poll
    BY <1>14 DEF StreamingClose, Open, Stage, FlagInv
  <2>2. Counted.active = 0
    BY <1>0, <1>14, <2>1, OpenView DEF StreamingClose, IdleInv
  <2>3. Counted' = [status |-> "off", active |-> 0] /\ Stage' = "closed"
    BY <2>1 DEF Counted, Stage, Open
  <2>4. Count!Close
    BY <2>1, <2>2, <2>3 DEF Count!Close, Count!Off
  <2>5. QED
    BY <2>4 DEF Count!Next
<1>15. CASE UNCHANGED vars
  BY <1>15 DEF vars, Count!vars, Counted, Stage, Open
<1>16. QED
  BY <1>1, <1>2, <1>3, <1>4, <1>5, <1>6, <1>7, <1>8, <1>9, <1>10, <1>11, <1>12, <1>13,
     <1>14, <1>15 DEF Next, StartStream, StopStream

\* With any number of transfers, each in a state of its own, the status and
\* the number in flight change as TransferCount says: that is all the other
\* components need to know of streaming.cpp.
THEOREM TransfersRefineCount == Spec => RefinesCount
<1>1. Init => Count!Init
  BY InitCounts
<1>2. UsbInv /\ FlagInv /\ [Next]_vars => [Count!Next]_(Count!vars)
  BY StepCounts
<1>3. Init => FlagInv
  BY InitFlag
<1>4. UsbInv /\ FlagInv /\ [Next]_vars => FlagInv'
  BY StepFlag DEF UsbInv
<1>5. Spec => []FlagInv
  BY <1>3, <1>4, UsbInvariant, PTL DEF Spec
<1>6. QED
  BY <1>1, <1>2, <1>5, UsbInvariant, PTL DEF Spec, RefinesCount, Count!Spec

\* PacketRead is called, and its transfer submitted again, only while the
\* stream has the status STREAMING.
THEOREM DataOnlyStreaming == Spec => []DataWhileStreaming
<1>1. UsbInv => DataWhileStreaming
  BY DEF UsbInv, PollInv, DataWhileStreaming
<1>2. QED
  BY <1>1, UsbInvariant, PTL

=============================================================================
