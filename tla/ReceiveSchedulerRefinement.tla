---------------------- MODULE ReceiveSchedulerRefinement ----------------------
(***************************************************************************)
(* The threads of ReceiveScheduler implement PlayoutBuffer, for every value *)
(* of the constants; on the way, the life of the worker thread and the     *)
(* state in which it finds the output callback.                            *)
(***************************************************************************)
EXTENDS ReceiveSchedulerProofs

\* The worker lives from start() to the join in stop(), and all that time the
\* output callback is set.
WorkerLife ==
    /\ running => gpc \in {"streaming", "stop"}
    /\ gpc = "streaming" => running
    /\ gpc = "start" => outputCallback
    /\ gpc = "stop" /\ ~running => wpc = "none"
    /\ wpc # "none" => gpc \in {"streaming", "stop", "stopnotify", "join"} /\ outputCallback
    /\ wpc = "call" => callback

LEMMA InitWorkerLife == Init => WorkerLife
  BY DEF Init, WorkerLife

LEMMA NextKeepsWorkerLife == WorkerLife /\ [Next]_vars => WorkerLife'
  <1> USE DEF WorkerLife
  <1>1. ASSUME WorkerLife, ReceiverStep \/ (\E e \in Emissions : ReceiveMidi(e) \/ ReceiveJrClock(e))
        PROVE  WorkerLife'
    BY <1>1 DEF ReceiverStep, ReceiverFrame, clockVars, ReceiveMidi, ReceiveJrClock, Dispatch,
                ApplyJrClock, EnqueueSnapshot, EnqueueFlush, EnqueueChooseMode,
                EnqueueExtrapolate, EnqueueFreshJr, EnqueueAnchor, EnqueueFallback,
                EnqueuePush, EnqueueNotify, Notified
  <1>2. ASSUME WorkerLife, WorkerStep \/ SpuriousWake
        PROVE  WorkerLife'
    BY <1>2 DEF WorkerStep, WorkerFrame, WorkerLoop, WorkerWait, WorkerBlock, WorkerWake,
                WorkerInnerExit, WorkerDefer, WorkerTimedWait, WorkerTimedWake, WorkerTimeout,
                WorkerRelease, WorkerDrop, WorkerSend, WorkerRelock, SpuriousWake, Notified
  <1>3. ASSUME WorkerLife, StartStreaming \/ StopStreaming \/ GuiStep
        PROVE  WorkerLife'
    <2> USE DEF GuiFrame, queueVars
    <2>1. CASE StartStreaming \/ StopStreaming
      BY <1>3, <2>1 DEF StartStreaming, StopStreaming
    <2>2. CASE WireOutput \/ SchedulerStart \/ SchedulerStop
      BY <1>3, <2>2 DEF WireOutput, SchedulerStart, SchedulerStop
    <2>3. CASE StopNotify \/ StopJoin \/ SchedulerReset
      BY <1>3, <2>3 DEF StopNotify, StopJoin, SchedulerReset, Notified
    <2>4. CASE ClearOutput \/ UnwireInput \/ ResetClock \/ ClosePorts
      BY <1>3, <2>4 DEF ClearOutput, UnwireInput, ResetClock, ClosePorts
    <2> QED BY <1>3, <2>1, <2>2, <2>3, <2>4 DEF GuiStep
  <1>4. ASSUME WorkerLife, ClockMessageArrives \/ MidiClock \/ Tick \/ UNCHANGED vars
        PROVE  WorkerLife'
    BY <1>4 DEF ClockMessageArrives, MidiClock, Tick, OutsideFrame, vars, queueVars,
                workerVars
  <1> QED BY <1>1, <1>2, <1>3, <1>4 DEF Next

\* The worker calls the output callback only while the ports are open, and always
\* finds one (receiveScheduler.cpp:238-262 against AppController.cpp:250-254,
\* 327-360).
THEOREM PlaysWhileOpen == Spec => []PlaysOnlyWhileOpen
  <1>1. WorkerLife => PlaysOnlyWhileOpen
    BY DEF WorkerLife, PlaysOnlyWhileOpen
  <1> QED BY InitWorkerLife, NextKeepsWorkerLife, <1>1, PTL DEF Spec

-----------------------------------------------------------------------------
(* The order of events.                                                     *)

\* Numbers with the same quotient are ordered by their remainders.
LEMMA QuotientAndRemainder ==
    ASSUME NEW n \in Nat, n > 0, NEW a \in Nat, NEW b \in Nat,
           a \div n = b \div n, a % n <= b % n
    PROVE  a <= b
  BY SMTT(60)

\* Within an epoch, the sequence number orders events as the stream does.
LEMMA SequenceOrdersEpoch ==
    ASSUME NEW a \in Nat, NEW b \in Nat, Buffer!SameEpoch(a, b), ~(Sequence(b) < Sequence(a))
    PROVE  a <= b
  <1>1. SeqModulus \in Nat /\ SeqModulus > 0
    BY SchedulerConstants
  <1>2. a % SeqModulus \in Int /\ b % SeqModulus \in Int
    BY <1>1
  <1>3. a % SeqModulus <= b % SeqModulus
    BY <1>2 DEF Sequence
  <1>4. a \div SeqModulus = b \div SeqModulus
    BY DEF Buffer!SameEpoch
  <1> QED BY <1>1, <1>3, <1>4, QuotientAndRemainder

\* The event in the hands of the receive thread is the newest, no id is queued
\* twice, and the one in the hands of the worker precedes all that are queued.
OrderInv ==
    /\ Pending \cup sent \cup flushed \cup dropped \subseteq 1 .. received
    /\ Enqueuing => event.id = received /\ event.id \notin Ids(queue)
    /\ \A a, b \in queue : a.id = b.id => a = b
    /\ wpc = "call" =>
          /\ next.id \notin Ids(queue)
          /\ Enqueuing => next.id # event.id
          /\ \A m \in queue : Buffer!SameEpoch(next.id, m.id) => next.id < m.id

LEMMA InitOrder == Init => OrderInv /\ Buffer!BufferInit
  BY DEF Init, OrderInv, Buffer!BufferInit, Pending, Ids, Enqueuing

\* A step that moves no event: the receive thread and the worker hold what they held.
LEMMA QuietKeepsOrder ==
    ASSUME OrderInv, UNCHANGED <<queue, received, sent, flushed, dropped>>,
           Enqueuing' = Enqueuing, Enqueuing => event' = event,
           (wpc' = "call") = (wpc = "call"), wpc = "call" => next' = next
    PROVE  OrderInv' /\ UNCHANGED Buffer!bufferVars
  <1>1. Ids(queue)' = Ids(queue)
    BY DEF Ids
  <1>2. Pending' = Pending
    BY <1>1 DEF Pending
  <1> QED BY <1>1, <1>2 DEF OrderInv, Buffer!bufferVars, Buffer!SameEpoch

\* A notification neither begins nor ends a call.
LEMMA NotifiedCalls == (Notified = "call") = (wpc = "call")
  BY Zenon DEF Notified

-----------------------------------------------------------------------------
(* The receive thread.                                                      *)

\* A frame that reaches the callback is accepted, any other is never seen.
LEMMA ReceiveAccepts ==
    ASSUME TypeInv, OrderInv, NEW e \in Emissions, ReceiveMidi(e)
    PROVE  OrderInv' /\ [Buffer!BufferNext]_(Buffer!bufferVars)
  <1> USE DEF TypeInv, TypeOK
  <1>0. MaxEvents \in Nat
    BY SchedulerConstants
  <1>1. /\ queue' = queue /\ sent' = sent /\ flushed' = flushed /\ dropped' = dropped
        /\ wpc' = wpc /\ next' = next /\ received' = received + 1 /\ received + 1 \in 1 .. MaxEvents
    BY <1>0 DEF ReceiveMidi, Dispatch, ReceiverFrame
  <1>2. ~Enqueuing /\ Ids(queue)' = Ids(queue)
    BY <1>1 DEF ReceiveMidi, Dispatch, Enqueuing, Ids
  <1>3. CASE ~receiveCallback
    <2>1. ~Enqueuing'
      BY <1>2, <1>3 DEF ReceiveMidi, Dispatch, Enqueuing
    <2>2. Pending' = Pending
      BY <1>1, <1>2, <2>1 DEF Pending
    <2> QED BY <1>1, <1>2, <2>1, <2>2 DEF OrderInv, Buffer!bufferVars, Buffer!SameEpoch
  <1>4. CASE receiveCallback
    <2>1. Enqueuing' /\ event'.id = received + 1
      BY <1>4 DEF ReceiveMidi, Dispatch, Enqueuing
    <2>2. Pending' = Pending \cup {received + 1}
      BY <1>1, <1>2, <2>1 DEF Pending
    <2>3. \A j \in Pending \cup sent \cup flushed \cup dropped : j \in 1 .. received
      BY DEF OrderInv
    <2>4. Buffer!Accept(received + 1)
      BY <1>1, <2>2, <2>3 DEF Buffer!Accept, Buffer!Accepted
    <2>5. received + 1 \notin Ids(queue)
      BY <2>3 DEF Pending
    <2>6. wpc = "call" => next.id \in 1 .. received
      BY <2>3 DEF Pending
    <2>7. OrderInv'
      BY <1>1, <1>2, <2>1, <2>2, <2>3, <2>5, <2>6 DEF OrderInv, Buffer!SameEpoch
    <2> QED BY <1>1, <2>4, <2>7 DEF Buffer!BufferNext
  <1> QED BY <1>3, <1>4

\* The flush of enqueue() discards the queue or nothing.
LEMMA FlushDiscards ==
    ASSUME TypeInv, OrderInv, EnqueueFlush
    PROVE  OrderInv' /\ [Buffer!BufferNext]_(Buffer!bufferVars)
  <1>1. /\ sent' = sent /\ dropped' = dropped /\ wpc' = wpc /\ next' = next
        /\ received' = received /\ event' = event /\ Enqueuing /\ Enqueuing'
    BY DEF EnqueueFlush, ReceiverFrame, streamVars, Enqueuing
  <1>2. CASE FlushedByJump = {}
    <2>1. queue' = queue /\ flushed' = flushed
      BY <1>2 DEF EnqueueFlush, Ids
    <2> QED BY <1>1, <2>1, QuietKeepsOrder
  <1>3. CASE FlushedByJump # {}
    <2>1. queue' = {} /\ flushed' = flushed \cup Ids(queue)
      BY <1>3 DEF EnqueueFlush, FlushedByJump
    <2>2. Ids(queue)' = {}
      BY <2>1 DEF Ids
    <2>3. Pending' = Pending \ Ids(queue)
      BY <1>1, <2>2 DEF Pending, OrderInv
    <2>4. Ids(queue) \subseteq Pending
      BY DEF Pending
    <2>5. Buffer!Discard(Ids(queue))
      BY <1>1, <2>1, <2>3, <2>4 DEF Buffer!Discard
    <2>6. OrderInv'
      BY <1>1, <2>1, <2>2, <2>3, <2>4 DEF OrderInv
    <2> QED BY <2>4, <2>5, <2>6 DEF Buffer!BufferNext
  <1> QED BY <1>2, <1>3

\* An event that is pushed was pending before.
LEMMA PushKeepsPending ==
    ASSUME TypeInv, OrderInv, EnqueuePush
    PROVE  OrderInv' /\ UNCHANGED Buffer!bufferVars
  <1> DEFINE m == [id |-> event.id, session |-> event.session,
                   serverTimestampNs |-> event.serverTimestampNs,
                   playAt |-> playAt, atEnqueue |-> snap]
  <1>1. /\ queue' = queue \cup {m} /\ sent' = sent /\ flushed' = flushed /\ dropped' = dropped
        /\ wpc' = wpc /\ next' = next /\ received' = received /\ Enqueuing /\ ~Enqueuing'
    BY DEF EnqueuePush, ReceiverFrame, streamVars, Enqueuing
  <1>2. m.id = event.id
    OBVIOUS
  <1> HIDE DEF m
  <1>3. Ids(queue)' = Ids(queue) \cup {event.id}
    BY <1>1, <1>2 DEF Ids
  <1>4. Pending' = Pending
    BY <1>1, <1>3 DEF Pending
  <1>5. \A a \in queue : a.id # m.id
    BY <1>1, <1>2 DEF OrderInv, Ids
  <1>6. wpc = "call" => next.id \in 1 .. received /\ next.id # event.id /\ event.id = received
    BY <1>1 DEF OrderInv, Pending
  <1>7. received \in Nat
    BY DEF TypeInv, TypeOK
  <1>8. wpc = "call" => next.id < m.id
    BY <1>2, <1>6, <1>7
  <1> QED BY <1>1, <1>2, <1>3, <1>4, <1>5, <1>6, <1>8 DEF OrderInv, Buffer!bufferVars, Buffer!SameEpoch

LEMMA ReceiverRefines ==
    ASSUME TypeInv, OrderInv, ReceiverStep \/ (\E e \in Emissions : ReceiveJrClock(e))
    PROVE  OrderInv' /\ [Buffer!BufferNext]_(Buffer!bufferVars)
  <1> USE DEF ReceiverFrame, streamVars, Enqueuing
  <1>1. ASSUME NEW e \in Emissions, ReceiveJrClock(e)
        PROVE  OrderInv' /\ UNCHANGED Buffer!bufferVars
    BY <1>1, QuietKeepsOrder DEF ReceiveJrClock, Dispatch
  <1>2. CASE ApplyJrClock
    BY <1>2, QuietKeepsOrder DEF ApplyJrClock
  <1>3. CASE EnqueueSnapshot
    BY <1>3, QuietKeepsOrder DEF EnqueueSnapshot
  <1>4. CASE EnqueueFlush
    BY <1>4, FlushDiscards
  <1>5. CASE EnqueueChooseMode
    <2>1. rpc' \in {"extrapolate", "anchor", "fallback"} /\ rpc = "mode"
      <3>1. CASE SchedulingMode = "FreshJr"
        BY <1>5, <3>1, Zenon DEF EnqueueChooseMode
      <3>2. CASE SchedulingMode = "Anchor"
        BY <1>5, <3>2, Zenon DEF EnqueueChooseMode
      <3>3. CASE SchedulingMode \notin {"FreshJr", "Anchor"}
        BY <1>5, <3>3, Zenon DEF EnqueueChooseMode
      <3> QED BY <3>1, <3>2, <3>3
    <2> QED BY <1>5, <2>1, QuietKeepsOrder DEF EnqueueChooseMode
  <1>6. CASE EnqueueExtrapolate
    BY <1>6, QuietKeepsOrder DEF EnqueueExtrapolate
  <1>7. CASE EnqueueFreshJr
    BY <1>7, QuietKeepsOrder DEF EnqueueFreshJr
  <1>8. CASE EnqueueAnchor
    BY <1>8, QuietKeepsOrder DEF EnqueueAnchor
  <1>9. CASE EnqueueFallback
    BY <1>9, QuietKeepsOrder DEF EnqueueFallback
  <1>10. CASE EnqueuePush
    BY <1>10, PushKeepsPending
  <1>11. CASE EnqueueNotify
    <2>1. (wpc' = "call") = (wpc = "call")
      BY <1>11, NotifiedCalls DEF EnqueueNotify
    <2> QED BY <1>11, <2>1, QuietKeepsOrder DEF EnqueueNotify
  <1> QED BY <1>1, <1>2, <1>3, <1>4, <1>5, <1>6, <1>7, <1>8, <1>9, <1>10, <1>11
          DEF ReceiverStep

-----------------------------------------------------------------------------
(* The worker.                                                              *)

\* Popping the top of the queue takes the first event of its epoch.
LEMMA ReleaseKeepsPending ==
    ASSUME TypeInv, OrderInv, WorkerRelease
    PROVE  OrderInv' /\ UNCHANGED Buffer!bufferVars
  <1> USE DEF WorkerFrame, streamVars, receiverVars
  <1>1. PICK m \in Tops(queue) : queue' = queue \ {m} /\ next' = m
    BY DEF WorkerRelease
  <1>2. /\ sent' = sent /\ flushed' = flushed /\ dropped' = dropped /\ event' = event
        /\ received' = received /\ Enqueuing' = Enqueuing /\ wpc # "call" /\ wpc' = "call"
    BY DEF WorkerRelease, Enqueuing
  <1>3. m \in queue /\ \A o \in queue : ~Precedes(o, m)
    BY DEF Tops
  <1>4. Ids(queue)' = Ids(queue) \ {m.id} /\ m.id \in Ids(queue)
    BY <1>1, <1>3 DEF Ids, OrderInv
  <1>5. Pending' = Pending
    BY <1>1, <1>2, <1>4 DEF Pending
  <1>6. \A o \in queue : o.id \in Nat
    BY DEF TypeInv, TypeOK, Messages
  <1>7. \A o \in queue \ {m} : o.id # m.id
    BY <1>3 DEF OrderInv
  <1>8. ASSUME NEW o \in queue \ {m}, Buffer!SameEpoch(m.id, o.id)
        PROVE  m.id < o.id
    <2>1. ~(Sequence(o.id) < Sequence(m.id))
      BY <1>3 DEF Precedes
    <2>2. m.id <= o.id
      BY <1>3, <1>6, <1>8, <2>1, SequenceOrdersEpoch
    <2> QED BY <1>3, <1>6, <1>7, <2>2
  <1>9. Enqueuing => m.id # event.id /\ event.id \notin Ids(queue)'
    BY <1>4 DEF OrderInv
  <1> QED BY <1>1, <1>2, <1>4, <1>5, <1>8, <1>9 DEF OrderInv, Buffer!bufferVars, Buffer!SameEpoch

LEMMA DropDiscards ==
    ASSUME TypeInv, OrderInv, WorkerDrop
    PROVE  OrderInv' /\ [Buffer!BufferNext]_(Buffer!bufferVars)
  <1> USE DEF WorkerFrame, streamVars, receiverVars
  <1>1. PICK m \in queue : queue' = queue \ {m} /\ dropped' = dropped \cup {m.id}
    BY DEF WorkerDrop, Tops
  <1>2. /\ sent' = sent /\ flushed' = flushed /\ event' = event /\ wpc # "call" /\ wpc' = wpc
        /\ received' = received /\ Enqueuing' = Enqueuing
    BY DEF WorkerDrop, Enqueuing
  <1>3. Ids(queue)' = Ids(queue) \ {m.id} /\ m.id \in Ids(queue)
    BY <1>1 DEF Ids, OrderInv
  <1>4. Pending' = Pending \ {m.id} /\ m.id \in Pending
    BY <1>2, <1>3 DEF Pending, OrderInv
  <1>5. Buffer!Discard({m.id})
    BY <1>1, <1>2, <1>4 DEF Buffer!Discard
  <1>6. OrderInv'
    BY <1>1, <1>2, <1>3, <1>4 DEF OrderInv
  <1> QED BY <1>4, <1>5, <1>6 DEF Buffer!BufferNext

\* The event in the hands of the worker is the first of its epoch, however many were
\* accepted since it was popped.
LEMMA SendPlays ==
    ASSUME TypeInv, OrderInv, WorkerSend
    PROVE  OrderInv' /\ [Buffer!BufferNext]_(Buffer!bufferVars)
  <1> USE DEF WorkerFrame, streamVars, receiverVars
  <1>1. /\ queue' = queue /\ flushed' = flushed /\ event' = event /\ received' = received
        /\ Enqueuing' = Enqueuing /\ Ids(queue)' = Ids(queue) /\ wpc = "call" /\ wpc' = "relock"
    BY DEF WorkerSend, Enqueuing, Ids
  <1>2. Pending' = Pending \ {next.id} /\ next.id \in Pending
    BY <1>1 DEF Pending, OrderInv
  <1>3. CASE callback
    <2>1. sent' = sent \cup {next.id} /\ dropped' = dropped
      BY <1>3 DEF WorkerSend
    <2>2. \A j \in Pending : Buffer!SameEpoch(next.id, j) => next.id <= j
      <3> SUFFICES ASSUME NEW j \in Pending, Buffer!SameEpoch(next.id, j), j # next.id
                   PROVE  next.id <= j
        BY <1>2 DEF OrderInv
      <3>1. next.id \in 1 .. received /\ received \in Nat
        BY <1>2 DEF OrderInv, TypeInv, TypeOK
      <3>2. CASE j \in Ids(queue)
        <4>1. PICK m \in queue : m.id = j
          BY <3>2 DEF Ids
        <4>2. next.id < j
          BY <1>1, <4>1 DEF OrderInv
        <4>3. j \in Nat
          BY <4>1 DEF TypeInv, TypeOK, Messages
        <4> QED BY <3>1, <4>2, <4>3
      <3>3. CASE j \notin Ids(queue)
        BY <3>1, <3>3 DEF OrderInv, Pending
      <3> QED BY <3>2, <3>3
    <2>3. Buffer!Play(next.id)
      BY <1>1, <1>2, <2>1, <2>2 DEF Buffer!Play
    <2>4. OrderInv'
      BY <1>1, <1>2, <2>1 DEF OrderInv
    <2> QED BY <1>2, <2>3, <2>4 DEF Buffer!BufferNext
  <1>4. CASE ~callback
    <2>1. sent' = sent /\ dropped' = dropped \cup {next.id}
      BY <1>4 DEF WorkerSend
    <2>2. Buffer!Discard({next.id})
      BY <1>1, <1>2, <2>1 DEF Buffer!Discard
    <2>3. OrderInv'
      BY <1>1, <1>2, <2>1 DEF OrderInv
    <2> QED BY <1>2, <2>2, <2>3 DEF Buffer!BufferNext
  <1> QED BY <1>3, <1>4

LEMMA WorkerRefines ==
    ASSUME TypeInv, OrderInv, WorkerStep \/ SpuriousWake
    PROVE  OrderInv' /\ [Buffer!BufferNext]_(Buffer!bufferVars)
  <1> USE DEF WorkerFrame, streamVars, receiverVars, Enqueuing
  <1>1. CASE WorkerLoop \/ WorkerWait \/ WorkerBlock \/ WorkerWake \/ WorkerInnerExit
    BY <1>1, QuietKeepsOrder DEF WorkerLoop, WorkerWait, WorkerBlock, WorkerWake, WorkerInnerExit
  <1>2. CASE WorkerDefer \/ WorkerTimedWait \/ WorkerTimedWake \/ WorkerTimeout \/ WorkerRelock
    BY <1>2, QuietKeepsOrder
       DEF WorkerDefer, WorkerTimedWait, WorkerTimedWake, WorkerTimeout, WorkerRelock
  <1>3. CASE SpuriousWake
    <2>1. (wpc' = "call") = (wpc = "call")
      BY <1>3, NotifiedCalls DEF SpuriousWake
    <2> QED BY <1>3, <2>1, QuietKeepsOrder DEF SpuriousWake
  <1>4. CASE WorkerRelease
    BY <1>4, ReleaseKeepsPending
  <1>5. CASE WorkerDrop
    BY <1>5, DropDiscards
  <1>6. CASE WorkerSend
    BY <1>6, SendPlays
  <1> QED BY <1>1, <1>2, <1>3, <1>4, <1>5, <1>6 DEF WorkerStep

-----------------------------------------------------------------------------
(* The GUI thread and the rest.                                             *)

\* reset() discards the queue; start() finds no worker.
LEMMA ResetDiscards ==
    ASSUME TypeInv, OrderInv, SchedulerReset
    PROVE  OrderInv' /\ [Buffer!BufferNext]_(Buffer!bufferVars)
  <1> USE DEF GuiFrame, streamVars, receiverVars
  <1>1. /\ queue' = {} /\ flushed' = flushed \cup Ids(queue) /\ sent' = sent
        /\ dropped' = dropped /\ event' = event /\ received' = received /\ next' = next
        /\ Enqueuing' = Enqueuing
    BY DEF SchedulerReset, KeptByReset, Enqueuing
  <1>2. (wpc' = "call") = (wpc = "call")
    BY NotifiedCalls DEF SchedulerReset
  <1>3. Ids(queue)' = {}
    BY <1>1 DEF Ids
  <1>4. Pending' = Pending \ Ids(queue) /\ Ids(queue) \subseteq Pending
    BY <1>1, <1>2, <1>3 DEF Pending, OrderInv
  <1>5. Buffer!Discard(Ids(queue))
    BY <1>1, <1>4 DEF Buffer!Discard
  <1>6. OrderInv'
    BY <1>1, <1>2, <1>3, <1>4 DEF OrderInv
  <1> QED BY <1>4, <1>5, <1>6 DEF Buffer!BufferNext

LEMMA GuiRefines ==
    ASSUME TypeInv, WorkerLife, OrderInv, StartStreaming \/ StopStreaming \/ GuiStep
    PROVE  OrderInv' /\ [Buffer!BufferNext]_(Buffer!bufferVars)
  <1> USE DEF GuiFrame, streamVars, receiverVars, queueVars, Enqueuing
  <1>1. CASE StartStreaming \/ StopStreaming \/ WireOutput \/ SchedulerStop
    BY <1>1, QuietKeepsOrder DEF StartStreaming, StopStreaming, WireOutput, SchedulerStop
  <1>2. CASE SchedulerStart
    BY <1>2, QuietKeepsOrder DEF SchedulerStart, WorkerLife
  <1>3. CASE StopNotify
    <2>1. (wpc' = "call") = (wpc = "call")
      BY <1>3, NotifiedCalls DEF StopNotify
    <2> QED BY <1>3, <2>1, QuietKeepsOrder DEF StopNotify
  <1>4. CASE StopJoin
    BY <1>4, QuietKeepsOrder DEF StopJoin
  <1>5. CASE SchedulerReset
    BY <1>5, ResetDiscards
  <1>6. CASE ClearOutput \/ UnwireInput \/ ResetClock \/ ClosePorts
    BY <1>6, QuietKeepsOrder DEF ClearOutput, UnwireInput, ResetClock, ClosePorts
  <1> QED BY <1>1, <1>2, <1>3, <1>4, <1>5, <1>6 DEF GuiStep

LEMMA OutsideRefines ==
    ASSUME OrderInv, ClockMessageArrives \/ MidiClock \/ Tick \/ UNCHANGED vars
    PROVE  OrderInv' /\ UNCHANGED Buffer!bufferVars
  BY QuietKeepsOrder DEF ClockMessageArrives, MidiClock, Tick, vars, OutsideFrame, queueVars,
     workerVars, receiverVars, streamVars, historyVars, Enqueuing

LEMMA NextRefines ==
    TypeInv /\ WorkerLife /\ OrderInv /\ [Next]_vars
      => OrderInv' /\ [Buffer!BufferNext]_(Buffer!bufferVars)
  BY ReceiveAccepts, ReceiverRefines, WorkerRefines, GuiRefines, OutsideRefines DEF Next

\* The receive path plays or discards each event once, and plays in stream order
\* within one epoch of the sequence number, whatever the threads do to each other.
THEOREM Refinement == Spec => ImplementsPlayoutBuffer
  BY InitType, NextKeepsType, InitWorkerLife, NextKeepsWorkerLife, InitOrder, NextRefines, PTL
     DEF Spec, ImplementsPlayoutBuffer, Buffer!BufferSpec
-----------------------------------------------------------------------------
(* What the buffer promises holds of the threads.                           *)

Promise == INSTANCE PlayoutBufferProofs
             WITH Events <- 1 .. MaxEvents, pending <- Pending,
                  played <- sent, discarded <- flushed \cup dropped

LEMMA InitPromise == Buffer!BufferInit => Promise!BufferInv
  BY Promise!BufferInitInv DEF Buffer!BufferInit, Promise!BufferInit

LEMMA SameStep == [Buffer!BufferNext]_(Buffer!bufferVars) <=> [Promise!BufferNext]_(Promise!bufferVars)
  BY DEF Buffer!BufferNext, Buffer!bufferVars, Promise!BufferNext, Promise!bufferVars,
     Buffer!Accept, Promise!Accept, Buffer!Accepted, Promise!Accepted, Buffer!Play, Promise!Play,
     Buffer!SameEpoch, Promise!SameEpoch, Buffer!Discard, Promise!Discard

LEMMA StepKeepsPromise ==
    ASSUME Promise!BufferInv, [Buffer!BufferNext]_(Buffer!bufferVars)
    PROVE  /\ Promise!BufferInv'
           /\ [\A i \in sent' \ sent, j \in sent : Buffer!SameEpoch(i, j) => j < i]_(Buffer!bufferVars)
  <1>1. 1 .. MaxEvents \subseteq Int
    BY SchedulerConstants
  <1>2. Promise!BufferInv'
    BY <1>1, SameStep, Promise!BufferKeepsInv
  <1>3. \A i \in sent' \ sent, j \in sent : Promise!SameEpoch(i, j) => j < i
    BY SameStep, Promise!StepPlaysInOrder
  <1> QED BY <1>2, <1>3 DEF Buffer!SameEpoch, Promise!SameEpoch

\* No event is sent and also flushed or dropped, and none that was sent, flushed or
\* dropped is still queued or in the hands of a thread that will send it: enqueue(),
\* reset(), the flush rule and the worker decide each event once.
THEOREM EventsHaveOneFate == Spec => []Buffer!OneFate
  <1>1. Promise!BufferInv => Buffer!OneFate
    BY DEF Promise!BufferInv, Promise!OneFate, Buffer!OneFate
  <1> QED BY <1>1, InitType, NextKeepsType, InitWorkerLife, NextKeepsWorkerLife, InitOrder,
             NextRefines, InitPromise, StepKeepsPromise, PTL DEF Spec

\* The worker sends the events in the order of the stream, within one epoch of the
\* sequence number, across stops, resets and flushes.
THEOREM EventsPlayInOrder == Spec => Buffer!PlaysInStreamOrder
  <1> QED BY InitType, NextKeepsType, InitWorkerLife, NextKeepsWorkerLife, InitOrder, NextRefines,
             InitPromise, StepKeepsPromise, PTL DEF Spec, Buffer!PlaysInStreamOrder

-----------------------------------------------------------------------------
(* What is dropped.                                                         *)

\* The event dropped is the one that shouldReleaseEvent() refuses: no other event of
\* the queue has its id, and the output callback is never missing.
LEMMA DropsOnlyRefused ==
    ASSUME TypeInv, WorkerLife, OrderInv, PulseNeverBeforeSongPosition, [Next]_vars,
           NEW m \in queue, m.id \in dropped' \ dropped
    PROVE  clock.songPositionBeats * PulsesPerBeat < m.atEnqueue.pulseCount
  <1>1. CASE WorkerDrop
    <2>1. PICK o \in queue : ~ShouldRelease(o) /\ dropped' = dropped \cup {o.id}
      BY <1>1 DEF WorkerDrop, Tops
    <2>2. o = m
      BY <2>1 DEF OrderInv
    <2>3. /\ clock.pulseCount \in Nat /\ m.atEnqueue.pulseCount \in Nat
          /\ clock.songPositionBeats \in Int
      BY DEF TypeInv, TypeOK, ClockStates, Messages
    <2>4. clock.pulseCount >= clock.songPositionBeats * PulsesPerBeat
      BY <2>1 DEF ShouldRelease, PulseNeverBeforeSongPosition
    <2>5. clock.pulseCount < m.atEnqueue.pulseCount
      BY <2>1, <2>2 DEF ShouldRelease
    <2> QED BY <2>3, <2>4, <2>5 DEF PulsesPerBeat
  <1>2. CASE WorkerSend
    BY <1>2 DEF WorkerSend, WorkerLife
  <1>3. CASE WorkerStep \/ SpuriousWake
    <2>1. CASE ~WorkerDrop /\ ~WorkerSend
      BY <1>3, <2>1 DEF WorkerStep, WorkerLoop, WorkerWait, WorkerBlock, WorkerWake,
         WorkerInnerExit, WorkerDefer, WorkerTimedWait, WorkerTimedWake, WorkerTimeout,
         WorkerRelease, WorkerRelock, SpuriousWake
    <2> QED BY <1>1, <1>2, <2>1
  <1>4. CASE ReceiverStep \/ \E e \in Emissions : ReceiveMidi(e) \/ ReceiveJrClock(e)
    BY <1>4 DEF ReceiverFrame, ReceiveMidi, ReceiveJrClock, Dispatch, ReceiverStep,
       ApplyJrClock, EnqueueSnapshot, EnqueueFlush, EnqueueChooseMode, EnqueueExtrapolate,
       EnqueueFreshJr, EnqueueAnchor, EnqueueFallback, EnqueuePush, EnqueueNotify
  <1>5. CASE GuiStep \/ StartStreaming \/ StopStreaming
    BY <1>5 DEF GuiFrame, GuiStep, StartStreaming, StopStreaming, WireOutput, SchedulerStart,
       SchedulerStop, StopNotify, StopJoin, SchedulerReset, ClearOutput, UnwireInput,
       ResetClock, ClosePorts
  <1>6. CASE ClockMessageArrives \/ MidiClock \/ Tick \/ UNCHANGED vars
    BY <1>6 DEF OutsideFrame, historyVars, ClockMessageArrives, MidiClock, Tick, vars
  <1> QED BY <1>3, <1>4, <1>5, <1>6 DEF Next

\* However the transport moves and however long an event waits, it is dropped at
\* release only after a move to a song position before the one it was enqueued at.
THEOREM DropsAfterMoveBack == Spec => DroppedOnlyWhenMovedBack
  <1>1. TypeInv /\ WorkerLife /\ OrderInv /\ PulseNeverBeforeSongPosition /\ [Next]_vars
          => [\A m \in queue : m.id \in dropped' \ dropped =>
                clock.songPositionBeats * PulsesPerBeat < m.atEnqueue.pulseCount]_vars
    BY DropsOnlyRefused
  <1> QED BY InitType, NextKeepsType, InitWorkerLife, NextKeepsWorkerLife, InitOrder, NextRefines,
             PulseAhead, <1>1, PTL DEF Spec, DroppedOnlyWhenMovedBack
=============================================================================
