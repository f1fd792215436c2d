-------------------------- MODULE ReceiveScheduler --------------------------
(***************************************************************************)
(* The receive path of one client (receiveScheduler.h, receiveScheduler.cpp, *)
(* with the callbacks and the start and stop sequence of AppController.cpp *)
(* that drive it).  Four threads meet here:                                *)
(*                                                                         *)
(*   receive thread   runs the receive callback for each frame: a JR frame *)
(*                    goes to TimeSync, a MIDI frame through enqueue();    *)
(*   worker thread    ReceiveScheduler::workerLoop(): waits on cv_, pops   *)
(*                    the queue and calls sendScheduledMidi();             *)
(*   GUI thread       AppController::startStreaming() and stopStreaming(); *)
(*   MIDI input       moves ClockState.                                    *)
(*                                                                         *)
(* A step is a stretch of code that no other thread can see the middle of: *)
(* one critical section of mutex_, one call of a TimeSync or ClockState    *)
(* method, one access to an atomic.  The critical sections of the receive  *)
(* and GUI threads contain no wait, so they are single steps, enabled when *)
(* the worker does not hold mutex_ (MutexFree).  Only the worker holds it  *)
(* from one step to the next, because stop() writes running_ and notifies  *)
(* cv_ without mutex_ and may do so between any two of these steps.        *)
(***************************************************************************)
EXTENDS ClockState, TimeSync, FiniteSets

CONSTANTS
    MaxDelay,          \* bound: from the server's time stamp to the end of enqueue()
    ServerOffset,      \* server clock minus local clock
    SeqModulus,        \* range of the uint32_t sequence number
    OutputLead,        \* kOutputLeadNs, 4 ms
    MaxTime,           \* bound on now
    MaxEvents,         \* bound on MIDI frames
    MaxJrFrames,       \* bound on JR frames
    MaxClockMessages,  \* bound on local clock messages
    MaxSessions        \* bound on calls of stopStreaming()

ASSUME SchedulerConstants ==
    /\ MaxDelay \in Nat /\ ServerOffset \in Nat /\ OutputLead \in Nat
    /\ SeqModulus \in Nat \ {0}
    /\ {MaxTime, MaxEvents, MaxJrFrames, MaxClockMessages, MaxSessions} \subseteq Nat

VARIABLES
    \* members of ReceiveScheduler
    queue, running, outputCallback,
    lastRunningState, haveLastSongPosition, lastSongPosition,
    \* worker thread: where it is, its locals "next" and "callback"
    wpc, next, callback,
    \* receive thread: where it is, its locals "event", "snap", the
    \* extrapolated server clock and "playAt"; TransportClient's callback
    rpc, event, snap, extrapolated, playAt, receiveCallback,
    \* GUI thread: where it is in startStreaming or stopStreaming
    gpc,
    \* MIDI input thread: MidiInputHandler's clock callback, and whether the
    \* thread has tested it and is about to call it
    clockCallback, clockCall,
    \* the stream and the environment so far
    received, jrFrames, clockMessages, lastEmission,
    \* history: reset() calls so far, and what became of each event
    session, sent, flushed, dropped

queueVars    == <<queue, running, outputCallback>>
lastVars     == <<lastRunningState, haveLastSongPosition, lastSongPosition>>
workerVars   == <<wpc, next, callback>>
receiverVars == <<rpc, event, snap, extrapolated, playAt>>
streamVars   == <<received, jrFrames, lastEmission>>
clockVars    == <<clock, clockMessages, clockCallback, clockCall>>
historyVars  == <<session, sent, flushed, dropped>>

vars == <<queueVars, lastVars, workerVars, receiverVars, receiveCallback, gpc,
          streamVars, clockVars, historyVars, now, sync>>

\* What no step of a thread changes.
ReceiverFrame == UNCHANGED <<running, outputCallback, next, callback, receiveCallback, gpc,
                             clockVars, session, sent, dropped, now>>
WorkerFrame   == UNCHANGED <<running, outputCallback, lastVars, receiverVars, receiveCallback,
                             gpc, streamVars, clockVars, session, flushed, now, sync>>
GuiFrame      == UNCHANGED <<next, callback, receiverVars, streamVars, clockMessages,
                             clockCall, sent, dropped, now>>
OutsideFrame  == UNCHANGED <<queueVars, lastVars, workerVars, receiverVars, receiveCallback,
                             gpc, streamVars, historyVars, sync>>

-----------------------------------------------------------------------------
(* Data.  An event is a MIDI frame: id is its position in the stream, which *)
(* the program does not see, and sequence what the header carries of it.    *)

Sequence(id) == id % SeqModulus

Frames == [id : Nat, serverTimestampNs : Int, session : Nat]

NoEvent == [id |-> 0, serverTimestampNs |-> 0, session |-> 0]

\* ScheduledMidiMessage
Messages == [id : Nat, serverTimestampNs : Int, session : Nat,
             playAt : Int, atEnqueue : ClockStates]

NoMessage == [id |-> 0, serverTimestampNs |-> 0, session |-> 0,
              playAt |-> 0, atEnqueue |-> StoppedClock]

Emission(e) == e.serverTimestampNs - ServerOffset

Ids(messages) == {m.id : m \in messages}

\* Faulty variant: order by play time.
PrecedesByPlayTime(a, b) == a.playAt < b.playAt

\* ScheduledMidiCompare: the lower sequence number is released first.
Precedes(a, b) ==
    \/ Sequence(a.id) < Sequence(b.id)
    \/ Sequence(a.id) = Sequence(b.id) /\ a.playAt < b.playAt

\* What queue_.top() may return.
Tops(q) == {m \in q : \A o \in q : ~Precedes(o, m)}

-----------------------------------------------------------------------------
(* The mutex and the condition variable.                                    *)

\* Faulty variant: the other threads do not lock.
MutexNotTaken == TRUE

MutexFree == wpc \notin {"wait", "blocking", "inner", "twait", "tblocking"}

\* notify_one() and notify_all(): the worker is the only thread that waits.
Notified == CASE wpc = "asleep"  -> "woken"
              [] wpc = "tasleep" -> "twoken"
              [] OTHER           -> wpc

\* Faulty variants: the wait forgets one of its two reasons to end.
WaitPredicateOnRunning == ~running
WaitPredicateOnQueue   == queue # {}

\* The predicate of cv_.wait in workerLoop.
WaitPredicate == ~running \/ queue # {}

\* Faulty variant: the timed wait does not look at the queue.
TimedWaitPredicateOnRunning == ~running

\* The predicate of cv_.wait_until: the top of the queue precedes "next".
TimedWaitPredicate ==
    \/ ~running
    \/ queue = {}
    \/ \A m \in Tops(queue) : Sequence(m.id) < Sequence(next.id)

-----------------------------------------------------------------------------
(* Transport rules.                                                         *)

\* shouldFlushForTransportJump
TransportJumped ==
    \/ snap.running # lastRunningState
    \/ /\ snap.hasSongPosition
       /\ \/ ~haveLastSongPosition
          \/ snap.songPositionBeats # lastSongPosition

\* Faulty variant: a stop is not a reason to flush.
FlushedOnSongPositionOnly ==
    IF /\ snap.running /\ snap.hasSongPosition /\ haveLastSongPosition
       /\ snap.songPositionBeats # lastSongPosition
    THEN queue ELSE {}

\* What enqueue() flushes before it adds the event: everything on a jump while
\* stopped, and on a change of song position while running.
FlushedByJump ==
    IF /\ TransportJumped
       /\ \/ ~snap.running
          \/ /\ snap.hasSongPosition /\ haveLastSongPosition
             /\ snap.songPositionBeats # lastSongPosition
    THEN queue ELSE {}

\* Faulty variant: a forward jump drops the event too.
ShouldReleaseUnlessMoved(m) ==
    ~(/\ clock.hasSongPosition /\ m.atEnqueue.hasSongPosition
      /\ clock.songPositionBeats # m.atEnqueue.songPositionBeats)

\* shouldReleaseEvent
ShouldRelease(m) ==
    ~(/\ clock.hasSongPosition /\ m.atEnqueue.hasSongPosition
      /\ clock.songPositionBeats # m.atEnqueue.songPositionBeats
      /\ clock.pulseCount < m.atEnqueue.pulseCount)

-----------------------------------------------------------------------------
Init ==
    /\ ClockInit /\ SyncInit /\ now = 0
    /\ queue = {} /\ running = FALSE /\ outputCallback = FALSE
    /\ lastRunningState = FALSE /\ haveLastSongPosition = FALSE
    /\ lastSongPosition = -1
    /\ wpc = "none" /\ next = NoMessage /\ callback = FALSE
    /\ rpc = "idle" /\ event = NoEvent /\ snap = StoppedClock
    /\ extrapolated = 0 /\ playAt = 0 /\ receiveCallback = FALSE
    /\ gpc = "idle" /\ clockCallback = FALSE /\ clockCall = FALSE
    /\ received = 0 /\ jrFrames = 0 /\ clockMessages = 0 /\ lastEmission = 0
    /\ session = 0 /\ sent = {} /\ flushed = {} /\ dropped = {}

-----------------------------------------------------------------------------
(* The receive thread.  The stream delivers frames in order, stamped by a   *)
(* server clock that does not run backwards; a frame is at most MaxDelay    *)
(* old.  The callback is copied under callbackMutex_ and then runs to its   *)
(* end whatever the GUI thread does to it meanwhile.                        *)

\* The times at which the server may have stamped the next frame.  Bound: the
\* stream ends early enough for every event to become due before MaxTime.
Emissions ==
    {e \in lastEmission .. now :
        now - e <= MaxDelay /\ e + JitterBuffer + 2 * MaxDelay <= MaxTime}

\* The frame reaches the receive callback, or is dropped if there is none.
Dispatch(id, e, handler) ==
    /\ rpc = "idle"
    /\ lastEmission' = e
    /\ IF receiveCallback
       THEN /\ event' = [id |-> id, serverTimestampNs |-> e + ServerOffset,
                         session |-> session]
            /\ rpc' = handler
       ELSE UNCHANGED <<event, rpc>>
    /\ ReceiverFrame
    /\ UNCHANGED <<queue, lastVars, wpc, snap, extrapolated, playAt, flushed, sync>>

ReceiveMidi(e) ==
    /\ received < MaxEvents
    /\ received' = received + 1
    /\ Dispatch(received + 1, e, "snapshot")
    /\ UNCHANGED jrFrames

ReceiveJrClock(e) ==
    /\ jrFrames < MaxJrFrames
    /\ jrFrames' = jrFrames + 1
    /\ Dispatch(0, e, "jr")
    /\ UNCHANGED received

\* enqueue() returns at once for an event that carries a JR clock.
ApplyJrClock ==
    /\ rpc = "jr"
    /\ \E ppm \in FreqPpms : UpdateJrClock(event.serverTimestampNs, ppm)
    /\ rpc' = "idle" /\ event' = NoEvent
    /\ ReceiverFrame
    /\ UNCHANGED <<queue, lastVars, wpc, snap, extrapolated, playAt, streamVars, flushed>>

EnqueueSnapshot ==
    /\ rpc = "snapshot"
    /\ snap' = ClockSnapshot
    /\ rpc' = "flush"
    /\ ReceiverFrame
    /\ UNCHANGED <<queue, lastVars, wpc, event, extrapolated, playAt, streamVars, flushed, sync>>

EnqueueFlush ==
    /\ rpc = "flush" /\ MutexFree
    /\ queue' = queue \ FlushedByJump
    /\ flushed' = flushed \cup Ids(FlushedByJump)
    /\ lastRunningState' = snap.running
    /\ haveLastSongPosition' = (haveLastSongPosition \/ snap.hasSongPosition)
    /\ lastSongPosition' = IF snap.hasSongPosition THEN snap.songPositionBeats
                                                   ELSE lastSongPosition
    /\ rpc' = "mode"
    /\ ReceiverFrame
    /\ UNCHANGED <<wpc, event, snap, extrapolated, playAt, streamVars, sync>>

EnqueueChooseMode ==
    /\ rpc = "mode"
    /\ rpc' = CASE SchedulingMode = "FreshJr" -> "extrapolate"
                [] SchedulingMode = "Anchor"  -> "anchor"
                [] OTHER                      -> "fallback"
    /\ ReceiverFrame
    /\ UNCHANGED <<queue, lastVars, wpc, event, snap, extrapolated, playAt, streamVars,
                   flushed, sync>>

EnqueueExtrapolate ==
    /\ rpc = "extrapolate"
    /\ extrapolated' = ExtrapolatedServerClock
    /\ rpc' = "offset"
    /\ ReceiverFrame
    /\ UNCHANGED <<queue, lastVars, wpc, event, snap, playAt, streamVars, flushed, sync>>

\* Faulty variant: the play time leaves the jitter buffer out.
FreshJrPlayTimeUnbuffered == LocalTimeAtOffset(event.serverTimestampNs - extrapolated)

FreshJrPlayTime ==
    LocalTimeAtOffset(event.serverTimestampNs - extrapolated + JitterBuffer)

EnqueueFreshJr ==
    /\ rpc = "offset"
    /\ playAt' = FreshJrPlayTime
    /\ rpc' = "push" /\ extrapolated' = 0
    /\ ReceiverFrame
    /\ UNCHANGED <<queue, lastVars, wpc, event, snap, streamVars, flushed, sync>>

EnqueueAnchor ==
    /\ rpc = "anchor"
    /\ playAt' = PlayTime(event.serverTimestampNs)
    /\ sync' = Anchored(sync, event.serverTimestampNs)
    /\ rpc' = "push"
    /\ ReceiverFrame
    /\ UNCHANGED <<queue, lastVars, wpc, event, snap, extrapolated, streamVars, flushed>>

EnqueueFallback ==
    /\ rpc = "fallback"
    /\ playAt' = now + JitterBuffer
    /\ rpc' = "push"
    /\ ReceiverFrame
    /\ UNCHANGED <<queue, lastVars, wpc, event, snap, extrapolated, streamVars, flushed, sync>>

EnqueuePush ==
    /\ rpc = "push" /\ MutexFree
    /\ queue' = queue \cup {[id |-> event.id, session |-> event.session,
                             serverTimestampNs |-> event.serverTimestampNs,
                             playAt |-> playAt, atEnqueue |-> snap]}
    /\ rpc' = "notify"
    /\ event' = NoEvent /\ snap' = StoppedClock /\ playAt' = 0
    /\ ReceiverFrame
    /\ UNCHANGED <<lastVars, wpc, extrapolated, streamVars, flushed, sync>>

EnqueueNotify ==
    /\ rpc = "notify"
    /\ wpc' = Notified
    /\ rpc' = "idle"
    /\ ReceiverFrame
    /\ UNCHANGED <<queue, lastVars, event, snap, extrapolated, playAt, streamVars, flushed, sync>>

\* Reading a frame is the network's doing, the rest the receive thread's own.
ReceiverStep ==
    \/ ApplyJrClock
    \/ EnqueueSnapshot
    \/ EnqueueFlush
    \/ EnqueueChooseMode
    \/ EnqueueExtrapolate
    \/ EnqueueFreshJr
    \/ EnqueueAnchor
    \/ EnqueueFallback
    \/ EnqueuePush
    \/ EnqueueNotify

-----------------------------------------------------------------------------
(* The worker thread, workerLoop().                                         *)

WorkerLoop ==
    /\ wpc = "loop"
    /\ wpc' = IF running THEN "wait" ELSE "done"
    /\ WorkerFrame /\ UNCHANGED <<queue, next, callback, sent, dropped>>

\* cv_.wait reads its predicate first; the thread is a waiter of cv_ after that.
WorkerWait ==
    /\ wpc = "wait"
    /\ wpc' = IF WaitPredicate THEN "inner" ELSE "blocking"
    /\ WorkerFrame /\ UNCHANGED <<queue, next, callback, sent, dropped>>

WorkerBlock ==
    /\ \/ wpc = "blocking"  /\ wpc' = "asleep"
       \/ wpc = "tblocking" /\ wpc' = "tasleep"
    /\ WorkerFrame /\ UNCHANGED <<queue, next, callback, sent, dropped>>

WorkerWake ==
    /\ wpc = "woken"
    /\ wpc' = "wait"
    /\ WorkerFrame /\ UNCHANGED <<queue, next, callback, sent, dropped>>

WorkerInnerExit ==
    /\ wpc = "inner" /\ (~running \/ queue = {})
    /\ wpc' = "loop"
    /\ WorkerFrame /\ UNCHANGED <<queue, next, callback, sent, dropped>>

WorkerDefer ==
    /\ wpc = "inner" /\ running
    /\ \E m \in Tops(queue) : m.playAt > now /\ next' = m
    /\ wpc' = "twait"
    /\ WorkerFrame /\ UNCHANGED <<queue, callback, sent, dropped>>

WorkerTimedWait ==
    /\ wpc = "twait"
    /\ IF TimedWaitPredicate
       THEN wpc' = "inner" /\ next' = NoMessage
       ELSE wpc' = "tblocking" /\ UNCHANGED next
    /\ WorkerFrame /\ UNCHANGED <<queue, callback, sent, dropped>>

\* However it woke, a wait_until past its deadline reports a timeout and ends.
WorkerTimedWake ==
    /\ wpc = "twoken"
    /\ IF now >= next.playAt
       THEN wpc' = "inner" /\ next' = NoMessage
       ELSE wpc' = "twait" /\ UNCHANGED next
    /\ WorkerFrame /\ UNCHANGED <<queue, callback, sent, dropped>>

WorkerTimeout ==
    /\ wpc = "tasleep" /\ now >= next.playAt
    /\ wpc' = "twoken"
    /\ WorkerFrame /\ UNCHANGED <<queue, next, callback, sent, dropped>>

\* A condition variable may wake its waiter for no reason; nothing says it will.
SpuriousWake ==
    /\ wpc \in {"asleep", "tasleep"}
    /\ wpc' = Notified
    /\ WorkerFrame /\ UNCHANGED <<queue, next, callback, sent, dropped>>

\* Pop, copy the callback, and ask the transport whether the event may go.
WorkerRelease ==
    /\ wpc = "inner" /\ running
    /\ \E m \in Tops(queue) :
         /\ m.playAt <= now /\ ShouldRelease(m)
         /\ queue' = queue \ {m} /\ next' = m
    /\ callback' = outputCallback
    /\ wpc' = "call"
    /\ WorkerFrame /\ UNCHANGED <<sent, dropped>>

WorkerDrop ==
    /\ wpc = "inner" /\ running
    /\ \E m \in Tops(queue) :
         /\ m.playAt <= now /\ ~ShouldRelease(m)
         /\ queue' = queue \ {m}
         /\ dropped' = dropped \cup {m.id}
    /\ WorkerFrame /\ UNCHANGED <<wpc, next, callback, sent>>

\* sendScheduledMidi sleeps until OutputLead before the play time.  Without a
\* callback the event is lost with a log line.
WorkerSend ==
    /\ wpc = "call"
    /\ IF callback
       THEN now >= next.playAt - OutputLead /\ sent' = sent \cup {next.id} /\ UNCHANGED dropped
       ELSE dropped' = dropped \cup {next.id} /\ UNCHANGED sent
    /\ wpc' = "relock" /\ next' = NoMessage /\ callback' = FALSE
    /\ WorkerFrame /\ UNCHANGED queue

WorkerRelock ==
    /\ wpc = "relock"
    /\ wpc' = "inner"
    /\ WorkerFrame /\ UNCHANGED <<queue, next, callback, sent, dropped>>

WorkerStep ==
    \/ WorkerLoop
    \/ WorkerWait
    \/ WorkerBlock
    \/ WorkerWake
    \/ WorkerInnerExit
    \/ WorkerDefer
    \/ WorkerTimedWait
    \/ WorkerTimedWake
    \/ WorkerTimeout
    \/ WorkerRelease
    \/ WorkerDrop
    \/ WorkerSend
    \/ WorkerRelock

-----------------------------------------------------------------------------
(* The GUI thread.  startStreaming opens the ports, wires the callbacks and *)
(* starts the scheduler; the callbacks of the MIDI input and of the         *)
(* transport are wired before the output callback.                          *)

StartStreaming ==
    /\ gpc = "idle" /\ session < MaxSessions
    /\ clockCallback' = TRUE /\ receiveCallback' = TRUE
    /\ gpc' = "wire"
    /\ GuiFrame /\ UNCHANGED <<queueVars, lastVars, wpc, clock, session, flushed, sync>>

WireOutput ==
    /\ gpc = "wire" /\ MutexFree
    /\ outputCallback' = TRUE
    /\ gpc' = "start"
    /\ GuiFrame /\ UNCHANGED <<queue, running, lastVars, wpc, receiveCallback, clock,
                               clockCallback, session, flushed, sync>>

SchedulerStart ==
    /\ gpc = "start"
    /\ running' = TRUE
    /\ wpc' = "loop"
    /\ gpc' = "streaming"
    /\ GuiFrame /\ UNCHANGED <<queue, outputCallback, lastVars, receiveCallback, clock,
                               clockCallback, session, flushed, sync>>

\* stopStreaming, from the Stop button, disconnect() or shutdown(): it runs
\* whether or not the client is streaming.
StopStreaming ==
    /\ gpc \in {"idle", "streaming"} /\ session < MaxSessions
    /\ receiveCallback' = FALSE
    /\ gpc' = "stop"
    /\ GuiFrame /\ UNCHANGED <<queueVars, lastVars, wpc, clock, clockCallback, session,
                               flushed, sync>>

\* stop(): the flag changes without mutex_.
SchedulerStop ==
    /\ gpc = "stop"
    /\ running' = FALSE
    /\ gpc' = IF running THEN "stopnotify" ELSE "reset"
    /\ GuiFrame /\ UNCHANGED <<queue, outputCallback, lastVars, wpc, receiveCallback, clock,
                               clockCallback, session, flushed, sync>>

\* Faulty variant: stop() does not wait for the worker.
StopNotifyWithoutJoin ==
    /\ gpc = "stopnotify"
    /\ wpc' = Notified
    /\ gpc' = "reset"
    /\ GuiFrame /\ UNCHANGED <<queueVars, lastVars, receiveCallback, clock, clockCallback,
                               session, flushed, sync>>

\* stop(): cv_.notify_all(), without mutex_ too.
StopNotify ==
    /\ gpc = "stopnotify"
    /\ wpc' = Notified
    /\ gpc' = "join"
    /\ GuiFrame /\ UNCHANGED <<queueVars, lastVars, receiveCallback, clock, clockCallback,
                               session, flushed, sync>>

StopJoin ==
    /\ gpc = "join" /\ wpc = "done"
    /\ wpc' = "none"
    /\ gpc' = "reset"
    /\ GuiFrame /\ UNCHANGED <<queueVars, lastVars, receiveCallback, clock, clockCallback,
                               session, flushed, sync>>

\* Faulty variant: reset() leaves the queue alone.
KeptAtReset == queue

KeptByReset == {}

\* reset(): one critical section of mutex_, with TimeSync::reset() inside.
SchedulerReset ==
    /\ gpc = "reset" /\ MutexFree
    /\ queue' = KeptByReset
    /\ flushed' = flushed \cup Ids(queue \ KeptByReset)
    /\ SyncReset
    /\ lastRunningState' = FALSE /\ haveLastSongPosition' = FALSE /\ lastSongPosition' = 0
    /\ wpc' = Notified
    /\ session' = session + 1
    /\ gpc' = "clear"
    /\ GuiFrame /\ UNCHANGED <<running, outputCallback, receiveCallback, clock, clockCallback>>

ClearOutput ==
    /\ gpc = "clear" /\ MutexFree
    /\ outputCallback' = FALSE
    /\ gpc' = "unwire"
    /\ GuiFrame /\ UNCHANGED <<queue, running, lastVars, wpc, receiveCallback, clock,
                               clockCallback, session, flushed, sync>>

\* Faulty variant: the clock callback is not among those that are cleared.
UnwireInputExceptClock ==
    /\ gpc = "unwire"
    /\ gpc' = "clock"
    /\ GuiFrame /\ UNCHANGED <<queueVars, lastVars, wpc, receiveCallback, clock, session,
                               clockCallback, flushed, sync>>

UnwireInput ==
    /\ gpc = "unwire"
    /\ clockCallback' = FALSE
    /\ gpc' = "clock"
    /\ GuiFrame /\ UNCHANGED <<queueVars, lastVars, wpc, receiveCallback, clock, session,
                               flushed, sync>>

ResetClock ==
    /\ gpc = "clock"
    /\ ClockReset
    /\ gpc' = "close"
    /\ GuiFrame /\ UNCHANGED <<queueVars, lastVars, wpc, receiveCallback, clockCallback,
                               session, flushed, sync>>

\* Closing the input port waits for a callback that is still running.
ClosePorts ==
    /\ gpc = "close" /\ ~clockCall
    /\ gpc' = "idle"
    /\ GuiFrame /\ UNCHANGED <<queueVars, lastVars, wpc, receiveCallback, clock,
                               clockCallback, session, flushed, sync>>

GuiStep ==
    \/ WireOutput
    \/ SchedulerStart
    \/ SchedulerStop
    \/ StopNotify
    \/ StopJoin
    \/ SchedulerReset
    \/ ClearOutput
    \/ UnwireInput
    \/ ResetClock
    \/ ClosePorts

-----------------------------------------------------------------------------
(* The MIDI input thread tests the clock callback and then calls it: the    *)
(* GUI thread may clear it in between.                                      *)

ClockMessageArrives ==
    /\ clockCallback /\ ~clockCall /\ clockMessages < MaxClockMessages
    /\ clockCall' = TRUE
    /\ clockMessages' = clockMessages + 1
    /\ OutsideFrame /\ UNCHANGED <<clock, clockCallback, now>>

MidiClock ==
    /\ clockCall
    /\ HandleClockMessage
    /\ clockCall' = FALSE
    /\ OutsideFrame /\ UNCHANGED <<clockMessages, clockCallback, now>>

\* Time passes.  Bound: an event is through enqueue(), and a JR sample applied, at
\* most MaxDelay after the server stamped the frame.
Tick ==
    /\ now < MaxTime
    /\ rpc \notin {"idle", "notify"} => now < Emission(event) + MaxDelay
    /\ now' = now + 1
    /\ OutsideFrame /\ UNCHANGED clockVars

-----------------------------------------------------------------------------
Next ==
    \/ \E e \in Emissions : ReceiveMidi(e)
    \/ \E e \in Emissions : ReceiveJrClock(e)
    \/ ReceiverStep
    \/ WorkerStep
    \/ SpuriousWake
    \/ StartStreaming
    \/ StopStreaming
    \/ GuiStep
    \/ ClockMessageArrives
    \/ MidiClock
    \/ Tick

Spec == Init /\ [][Next]_vars

\* The operating system runs every thread that can run, a callback of the MIDI
\* input included, and a thread that keeps finding mutex_ free gets it in the end;
\* time passes.  Nothing makes a frame arrive or the user press a button.
FairSpec ==
    /\ Spec
    /\ WF_vars(WorkerStep)
    /\ SF_vars(ReceiverStep)
    /\ SF_vars(GuiStep)
    /\ WF_vars(MidiClock)
    /\ WF_vars(Tick)

-----------------------------------------------------------------------------
(* Properties.                                                              *)

WorkerPlaces == {"none", "loop", "wait", "blocking", "asleep", "woken", "inner",
                 "twait", "tblocking", "tasleep", "twoken", "call", "relock", "done"}
ReceiverPlaces == {"idle", "jr", "snapshot", "flush", "mode", "extrapolate", "offset",
                   "anchor", "fallback", "push", "notify"}
GuiPlaces == {"idle", "wire", "start", "streaming", "stop", "stopnotify", "join",
              "reset", "clear", "unwire", "clock", "close"}

\* Every variable has its type.
TypeOK ==
    /\ clock \in ClockStates /\ sync \in SyncStates /\ now \in Nat
    /\ queue \subseteq Messages /\ running \in BOOLEAN /\ outputCallback \in BOOLEAN
    /\ lastRunningState \in BOOLEAN /\ haveLastSongPosition \in BOOLEAN
    /\ lastSongPosition \in Int
    /\ wpc \in WorkerPlaces /\ next \in Messages /\ callback \in BOOLEAN
    /\ rpc \in ReceiverPlaces /\ event \in Frames /\ snap \in ClockStates
    /\ extrapolated \in Int /\ playAt \in Int /\ receiveCallback \in BOOLEAN
    /\ gpc \in GuiPlaces /\ clockCallback \in BOOLEAN /\ clockCall \in BOOLEAN
    /\ received \in Nat /\ jrFrames \in Nat /\ clockMessages \in Nat
    /\ lastEmission \in Nat /\ session \in Nat
    /\ sent \subseteq Nat /\ flushed \subseteq Nat /\ dropped \subseteq Nat

\* A frame or message taken off the wire before the last reset().
Stale(e) == e.session < session

\* The receive thread holds a MIDI event that is not in the queue yet.
Enqueuing == rpc \in {"snapshot", "flush", "mode", "extrapolate", "offset",
                      "anchor", "fallback", "push"}

\* enqueue() is not one critical section and stopStreaming does not wait for it,
\* so an event may enter the queue after reset() emptied it.  No more than one
\* does: of all earlier sessions together at most one event is still on its way
\* to the queue or in it.
AtMostOneStale ==
    /\ \A a, b \in queue : Stale(a) /\ Stale(b) => a = b
    /\ Enqueuing /\ Stale(event) => \A m \in queue : ~Stale(m)

\* The flush rule of enqueue() keeps the queue uniform: whatever the transport did
\* between two calls, the queued events of this session were all enqueued at the
\* song position the scheduler last saw, and none was enqueued while the transport
\* ran if it saw it stopped last.
QueueMatchesTransport ==
    \A m \in queue : ~Stale(m) =>
        /\ m.atEnqueue.running => lastRunningState
        /\ m.atEnqueue.hasSongPosition =>
              haveLastSongPosition /\ m.atEnqueue.songPositionBeats = lastSongPosition

\* The worker never sleeps over work: if it waits without a deadline the queue is
\* empty or a notification is coming, and if it waits for an event no event with a
\* lower sequence number is queued or a notification is coming.
SleepsOnlyWithoutWork ==
    running /\ rpc # "notify" =>
        /\ wpc \in {"blocking", "asleep"} => queue = {}
        /\ wpc \in {"tblocking", "tasleep"} =>
              \A m \in queue : Sequence(next.id) <= Sequence(m.id)

\* The worker calls the output callback only while the ports are open, and always
\* finds one: startStreaming sets it before the worker exists, and stopStreaming
\* clears it and closes the ports after the worker is joined.
PlaysOnlyWhileOpen ==
    wpc = "call" => callback /\ gpc \in {"streaming", "stop", "stopnotify", "join"}

\* stopStreaming clears the clock callback, resets ClockState and closes the port in
\* this order, so a message on its way through MidiInputHandler may move the clock
\* after its reset and the next session does not start from zero.  No more than one
\* does: between sessions the clock is one message away from its reset state at most.
ClockAtRestBetweenSessions ==
    gpc = "idle" =>
        \/ clock \in {StoppedClock, [StoppedClock EXCEPT !.pulseCount = 1],
                     [StoppedClock EXCEPT !.running = TRUE]}
        \/ \E beats \in SongPositions :
              clock = [running |-> FALSE, hasSongPosition |-> TRUE,
                       songPositionBeats |-> beats, pulseCount |-> beats * PulsesPerBeat]

\* An event is dropped at release only when the transport was moved to a song
\* position before the point at which the event was enqueued: running on, and
\* jumping ahead, drop nothing.
DroppedOnlyWhenMovedBack ==
    [][\A m \in queue : m.id \in dropped' \ dropped =>
          clock.songPositionBeats * PulsesPerBeat < m.atEnqueue.pulseCount]_vars

\* README.md line 25, "AppController applies a final pre-output lead before sending
\* the MIDI message to the local device": the play time of an event that
\* sendScheduledMidi is called with is still ahead, so that there is a lead to apply.
OutputLeadApplied == wpc = "call" => now < next.playAt

-----------------------------------------------------------------------------
(* Timing.  A JR sample is at most MaxDelay old when it is applied.         *)

OffsetWithin(offset) == offset \in (ServerOffset - MaxDelay) .. ServerOffset

\* The filtered server clock and the anchor are off by the delay of a frame at
\* most, however many samples the filter has taken and whenever reset() came.
SyncEnvelope ==
    /\ sync.jrFilterInitialized =>
          OffsetWithin(sync.filteredJrServerClockNs - sync.filteredJrLocalArrival)
    /\ sync.anchorValid =>
          OffsetWithin(sync.firstServerTimestampNs
                         - (sync.anchorLocalPlayTime - JitterBuffer))

\* Whichever of the three timing models computed it, the play time of an event
\* of this session lies between one jitter buffer and one jitter buffer plus twice
\* the delay after the event was stamped.
PlayoutEnvelope ==
    \A m \in queue : ~Stale(m) =>
        m.playAt - Emission(m) \in JitterBuffer .. (JitterBuffer + 2 * MaxDelay)

\* An event that reset() overtook inside enqueue() has the play time it would have
\* had, or, if the timing model was chosen before reset() and asked after it, one that
\* is late by all the time the server's clock has counted: extrapolate_ns() then
\* answers 0.  The next session's events wait behind such an event, whose sequence
\* number is lower than theirs.
StalePlayTime ==
    \A m \in queue : Stale(m) =>
        \/ m.playAt - Emission(m) \in JitterBuffer .. (JitterBuffer + 2 * MaxDelay)
        \/ m.playAt - Emission(m) - m.serverTimestampNs
              \in JitterBuffer .. (JitterBuffer + MaxDelay)

-----------------------------------------------------------------------------
(* Liveness.                                                                *)

\* While the scheduler runs, every queued event leaves the queue.
QueuedEventsLeave ==
    \A id \in 1 .. MaxEvents :
        running /\ id \in Ids(queue) ~> ~running \/ id \notin Ids(queue)

\* stop() returns unless its notification went to a worker that had read running_
\* before stop() cleared it and was not yet waiting, the one window in which
\* notifying without mutex_ is lost.
StopReturnsUnlessWakeupLost ==
    gpc = "join" /\ wpc \notin {"blocking", "asleep"} ~> gpc = "idle"

-----------------------------------------------------------------------------
(* Refinement.  An event is pending from the receive callback to the output *)
(* callback.                                                                *)

Pending == Ids(queue)
             \cup (IF Enqueuing THEN {event.id} ELSE {})
             \cup (IF wpc = "call" THEN {next.id} ELSE {})

Buffer == INSTANCE PlayoutBuffer
            WITH Events <- 1 .. MaxEvents, pending <- Pending,
                 played <- sent, discarded <- flushed \cup dropped

\* The four threads together implement a buffer that plays or discards each event
\* once, and plays in stream order within one epoch of the sequence counter.
ImplementsPlayoutBuffer == Buffer!BufferSpec
=============================================================================
