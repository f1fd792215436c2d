----------------------- MODULE ReceiveSchedulerProofs -----------------------
(***************************************************************************)
(* Theorems about ReceiveScheduler for every value of its constants: any   *)
(* number of events, sessions and clock messages, any delay and buffer.    *)
(***************************************************************************)
EXTENDS ReceiveScheduler, TLAPS

\* A song position that is there came from a Song Position Pointer.
SongPositionKnown == clock.hasSongPosition => clock.songPositionBeats \in Nat

TypeInv == TypeOK /\ SongPositionKnown

USE SongPositionsAreBeats, TimingConstants, ZeroDrift, SchedulerConstants

-----------------------------------------------------------------------------
(* What the operators of TimeSync return.                                   *)

LEMMA SyncTypes ==
    ASSUME sync \in SyncStates, now \in Nat, NEW ts \in Int
    PROVE  /\ Anchored(sync, ts) \in SyncStates
           /\ PlayTime(ts) \in Int
           /\ FilteredClock(ts) \in Int
           /\ UnsyncedState \in SyncStates
<1>1. FilteredClock(ts) \in Int
  BY DEF FilteredClock, SyncStates
<1>2. PlayTime(ts) \in Int
  BY DEF PlayTime, SyncStates
<1>3. Anchored(sync, ts) \in SyncStates
  <2>1. CASE sync.anchorValid
    BY <2>1 DEF Anchored
  <2>2. CASE ~sync.anchorValid
    <3>1. Anchored(sync, ts) = [sync EXCEPT !.anchorValid = TRUE,
                                            !.firstServerTimestampNs = ts,
                                            !.anchorLocalPlayTime = now + JitterBuffer]
      BY <2>2 DEF Anchored
    <3>2. now + JitterBuffer \in Int
      OBVIOUS
    <3> QED BY <3>1, <3>2 DEF SyncStates
  <2> QED BY <2>1, <2>2
<1>4. UnsyncedState \in SyncStates
  BY DEF UnsyncedState, SyncStates
<1> QED BY <1>1, <1>2, <1>3, <1>4

\* With a drift estimate of zero both rates are one.
LEMMA RatesAreOne ==
    ASSUME sync \in SyncStates, NEW d \in Int
    PROVE  AtServerRate(d) = d /\ AtLocalRate(d) = d
<1>1. sync.jrFreqPpm = 0
  BY DEF SyncStates
<1>2. AtServerRate(d) = d
  BY <1>1 DEF AtServerRate
<1>3. AtLocalRate(d) = d
  BY <1>1 DEF AtLocalRate
<1> QED BY <1>2, <1>3

LEMMA ExtrapolationTypes ==
    ASSUME sync \in SyncStates, now \in Nat, NEW d \in Int
    PROVE  ExtrapolatedServerClock \in Int /\ LocalTimeAtOffset(d) \in Int
<1>1. now - sync.filteredJrLocalArrival \in Int /\ sync.filteredJrServerClockNs \in Int
  BY DEF SyncStates
<1>2. AtServerRate(now - sync.filteredJrLocalArrival) = now - sync.filteredJrLocalArrival
  BY <1>1, RatesAreOne
<1>3. ExtrapolatedServerClock \in Int
  BY <1>1, <1>2 DEF ExtrapolatedServerClock
<1>4. AtLocalRate(d) = d
  BY RatesAreOne
<1> QED BY <1>3, <1>4 DEF LocalTimeAtOffset
-----------------------------------------------------------------------------
(* Type correctness.                                                        *)

LEMMA NotifiedType ==
    ASSUME wpc \in WorkerPlaces
    PROVE  Notified \in WorkerPlaces
BY DEF Notified, WorkerPlaces

LEMMA InitType == Init => TypeInv
<1> SUFFICES ASSUME Init PROVE TypeInv
  OBVIOUS
<1>1. sync \in SyncStates
  BY SyncTypes DEF Init, SyncInit, UnsyncedState, SyncStates
<1>2. clock \in ClockStates /\ SongPositionKnown
  BY DEF Init, ClockInit, StoppedClock, ClockStates, SongPositionKnown
<1>3. next \in Messages /\ event \in Frames /\ snap \in ClockStates
  BY DEF Init, NoMessage, Messages, NoEvent, Frames, StoppedClock, ClockStates
<1>4. clockCall \in BOOLEAN /\ clockCallback \in BOOLEAN /\ now \in Nat
  BY DEF Init
<1>8. queue \subseteq Messages
  BY DEF Init
<1>5. /\ running \in BOOLEAN /\ outputCallback \in BOOLEAN /\ lastRunningState \in BOOLEAN /\ haveLastSongPosition \in BOOLEAN
  BY DEF Init
<1>6. /\ wpc \in WorkerPlaces /\ callback \in BOOLEAN
      /\ rpc \in ReceiverPlaces /\ receiveCallback \in BOOLEAN /\ gpc \in GuiPlaces
  BY DEF Init, WorkerPlaces, ReceiverPlaces, GuiPlaces
<1>9. lastSongPosition \in Int /\ extrapolated \in Int /\ playAt \in Int
  BY DEF Init
<1>7. /\ received \in Nat /\ jrFrames \in Nat /\ clockMessages \in Nat
      /\ lastEmission \in Nat /\ session \in Nat
      /\ sent \subseteq Nat /\ flushed \subseteq Nat /\ dropped \subseteq Nat
  BY DEF Init
<1> QED BY <1>1, <1>2, <1>3, <1>4, <1>5, <1>6, <1>7, <1>8, <1>9 DEF TypeInv, TypeOK

LEMMA ReceiverKeepsType ==
    ASSUME TypeInv, ReceiverStep
    PROVE  TypeInv'
<1> USE DEF TypeInv, TypeOK, SongPositionKnown, ReceiverFrame, streamVars, clockVars, lastVars
<1>1. CASE ApplyJrClock
  <2>1. \A ppm \in FreqPpms : UpdateJrClock(event.serverTimestampNs, ppm) => sync' \in SyncStates
    <3> SUFFICES ASSUME NEW ppm \in FreqPpms, UpdateJrClock(event.serverTimestampNs, ppm)
                 PROVE  sync' \in SyncStates
      OBVIOUS
    <3> DEFINE ts == event.serverTimestampNs
               s == [sync EXCEPT !.jrClockValid = TRUE, !.jrFreqPpm = ppm,
                                 !.jrLocalArrival = now, !.jrFilterInitialized = TRUE,
                                 !.filteredJrServerClockNs = FilteredClock(ts),
                                 !.filteredJrLocalArrival = now]
    <3>1. ts \in Int
      BY DEF Frames
    <3>2. FilteredClock(ts) \in Int
      BY <3>1, SyncTypes
    <3>3. s \in SyncStates
      <4>1. now \in Int
        OBVIOUS
      <4> QED BY <3>2, <4>1 DEF SyncStates
    <3>4. sync' = Anchored(s, ts)
      BY DEF UpdateJrClock
    <3> HIDE DEF s, ts
    <3>5. CASE s.anchorValid
      BY <3>3, <3>4, <3>5 DEF Anchored
    <3>6. CASE ~s.anchorValid
      <4>1. now + JitterBuffer \in Int
        OBVIOUS
      <4>2. sync' = [s EXCEPT !.anchorValid = TRUE, !.firstServerTimestampNs = ts,
                              !.anchorLocalPlayTime = now + JitterBuffer]
        BY <3>4, <3>6 DEF Anchored
      <4> QED BY <3>1, <3>3, <4>1, <4>2 DEF SyncStates
    <3> QED BY <3>5, <3>6
  <2>2. sync' \in SyncStates
    BY <1>1, <2>1 DEF ApplyJrClock
  <2> QED BY <1>1, <2>2 DEF ApplyJrClock, ReceiverPlaces, NoEvent, Frames
<1>2. CASE EnqueueSnapshot
  BY <1>2 DEF EnqueueSnapshot, ClockSnapshot, ReceiverPlaces
<1>3. CASE EnqueueFlush
  <2>1. Ids(FlushedByJump) \subseteq Nat
    BY DEF Ids, FlushedByJump, Messages
  <2> QED BY <1>3, <2>1 DEF EnqueueFlush, ReceiverPlaces, ClockStates
<1>4. CASE EnqueueChooseMode
  BY <1>4 DEF EnqueueChooseMode, ReceiverPlaces
<1>5. CASE EnqueueExtrapolate
  BY <1>5, ExtrapolationTypes DEF EnqueueExtrapolate, ReceiverPlaces
<1>6. CASE EnqueueFreshJr
  <2>1. event.serverTimestampNs - extrapolated + JitterBuffer \in Int
    BY DEF Frames
  <2>2. FreshJrPlayTime \in Int
    BY <2>1, ExtrapolationTypes DEF FreshJrPlayTime
  <2> QED BY <1>6, <2>2 DEF EnqueueFreshJr, ReceiverPlaces
<1>7. CASE EnqueueAnchor
  <2>1. event.serverTimestampNs \in Int
    BY DEF Frames
  <2> QED BY <1>7, <2>1, SyncTypes DEF EnqueueAnchor, ReceiverPlaces
<1>8. CASE EnqueueFallback
  BY <1>8 DEF EnqueueFallback, ReceiverPlaces
<1>9. CASE EnqueuePush
  <2>1. queue' \subseteq Messages
    BY <1>9 DEF EnqueuePush, Messages, Frames
  <2>2. StoppedClock \in ClockStates /\ NoEvent \in Frames
    BY DEF StoppedClock, ClockStates, NoEvent, Frames
  <2> QED BY <1>9, <2>1, <2>2 DEF EnqueuePush, ReceiverPlaces
<1>10. CASE EnqueueNotify
  BY <1>10, NotifiedType DEF EnqueueNotify, ReceiverPlaces
<1> QED BY <1>1, <1>2, <1>3, <1>4, <1>5, <1>6, <1>7, <1>8, <1>9, <1>10 DEF ReceiverStep

LEMMA WorkerKeepsType ==
    ASSUME TypeInv, WorkerStep \/ SpuriousWake
    PROVE  TypeInv'
<1> USE DEF TypeInv, TypeOK, SongPositionKnown, WorkerFrame, receiverVars, streamVars,
            clockVars, lastVars
<1>0. NoMessage \in Messages
  BY DEF NoMessage, StoppedClock, ClockStates, Messages
<1>1. CASE WorkerLoop
  BY <1>1 DEF WorkerLoop, WorkerPlaces
<1>2. CASE WorkerWait
  BY <1>2 DEF WorkerWait, WorkerPlaces
<1>3. CASE WorkerBlock
  BY <1>3 DEF WorkerBlock, WorkerPlaces
<1>4. CASE WorkerWake
  BY <1>4 DEF WorkerWake, WorkerPlaces
<1>5. CASE WorkerInnerExit
  BY <1>5 DEF WorkerInnerExit, WorkerPlaces
<1>6. CASE WorkerDefer
  BY <1>6 DEF WorkerDefer, Tops, WorkerPlaces
<1>7. CASE WorkerTimedWait
  BY <1>7, <1>0 DEF WorkerTimedWait, WorkerPlaces
<1>8. CASE WorkerTimedWake
  BY <1>8, <1>0 DEF WorkerTimedWake, WorkerPlaces
<1>9. CASE WorkerTimeout
  BY <1>9 DEF WorkerTimeout, WorkerPlaces
<1>10. CASE WorkerRelease
  BY <1>10 DEF WorkerRelease, Tops, WorkerPlaces
<1>11. CASE WorkerDrop
  BY <1>11 DEF WorkerDrop, Tops, Messages
<1>12. CASE WorkerSend
  <2>1. next.id \in Nat
    BY DEF Messages
  <2> QED BY <1>12, <1>0, <2>1 DEF WorkerSend, WorkerPlaces
<1>13. CASE WorkerRelock
  BY <1>13 DEF WorkerRelock, WorkerPlaces
<1>14. CASE SpuriousWake
  BY <1>14, NotifiedType DEF SpuriousWake
<1> QED BY <1>1, <1>2, <1>3, <1>4, <1>5, <1>6, <1>7, <1>8, <1>9, <1>10, <1>11, <1>12, <1>13, <1>14 DEF WorkerStep

LEMMA GuiKeepsType ==
    ASSUME TypeInv, GuiStep \/ StartStreaming \/ StopStreaming
    PROVE  TypeInv'
<1> USE DEF TypeInv, TypeOK, SongPositionKnown, GuiFrame, queueVars, receiverVars, streamVars,
            lastVars
<1>1. CASE WireOutput
  BY <1>1 DEF WireOutput, GuiPlaces
<1>2. CASE SchedulerStart
  BY <1>2 DEF SchedulerStart, GuiPlaces, WorkerPlaces
<1>3. CASE SchedulerStop
  BY <1>3 DEF SchedulerStop, GuiPlaces
<1>4. CASE StopNotify
  BY <1>4, NotifiedType DEF StopNotify, GuiPlaces
<1>5. CASE StopJoin
  BY <1>5 DEF StopJoin, GuiPlaces, WorkerPlaces
<1>6. CASE SchedulerReset
  <2>1. flushed' \subseteq Nat /\ queue' \subseteq Messages
    BY <1>6 DEF SchedulerReset, Ids, KeptByReset, Messages
  <2>2. sync' \in SyncStates
    BY <1>6, SyncTypes DEF SchedulerReset, SyncReset
  <2>3. wpc' \in WorkerPlaces
    BY <1>6, NotifiedType DEF SchedulerReset
  <2>4. lastRunningState' = FALSE /\ haveLastSongPosition' = FALSE /\ lastSongPosition' \in Int
    BY <1>6 DEF SchedulerReset
  <2>5. session' \in Nat /\ gpc' \in GuiPlaces
    BY <1>6 DEF SchedulerReset, GuiPlaces
  <2> QED BY <1>6, <2>1, <2>2, <2>3, <2>4, <2>5 DEF SchedulerReset
<1>7. CASE ClearOutput
  BY <1>7 DEF ClearOutput, GuiPlaces
<1>8. CASE UnwireInput
  BY <1>8 DEF UnwireInput, GuiPlaces
<1>9. CASE ResetClock
  BY <1>9 DEF ResetClock, ClockReset, StoppedClock, ClockStates, GuiPlaces
<1>10. CASE ClosePorts
  BY <1>10 DEF ClosePorts, GuiPlaces
<1>11. CASE StartStreaming
  BY <1>11 DEF StartStreaming, GuiPlaces
<1>12. CASE StopStreaming
  BY <1>12 DEF StopStreaming, GuiPlaces
<1> QED BY <1>1, <1>2, <1>3, <1>4, <1>5, <1>6, <1>7, <1>8, <1>9, <1>10, <1>11, <1>12 DEF GuiStep

\* Whatever message arrives, the pulse counter stays a natural number and a
\* song position that is there is one that arrived.
LEMMA ClockKeepsType ==
    ASSUME clock \in ClockStates, SongPositionKnown, HandleClockMessage
    PROVE  clock' \in ClockStates /\ SongPositionKnown'
<1> DEFINE Good(c) == c \in ClockStates /\ (c.hasSongPosition => c.songPositionBeats \in Nat)
<1>0. Good(clock)
  BY DEF SongPositionKnown
<1>1. ASSUME NEW c, Good(c) PROVE Good(Located(c))
  <2>1. CASE ~c.hasSongPosition
    BY <1>1, <2>1 DEF Located
  <2>2. CASE c.hasSongPosition
    <3>1. c.songPositionBeats * PulsesPerBeat \in Nat
      BY <1>1, <2>2 DEF PulsesPerBeat
    <3> QED BY <1>1, <2>2, <3>1 DEF Located, ClockStates
  <2> QED BY <1>1, <2>1, <2>2 DEF ClockStates
<1>2. CASE TimingClock
  BY <1>0, <1>2 DEF TimingClock, ClockStates, SongPositionKnown
<1>3. CASE ClockStart
  <2>1. Good([clock EXCEPT !.running = TRUE, !.pulseCount = 0])
    BY <1>0 DEF ClockStates
  <2>2. Good(Located([clock EXCEPT !.running = TRUE, !.pulseCount = 0]))
    BY <1>1, <2>1
  <2> QED BY <1>3, <2>2 DEF ClockStart, SongPositionKnown
<1>4. CASE ClockContinue
  <2>1. Good([clock EXCEPT !.running = TRUE])
    BY <1>0 DEF ClockStates
  <2>2. Good(Located([clock EXCEPT !.running = TRUE]))
    BY <1>1, <2>1
  <2> QED BY <1>4, <2>2 DEF ClockContinue, SongPositionKnown
<1>5. CASE ClockStop
  BY <1>0, <1>5 DEF ClockStop, ClockStates, SongPositionKnown
<1>6. CASE \E beats \in SongPositions : SongPositionPointer(beats)
  <2>1. PICK beats \in SongPositions : SongPositionPointer(beats)
    BY <1>6
  <2>2. beats \in Int /\ beats \in Nat /\ beats * PulsesPerBeat \in Nat
    BY DEF PulsesPerBeat
  <2>3. clock' = [clock EXCEPT !.hasSongPosition = TRUE, !.songPositionBeats = beats,
                               !.pulseCount = beats * PulsesPerBeat]
    BY <2>1 DEF SongPositionPointer
  <2> HIDE DEF PulsesPerBeat
  <2>4. clock' \in ClockStates
    BY <2>2, <2>3 DEF ClockStates
  <2>5. clock'.songPositionBeats = beats
    BY <2>3 DEF ClockStates
  <2> QED BY <2>2, <2>4, <2>5 DEF SongPositionKnown
<1> QED BY <1>2, <1>3, <1>4, <1>5, <1>6 DEF HandleClockMessage

LEMMA OutsideKeepsType ==
    ASSUME TypeInv,
           \/ \E e \in Emissions : ReceiveMidi(e) \/ ReceiveJrClock(e)
           \/ ClockMessageArrives \/ MidiClock \/ Tick
    PROVE  TypeInv'
<1> USE DEF TypeInv, TypeOK, OutsideFrame, queueVars, workerVars, receiverVars, streamVars,
            lastVars, historyVars
<1>1. CASE \E e \in Emissions : ReceiveMidi(e) \/ ReceiveJrClock(e)
  <2>1. PICK e \in Emissions : ReceiveMidi(e) \/ ReceiveJrClock(e)
    BY <1>1
  <2>2. e \in Nat
    BY DEF Emissions
  <2>3. [id |-> received + 1, serverTimestampNs |-> e + ServerOffset, session |-> session] \in Frames
    BY <2>2 DEF Frames
  <2>4. [id |-> 0, serverTimestampNs |-> e + ServerOffset, session |-> session] \in Frames
    BY <2>2 DEF Frames
  <2>5. CASE ReceiveMidi(e)
    BY <2>2, <2>3, <2>5 DEF ReceiveMidi, Dispatch, ReceiverFrame, ReceiverPlaces, clockVars,
                            SongPositionKnown
  <2>6. CASE ReceiveJrClock(e)
    BY <2>2, <2>4, <2>6 DEF ReceiveJrClock, Dispatch, ReceiverFrame, ReceiverPlaces, clockVars,
                            SongPositionKnown
  <2> QED BY <2>1, <2>5, <2>6
<1>2. CASE ClockMessageArrives
  BY <1>2 DEF ClockMessageArrives, SongPositionKnown
<1>3. CASE MidiClock
  BY <1>3, ClockKeepsType DEF MidiClock
<1>4. CASE Tick
  BY <1>4 DEF Tick, clockVars, SongPositionKnown
<1> QED BY <1>1, <1>2, <1>3, <1>4

LEMMA NextKeepsType == TypeInv /\ [Next]_vars => TypeInv'
<1> SUFFICES ASSUME TypeInv, [Next]_vars PROVE TypeInv'
  OBVIOUS
<1>1. CASE UNCHANGED vars
  BY <1>1 DEF vars, queueVars, lastVars, workerVars, receiverVars, streamVars, clockVars,
              historyVars, TypeInv, TypeOK, SongPositionKnown
<1>2. CASE Next
  BY <1>2, ReceiverKeepsType, WorkerKeepsType, GuiKeepsType, OutsideKeepsType DEF Next
<1> QED BY <1>1, <1>2

\* Every reachable state is well typed; in particular the pulse counter never
\* becomes negative, which in the code would wrap to a huge unsigned number.
THEOREM TypeCorrect == Spec => []TypeOK
<1>1. Spec => []TypeInv
  BY InitType, NextKeepsType, PTL DEF Spec
<1>2. TypeInv => TypeOK
  BY DEF TypeInv
<1> QED BY <1>1, <1>2, PTL
-----------------------------------------------------------------------------
(* Events of earlier sessions.                                              *)

\* What every step does that neither adds to the queue nor resets it.
QueueOnlyShrinks ==
    /\ queue' \subseteq queue
    /\ session' = session
    /\ Enqueuing' /\ Stale(event)' => Enqueuing /\ event' = event

LEMMA ShrinkingKeepsStaleBound ==
    ASSUME AtMostOneStale, QueueOnlyShrinks
    PROVE  AtMostOneStale'
BY DEF AtMostOneStale, QueueOnlyShrinks, Stale

LEMMA ReceiverKeepsStaleBound ==
    ASSUME TypeInv, AtMostOneStale,
           ReceiverStep \/ \E e \in Emissions : ReceiveMidi(e) \/ ReceiveJrClock(e)
    PROVE  AtMostOneStale'
<1> USE DEF ReceiverFrame, Enqueuing, QueueOnlyShrinks
<1>1. CASE ApplyJrClock
  BY <1>1, ShrinkingKeepsStaleBound DEF ApplyJrClock
<1>2. CASE EnqueueSnapshot
  BY <1>2, ShrinkingKeepsStaleBound DEF EnqueueSnapshot
<1>3. CASE EnqueueFlush
  BY <1>3, ShrinkingKeepsStaleBound DEF EnqueueFlush
<1>4. CASE EnqueueChooseMode
  BY <1>4, ShrinkingKeepsStaleBound DEF EnqueueChooseMode
<1>5. CASE EnqueueExtrapolate
  BY <1>5, ShrinkingKeepsStaleBound DEF EnqueueExtrapolate
<1>6. CASE EnqueueFreshJr
  BY <1>6, ShrinkingKeepsStaleBound DEF EnqueueFreshJr
<1>7. CASE EnqueueAnchor
  BY <1>7, ShrinkingKeepsStaleBound DEF EnqueueAnchor
<1>8. CASE EnqueueFallback
  BY <1>8, ShrinkingKeepsStaleBound DEF EnqueueFallback
<1>9. CASE EnqueuePush
  <2> DEFINE m == [id |-> event.id, session |-> event.session,
                   serverTimestampNs |-> event.serverTimestampNs,
                   playAt |-> playAt, atEnqueue |-> snap]
  <2>1. queue' = queue \cup {m} /\ session' = session /\ ~Enqueuing' /\ Enqueuing
    BY <1>9 DEF EnqueuePush
  <2>2. m.session = event.session
    OBVIOUS
  <2> HIDE DEF m
  <2>3. CASE Stale(event)
    <3>1. \A q \in queue : ~Stale(q)
      BY <2>1, <2>3 DEF AtMostOneStale
    <3> QED BY <2>1, <3>1 DEF AtMostOneStale, Stale
  <2>4. CASE ~Stale(event)
    <3>1. ~Stale(m)
      BY <2>2, <2>4 DEF Stale
    <3> QED BY <2>1, <3>1 DEF AtMostOneStale, Stale
  <2> QED BY <2>3, <2>4
<1>10. CASE EnqueueNotify
  BY <1>10, ShrinkingKeepsStaleBound DEF EnqueueNotify
<1>11. CASE \E e \in Emissions : ReceiveMidi(e) \/ ReceiveJrClock(e)
  <2>1. PICK e \in Emissions : ReceiveMidi(e) \/ ReceiveJrClock(e)
    BY <1>11
  <2>2. queue' = queue /\ session' = session
    BY <2>1 DEF ReceiveMidi, ReceiveJrClock, Dispatch
  <2>3. CASE receiveCallback
    <3>1. event'.session = session
      <4>1. CASE ReceiveMidi(e)
        BY <2>3, <4>1 DEF ReceiveMidi, Dispatch
      <4>2. CASE ReceiveJrClock(e)
        BY <2>3, <4>2 DEF ReceiveJrClock, Dispatch
      <4> QED BY <2>1, <4>1, <4>2
    <3>2. ~Stale(event)'
      BY <2>2, <3>1 DEF Stale, TypeInv, TypeOK
    <3> QED BY <2>2, <3>2, ShrinkingKeepsStaleBound
  <2>4. CASE ~receiveCallback
    BY <2>1, <2>2, <2>4, ShrinkingKeepsStaleBound DEF ReceiveMidi, ReceiveJrClock, Dispatch
  <2> QED BY <2>3, <2>4
<1> QED BY <1>1, <1>2, <1>3, <1>4, <1>5, <1>6, <1>7, <1>8, <1>9, <1>10, <1>11 DEF ReceiverStep

LEMMA WorkerKeepsStaleBound ==
    ASSUME AtMostOneStale, WorkerStep \/ SpuriousWake
    PROVE  AtMostOneStale'
<1>1. queue' \subseteq queue
  BY DEF WorkerStep, WorkerLoop, WorkerWait, WorkerBlock, WorkerWake, WorkerInnerExit,
         WorkerDefer, WorkerTimedWait, WorkerTimedWake, WorkerTimeout, WorkerRelease,
         WorkerDrop, WorkerSend, WorkerRelock, SpuriousWake
<1>2. WorkerFrame
  BY DEF WorkerStep, WorkerLoop, WorkerWait, WorkerBlock, WorkerWake, WorkerInnerExit,
         WorkerDefer, WorkerTimedWait, WorkerTimedWake, WorkerTimeout, WorkerRelease,
         WorkerDrop, WorkerSend, WorkerRelock, SpuriousWake
<1> QED BY <1>1, <1>2, ShrinkingKeepsStaleBound
        DEF WorkerFrame, QueueOnlyShrinks, Enqueuing, receiverVars

LEMMA GuiKeepsStaleBound ==
    ASSUME AtMostOneStale, GuiStep \/ StartStreaming \/ StopStreaming
    PROVE  AtMostOneStale'
<1>1. CASE SchedulerReset
  BY <1>1 DEF SchedulerReset, KeptByReset, AtMostOneStale
<1>2. CASE ~SchedulerReset
  <2>1. queue' = queue /\ session' = session /\ GuiFrame
    BY <1>2 DEF GuiStep, StartStreaming, StopStreaming, WireOutput, SchedulerStart,
                SchedulerStop, StopNotify, StopJoin, ClearOutput, UnwireInput, ResetClock,
                ClosePorts, queueVars
  <2> QED BY <2>1, ShrinkingKeepsStaleBound
          DEF GuiFrame, QueueOnlyShrinks, Enqueuing, receiverVars
<1> QED BY <1>1, <1>2

LEMMA NextKeepsStaleBound ==
    TypeInv /\ AtMostOneStale /\ [Next]_vars => AtMostOneStale'
<1> SUFFICES ASSUME TypeInv, AtMostOneStale, [Next]_vars PROVE AtMostOneStale'
  OBVIOUS
<1>1. CASE UNCHANGED vars
  BY <1>1 DEF vars, queueVars, receiverVars, historyVars, AtMostOneStale, Enqueuing, Stale
<1>2. CASE ClockMessageArrives \/ MidiClock \/ Tick
  BY <1>2, ShrinkingKeepsStaleBound
     DEF ClockMessageArrives, MidiClock, Tick, OutsideFrame, queueVars, receiverVars,
         historyVars, QueueOnlyShrinks, Enqueuing
<1> QED BY <1>1, <1>2, ReceiverKeepsStaleBound, WorkerKeepsStaleBound, GuiKeepsStaleBound
        DEF Next

\* However often the user stops and starts, and wherever the receive thread stands
\* when reset() empties the queue, one event of an earlier session at most is in
\* the queue or on its way there.
THEOREM StaleBound == Spec => []AtMostOneStale
<1>1. Init => AtMostOneStale
  BY DEF Init, AtMostOneStale, Enqueuing
<1>2. Spec => []TypeInv
  BY InitType, NextKeepsType, PTL DEF Spec
<1> QED BY <1>1, <1>2, NextKeepsStaleBound, PTL DEF Spec
-----------------------------------------------------------------------------
(* The local clock between sessions.                                        *)

\* The disjuncts of ClockAtRestBetweenSessions.
OneMessageFromReset ==
    \/ clock \in {StoppedClock, [StoppedClock EXCEPT !.pulseCount = 1],
                 [StoppedClock EXCEPT !.running = TRUE]}
    \/ \E beats \in SongPositions :
          clock = [running |-> FALSE, hasSongPosition |-> TRUE,
                   songPositionBeats |-> beats, pulseCount |-> beats * PulsesPerBeat]

\* Once the callback is cleared no message sets out; one that has is the last, and
\* closing the port waits for it.
RestInv ==
    /\ gpc \in {"clock", "close", "idle"} => ~clockCallback
    /\ gpc = "close" => clock = StoppedClock \/ (~clockCall /\ OneMessageFromReset)
    /\ gpc = "idle" => ~clockCall /\ OneMessageFromReset

LEMMA MessageAfterReset ==
    ASSUME clock = StoppedClock, HandleClockMessage
    PROVE  OneMessageFromReset'
<1> USE DEF StoppedClock, Located
<1>1. CASE TimingClock
  BY <1>1 DEF TimingClock, OneMessageFromReset
<1>2. CASE ClockStart
  <2>1. clock' = [clock EXCEPT !.running = TRUE, !.pulseCount = 0]
    <3> HIDE DEF StoppedClock
    <3>1. ~[clock EXCEPT !.running = TRUE, !.pulseCount = 0].hasSongPosition
      BY DEF StoppedClock
    <3> QED BY <1>2, <3>1 DEF ClockStart
  <2>2. clock' = [running |-> TRUE, hasSongPosition |-> FALSE,
                  pulseCount |-> 0, songPositionBeats |-> -1]
    BY <2>1
  <2>3. ASSUME NEW c, c = [StoppedClock EXCEPT !.running = TRUE]
        PROVE  c = [running |-> TRUE, hasSongPosition |-> FALSE,
                    pulseCount |-> 0, songPositionBeats |-> -1]
    BY <2>3
  <2>4. clock' = [StoppedClock EXCEPT !.running = TRUE]
    BY <2>2, <2>3
  <2> QED BY <2>4 DEF OneMessageFromReset
<1>3. CASE ClockContinue
  BY <1>3 DEF ClockContinue, OneMessageFromReset
<1>4. CASE ClockStop
  BY <1>4 DEF ClockStop, OneMessageFromReset
<1>5. CASE \E beats \in SongPositions : SongPositionPointer(beats)
  <2>1. PICK beats \in SongPositions : SongPositionPointer(beats)
    BY <1>5
  <2> DEFINE pulses == beats * PulsesPerBeat
  <2>2. clock' = [clock EXCEPT !.hasSongPosition = TRUE, !.songPositionBeats = beats,
                               !.pulseCount = pulses]
    BY <2>1 DEF SongPositionPointer
  <2> HIDE DEF pulses
  <2>3. clock' = [running |-> FALSE, hasSongPosition |-> TRUE,
                  songPositionBeats |-> beats, pulseCount |-> pulses]
    BY <2>2
  <2> QED BY <2>3 DEF OneMessageFromReset, pulses
<1> QED BY <1>1, <1>2, <1>3, <1>4, <1>5 DEF HandleClockMessage

LEMMA GuiKeepsRest ==
    ASSUME RestInv, GuiStep \/ StartStreaming \/ StopStreaming
    PROVE  RestInv'
<1> USE DEF RestInv, OneMessageFromReset, GuiFrame
<1>1. CASE WireOutput
  BY <1>1 DEF WireOutput
<1>2. CASE SchedulerStart
  BY <1>2 DEF SchedulerStart
<1>3. CASE SchedulerStop
  BY <1>3 DEF SchedulerStop
<1>4. CASE StopNotify
  BY <1>4 DEF StopNotify
<1>5. CASE StopJoin
  BY <1>5 DEF StopJoin
<1>6. CASE SchedulerReset
  BY <1>6 DEF SchedulerReset
<1>7. CASE ClearOutput
  BY <1>7 DEF ClearOutput
<1>8. CASE UnwireInput
  BY <1>8 DEF UnwireInput
<1>9. CASE ResetClock
  BY <1>9 DEF ResetClock, ClockReset
<1>10. CASE ClosePorts
  BY <1>10 DEF ClosePorts
<1>11. CASE StartStreaming
  BY <1>11 DEF StartStreaming
<1>12. CASE StopStreaming
  BY <1>12 DEF StopStreaming
<1> QED BY <1>1, <1>2, <1>3, <1>4, <1>5, <1>6, <1>7, <1>8, <1>9, <1>10, <1>11, <1>12 DEF GuiStep

LEMMA NextKeepsRest == RestInv /\ [Next]_vars => RestInv'
<1> SUFFICES ASSUME RestInv, [Next]_vars PROVE RestInv'
  OBVIOUS
<1>1. CASE UNCHANGED <<gpc, clock, clockCallback, clockCall>>
  BY <1>1 DEF RestInv, OneMessageFromReset
<1>2. CASE ClockMessageArrives
  BY <1>2 DEF ClockMessageArrives, OutsideFrame, RestInv
<1>3. CASE MidiClock
  <2>1. clockCall /\ ~clockCall' /\ gpc' = gpc /\ clockCallback' = clockCallback
    BY <1>3 DEF MidiClock, OutsideFrame
  <2>2. gpc = "close" => OneMessageFromReset'
    BY <1>3, <2>1, MessageAfterReset DEF MidiClock, RestInv
  <2> QED BY <2>1, <2>2 DEF RestInv
<1>4. CASE GuiStep \/ StartStreaming \/ StopStreaming
  BY <1>4, GuiKeepsRest
<1>5. CASE \/ \E e \in Emissions : ReceiveMidi(e) \/ ReceiveJrClock(e)
           \/ ReceiverStep
  <2>1. ReceiverFrame
    BY <1>5 DEF ReceiveMidi, ReceiveJrClock, Dispatch, ReceiverStep, ApplyJrClock,
                EnqueueSnapshot, EnqueueFlush, EnqueueChooseMode, EnqueueExtrapolate,
                EnqueueFreshJr, EnqueueAnchor, EnqueueFallback, EnqueuePush, EnqueueNotify
  <2> QED BY <1>1, <2>1 DEF ReceiverFrame, clockVars
<1>6. CASE WorkerStep \/ SpuriousWake
  <2>1. WorkerFrame
    BY <1>6 DEF WorkerStep, WorkerLoop, WorkerWait, WorkerBlock, WorkerWake, WorkerInnerExit,
                WorkerDefer, WorkerTimedWait, WorkerTimedWake, WorkerTimeout, WorkerRelease,
                WorkerDrop, WorkerSend, WorkerRelock, SpuriousWake
  <2> QED BY <1>1, <2>1 DEF WorkerFrame, clockVars
<1>7. CASE Tick
  BY <1>1, <1>7 DEF Tick, OutsideFrame, clockVars
<1>8. CASE UNCHANGED vars
  BY <1>1, <1>8 DEF vars, clockVars
<1> QED BY <1>2, <1>3, <1>4, <1>5, <1>6, <1>7, <1>8 DEF Next

\* Whatever message is under way when stopStreaming clears the callback and resets the
\* clock, the next session starts from a clock that at most one message has moved.
THEOREM ClockRests == Spec => []ClockAtRestBetweenSessions
<1>1. Init => RestInv
  BY DEF Init, ClockInit, RestInv, OneMessageFromReset
<1>2. RestInv => ClockAtRestBetweenSessions
  BY DEF RestInv, OneMessageFromReset, ClockAtRestBetweenSessions
<1> QED BY <1>1, <1>2, NextKeepsRest, PTL DEF Spec
-----------------------------------------------------------------------------
(* The pulse counter.                                                       *)

\* Each message keeps the counter at or past the song position.
LEMMA MessageKeepsPulse ==
    ASSUME TypeInv, PulseNeverBeforeSongPosition, HandleClockMessage
    PROVE  PulseNeverBeforeSongPosition'
<1> USE DEF TypeInv, TypeOK, SongPositionKnown, PulseNeverBeforeSongPosition, ClockStates,
            PulsesPerBeat
<1>1. CASE TimingClock
  BY <1>1 DEF TimingClock
<1>2. CASE ClockStart
  BY <1>2 DEF ClockStart, Located
<1>3. CASE ClockContinue
  BY <1>3 DEF ClockContinue, Located
<1>4. CASE ClockStop
  BY <1>4 DEF ClockStop
<1>5. CASE \E beats \in SongPositions : SongPositionPointer(beats)
  BY <1>5 DEF SongPositionPointer
<1> QED BY <1>1, <1>2, <1>3, <1>4, <1>5 DEF HandleClockMessage

LEMMA NextKeepsPulse ==
    TypeInv /\ PulseNeverBeforeSongPosition /\ [Next]_vars => PulseNeverBeforeSongPosition'
<1> SUFFICES ASSUME TypeInv, PulseNeverBeforeSongPosition, [Next]_vars
             PROVE  PulseNeverBeforeSongPosition'
  OBVIOUS
<1>1. CASE UNCHANGED clock
  BY <1>1 DEF PulseNeverBeforeSongPosition
<1>2. CASE MidiClock
  BY <1>2, MessageKeepsPulse DEF MidiClock
<1>3. CASE ResetClock
  BY <1>3 DEF ResetClock, ClockReset, StoppedClock, PulseNeverBeforeSongPosition
<1>4. CASE ReceiverStep \/ \E e \in Emissions : ReceiveMidi(e) \/ ReceiveJrClock(e)
  <2>1. ReceiverFrame
    BY <1>4 DEF ReceiveMidi, ReceiveJrClock, Dispatch, ReceiverStep, ApplyJrClock,
                EnqueueSnapshot, EnqueueFlush, EnqueueChooseMode, EnqueueExtrapolate,
                EnqueueFreshJr, EnqueueAnchor, EnqueueFallback, EnqueuePush, EnqueueNotify
  <2> QED BY <1>1, <2>1 DEF ReceiverFrame, clockVars
<1>5. CASE WorkerStep \/ SpuriousWake
  <2>1. WorkerFrame
    BY <1>5 DEF WorkerStep, WorkerLoop, WorkerWait, WorkerBlock, WorkerWake, WorkerInnerExit,
                WorkerDefer, WorkerTimedWait, WorkerTimedWake, WorkerTimeout, WorkerRelease,
                WorkerDrop, WorkerSend, WorkerRelock, SpuriousWake
  <2> QED BY <1>1, <2>1 DEF WorkerFrame, clockVars
<1>6. CASE (GuiStep /\ ~ResetClock) \/ StartStreaming \/ StopStreaming
  BY <1>1, <1>6 DEF GuiStep, StartStreaming, StopStreaming, WireOutput, SchedulerStart,
                    SchedulerStop, StopNotify, StopJoin, SchedulerReset, ClearOutput,
                    UnwireInput, ClosePorts
<1>7. CASE ClockMessageArrives \/ Tick \/ UNCHANGED vars
  BY <1>1, <1>7 DEF ClockMessageArrives, Tick, vars, clockVars
<1> QED BY <1>2, <1>3, <1>4, <1>5, <1>6, <1>7 DEF Next

\* Whatever song positions and messages arrive, the pulse counter stands at or past
\* the last song position.
THEOREM PulseAhead == Spec => []PulseNeverBeforeSongPosition
<1>1. Init => PulseNeverBeforeSongPosition
  BY DEF Init, ClockInit, StoppedClock, PulseNeverBeforeSongPosition
<1>2. Spec => []TypeInv
  BY InitType, NextKeepsType, PTL DEF Spec
<1> QED BY <1>1, <1>2, NextKeepsPulse, PTL DEF Spec
-----------------------------------------------------------------------------
(* What the steps of a thread leave alone.                                  *)

LEMMA WorkerTouches ==
    ASSUME WorkerStep \/ SpuriousWake
    PROVE  WorkerFrame /\ queue' \subseteq queue
BY DEF WorkerStep, WorkerLoop, WorkerWait, WorkerBlock, WorkerWake, WorkerInnerExit,
       WorkerDefer, WorkerTimedWait, WorkerTimedWake, WorkerTimeout, WorkerRelease,
       WorkerDrop, WorkerSend, WorkerRelock, SpuriousWake

LEMMA GuiTouches ==
    ASSUME (GuiStep /\ ~SchedulerReset) \/ StartStreaming \/ StopStreaming
    PROVE  GuiFrame /\ UNCHANGED <<queue, lastVars, session, sync>>
BY DEF GuiStep, StartStreaming, StopStreaming, WireOutput, SchedulerStart, SchedulerStop,
       StopNotify, StopJoin, ClearOutput, UnwireInput, ResetClock, ClosePorts, queueVars

\* A frame that finds no callback changes the stream alone, any other is now in the
\* hands of the receive thread.
LEMMA DispatchTouches ==
    ASSUME NEW e \in Emissions, ReceiveMidi(e) \/ ReceiveJrClock(e)
    PROVE  /\ ReceiverFrame /\ UNCHANGED <<queue, lastVars, wpc, snap, extrapolated, playAt, sync>>
           /\ rpc = "idle" /\ lastEmission' = e
           /\ \/ UNCHANGED <<rpc, event>>
              \/ /\ rpc' \in {"snapshot", "jr"} /\ event'.session = session
                 /\ event'.serverTimestampNs = e + ServerOffset
<1>1. CASE receiveCallback
  <2>1. CASE ReceiveMidi(e)
    BY <1>1, <2>1 DEF ReceiveMidi, Dispatch
  <2>2. CASE ReceiveJrClock(e)
    BY <1>1, <2>2 DEF ReceiveJrClock, Dispatch
  <2> QED BY <2>1, <2>2
<1>2. CASE ~receiveCallback
  BY <1>2 DEF ReceiveMidi, ReceiveJrClock, Dispatch
<1> QED BY <1>1, <1>2

-----------------------------------------------------------------------------
(* The queue and the transport.                                             *)

\* What the flush rule established for a clock state c it has compared.
MatchesTransport(c) ==
    /\ c.running => lastRunningState
    /\ c.hasSongPosition => haveLastSongPosition /\ c.songPositionBeats = lastSongPosition

\* After its flush, the event in the hands of the receive thread matches the transport
\* as the scheduler saw it last, like those in the queue, unless reset() came between.
TransportInv ==
    /\ QueueMatchesTransport
    /\ event.session <= session
    /\ rpc \in {"mode", "extrapolate", "offset", "anchor", "fallback", "push"} /\ ~Stale(event)
          => MatchesTransport(snap)

\* A step that compares nothing and enqueues nothing.
LEMMA QuietKeepsTransport ==
    ASSUME TransportInv, queue' \subseteq queue, UNCHANGED <<lastVars, rpc, event, snap, session>>
    PROVE  TransportInv'
BY DEF TransportInv, MatchesTransport, QueueMatchesTransport, Stale, lastVars

\* The flush leaves only events that match the state it saw.
LEMMA FlushMatches ==
    ASSUME TypeInv, TransportInv, EnqueueFlush
    PROVE  TransportInv'
<1> USE DEF QueueMatchesTransport, FlushedByJump, TransportJumped, Stale
<1>1. /\ queue' = queue \ FlushedByJump /\ session' = session /\ event' = event /\ snap' = snap
      /\ lastRunningState' = snap.running
      /\ haveLastSongPosition' = (haveLastSongPosition \/ snap.hasSongPosition)
      /\ lastSongPosition' = IF snap.hasSongPosition THEN snap.songPositionBeats
                                                     ELSE lastSongPosition
  BY DEF EnqueueFlush, ReceiverFrame
<1>2. ASSUME NEW m \in queue \ FlushedByJump, ~Stale(m)
      PROVE  /\ m.atEnqueue.running => snap.running
             /\ m.atEnqueue.hasSongPosition =>
                  haveLastSongPosition' /\ m.atEnqueue.songPositionBeats = lastSongPosition'
  <2>1. /\ m.atEnqueue.running => lastRunningState
        /\ m.atEnqueue.hasSongPosition =>
             haveLastSongPosition /\ m.atEnqueue.songPositionBeats = lastSongPosition
    BY <1>2 DEF TransportInv
  <2>2. snap.running \in BOOLEAN /\ lastRunningState \in BOOLEAN
    BY DEF TypeInv, TypeOK, ClockStates
  <2>3. CASE ~TransportJumped
    BY <1>1, <2>1, <2>2, <2>3
  <2>4. CASE TransportJumped
    <3>1. snap.running
      BY <1>2, <2>4
    <3>2. snap.hasSongPosition /\ haveLastSongPosition => snap.songPositionBeats = lastSongPosition
      BY <1>2, <2>4, <3>1
    <3> QED BY <1>1, <2>1, <3>1, <3>2
  <2> QED BY <2>3, <2>4
<1>3. QueueMatchesTransport'
  BY <1>1, <1>2
<1>4. MatchesTransport(snap)'
  BY <1>1 DEF MatchesTransport
<1> QED BY <1>1, <1>3, <1>4 DEF TransportInv

LEMMA ReceiverKeepsTransport ==
    ASSUME TypeInv, TransportInv, ReceiverStep
    PROVE  TransportInv'
<1> USE DEF ReceiverFrame, lastVars
<1>1. session \in Nat /\ NoEvent.session = 0
  BY DEF TypeInv, TypeOK, NoEvent
<1>2. CASE ApplyJrClock
  BY <1>1, <1>2 DEF ApplyJrClock, TransportInv, QueueMatchesTransport, Stale
<1>3. CASE EnqueueSnapshot
  BY <1>3 DEF EnqueueSnapshot, TransportInv, QueueMatchesTransport, Stale
<1>4. CASE EnqueueFlush
  BY <1>4, FlushMatches
<1>5. CASE EnqueueChooseMode
  BY <1>5 DEF EnqueueChooseMode, TransportInv, QueueMatchesTransport, Stale, MatchesTransport
<1>6. CASE EnqueueExtrapolate
  BY <1>6 DEF EnqueueExtrapolate, TransportInv, QueueMatchesTransport, Stale, MatchesTransport
<1>7. CASE EnqueueFreshJr
  BY <1>7 DEF EnqueueFreshJr, TransportInv, QueueMatchesTransport, Stale, MatchesTransport
<1>8. CASE EnqueueAnchor
  BY <1>8 DEF EnqueueAnchor, TransportInv, QueueMatchesTransport, Stale, MatchesTransport
<1>9. CASE EnqueueFallback
  BY <1>9 DEF EnqueueFallback, TransportInv, QueueMatchesTransport, Stale, MatchesTransport
<1>10. CASE EnqueuePush
  <2> DEFINE m == [id |-> event.id, session |-> event.session,
                   serverTimestampNs |-> event.serverTimestampNs,
                   playAt |-> playAt, atEnqueue |-> snap]
  <2>1. /\ queue' = queue \cup {m} /\ session' = session /\ UNCHANGED lastVars
        /\ rpc = "push" /\ rpc' = "notify" /\ event' = NoEvent
    BY <1>10 DEF EnqueuePush
  <2>2. m.session = event.session /\ m.atEnqueue = snap
    OBVIOUS
  <2> HIDE DEF m
  <2>3. ~Stale(m) => MatchesTransport(m.atEnqueue)
    BY <2>1, <2>2 DEF TransportInv, Stale
  <2>4. QueueMatchesTransport'
    BY <2>1, <2>3 DEF TransportInv, QueueMatchesTransport, MatchesTransport, Stale
  <2> QED BY <1>1, <2>1, <2>4 DEF TransportInv
<1>11. CASE EnqueueNotify
  BY <1>11 DEF EnqueueNotify, TransportInv, QueueMatchesTransport, Stale
<1> QED BY <1>2, <1>3, <1>4, <1>5, <1>6, <1>7, <1>8, <1>9, <1>10, <1>11 DEF ReceiverStep

\* reset() empties the queue and makes the event under way one of an earlier session.
LEMMA ResetKeepsTransport ==
    ASSUME TypeInv, TransportInv, SchedulerReset
    PROVE  TransportInv'
<1>1. queue' = {} /\ session' = session + 1 /\ event' = event /\ rpc' = rpc
  BY DEF SchedulerReset, KeptByReset, GuiFrame, receiverVars
<1>2. session \in Nat /\ event.session \in Nat /\ event.session <= session
  BY DEF TypeInv, TypeOK, Frames, TransportInv
<1>3. event.session <= session + 1 /\ event.session < session + 1
  BY <1>2
<1> QED BY <1>1, <1>3 DEF TransportInv, QueueMatchesTransport, Stale

LEMMA NextKeepsTransport == TypeInv /\ TransportInv /\ [Next]_vars => TransportInv'
<1> SUFFICES ASSUME TypeInv, TransportInv, [Next]_vars PROVE TransportInv'
  OBVIOUS
<1>1. CASE \E e \in Emissions : ReceiveMidi(e) \/ ReceiveJrClock(e)
  <2>1. PICK e \in Emissions : ReceiveMidi(e) \/ ReceiveJrClock(e)
    BY <1>1
  <2>2. UNCHANGED <<queue, lastVars, snap, session>> /\ session \in Nat
    BY <2>1, DispatchTouches DEF ReceiverFrame, TypeInv, TypeOK
  <2>3. CASE UNCHANGED <<rpc, event>>
    BY <2>2, <2>3, QuietKeepsTransport
  <2>4. CASE rpc' \in {"snapshot", "jr"} /\ event'.session = session
    BY <2>2, <2>4 DEF TransportInv, QueueMatchesTransport, Stale, lastVars
  <2> QED BY <2>1, <2>3, <2>4, DispatchTouches
<1>2. CASE ReceiverStep
  BY <1>2, ReceiverKeepsTransport
<1>3. CASE WorkerStep \/ SpuriousWake
  BY <1>3, WorkerTouches, QuietKeepsTransport DEF WorkerFrame, receiverVars
<1>4. CASE SchedulerReset
  BY <1>4, ResetKeepsTransport
<1>5. CASE (GuiStep /\ ~SchedulerReset) \/ StartStreaming \/ StopStreaming
  BY <1>5, GuiTouches, QuietKeepsTransport DEF GuiFrame, receiverVars
<1>6. CASE ClockMessageArrives \/ MidiClock \/ Tick \/ UNCHANGED vars
  BY <1>6, QuietKeepsTransport
     DEF ClockMessageArrives, MidiClock, Tick, OutsideFrame, vars, queueVars, receiverVars,
         historyVars
<1> QED BY <1>1, <1>2, <1>3, <1>4, <1>5, <1>6 DEF Next

LEMMA InitTransport == Init => TransportInv
BY DEF Init, NoEvent, TransportInv, QueueMatchesTransport

\* The flush rule keeps the queue uniform: whatever the transport does, and wherever
\* reset() falls in enqueue(), the queued events of this session match the transport
\* state the scheduler saw last (receiveScheduler.cpp:58-73, 107-123).
THEOREM QueueUniform == Spec => []QueueMatchesTransport
<1>1. TransportInv => QueueMatchesTransport
  BY DEF TransportInv
<1> QED BY <1>1, InitType, NextKeepsType, InitTransport, NextKeepsTransport, PTL DEF Spec
-----------------------------------------------------------------------------
(* The worker asleep.                                                       *)

NextIsFirst == \A m \in queue : Sequence(next.id) <= Sequence(m.id)

\* From the test of a wait's predicate to the wait the worker holds mutex_, so nothing
\* is pushed; asleep, it is owed a notification for what is pushed.
SleepInv ==
    running =>
        /\ wpc = "blocking" => queue = {}
        /\ wpc = "asleep" /\ rpc # "notify" => queue = {}
        /\ wpc = "tblocking" => NextIsFirst
        /\ wpc = "tasleep" /\ rpc # "notify" => NextIsFirst

\* A step that adds nothing to the queue and leaves the worker where it is.
LEMMA QuietKeepsSleep ==
    ASSUME SleepInv, queue' \subseteq queue, UNCHANGED <<running, wpc, next>>,
           rpc = "notify" => rpc' = "notify"
    PROVE  SleepInv'
BY DEF SleepInv, NextIsFirst

\* A worker that is notified sleeps no more.
LEMMA NotifiedIsAwake ==
    /\ Notified \notin {"asleep", "tasleep"}
    /\ Notified = "blocking" => wpc = "blocking"
    /\ Notified = "tblocking" => wpc = "tblocking"
BY Zenon DEF Notified

LEMMA ReceiverKeepsSleep ==
    ASSUME SleepInv, ReceiverStep
    PROVE  SleepInv'
<1> USE DEF ReceiverFrame
<1>1. CASE ApplyJrClock
  BY <1>1, QuietKeepsSleep DEF ApplyJrClock
<1>2. CASE EnqueueSnapshot
  BY <1>2, QuietKeepsSleep DEF EnqueueSnapshot
<1>3. CASE EnqueueFlush
  BY <1>3, QuietKeepsSleep DEF EnqueueFlush
<1>4. CASE EnqueueChooseMode
  BY <1>4, QuietKeepsSleep DEF EnqueueChooseMode
<1>5. CASE EnqueueExtrapolate
  BY <1>5, QuietKeepsSleep DEF EnqueueExtrapolate
<1>6. CASE EnqueueFreshJr
  BY <1>6, QuietKeepsSleep DEF EnqueueFreshJr
<1>7. CASE EnqueueAnchor
  BY <1>7, QuietKeepsSleep DEF EnqueueAnchor
<1>8. CASE EnqueueFallback
  BY <1>8, QuietKeepsSleep DEF EnqueueFallback
<1>9. CASE EnqueuePush
  BY <1>9 DEF EnqueuePush, MutexFree, SleepInv
<1>10. CASE EnqueueNotify
  <2>1. wpc' = Notified /\ UNCHANGED <<queue, running, next>>
    BY <1>10 DEF EnqueueNotify
  <2> QED BY <2>1, NotifiedIsAwake DEF SleepInv, NextIsFirst
<1> QED BY <1>1, <1>2, <1>3, <1>4, <1>5, <1>6, <1>7, <1>8, <1>9, <1>10 DEF ReceiverStep

\* The predicate of the timed wait looks at one top of the queue; no other event has a
\* lower sequence number than a top.
LEMMA TimedWaitLooksAtFirst ==
    ASSUME TypeInv, running, ~TimedWaitPredicate
    PROVE  NextIsFirst
<1>1. PICK m \in Tops(queue) : ~(Sequence(m.id) < Sequence(next.id))
  BY DEF TimedWaitPredicate
<1>2. SUFFICES ASSUME NEW o \in queue
               PROVE  Sequence(next.id) <= Sequence(o.id)
  BY DEF NextIsFirst
<1>3. m.id \in Nat /\ o.id \in Nat /\ next.id \in Nat
  BY DEF Tops, TypeInv, TypeOK, Messages
<1>4. Sequence(m.id) \in Int /\ Sequence(o.id) \in Int /\ Sequence(next.id) \in Int
  BY <1>3 DEF Sequence
<1>5. ~(Sequence(o.id) < Sequence(m.id))
  BY DEF Tops, Precedes
<1> QED BY <1>1, <1>4, <1>5

LEMMA WorkerKeepsSleep ==
    ASSUME TypeInv, SleepInv, WorkerStep \/ SpuriousWake
    PROVE  SleepInv'
<1> USE DEF WorkerFrame, receiverVars, SleepInv
<1>1. CASE WorkerWait
  <2>1. UNCHANGED <<queue, running>> /\ wpc' \in {"inner", "blocking"}
    BY <1>1 DEF WorkerWait
  <2>2. wpc' = "blocking" => ~WaitPredicate
    BY <1>1 DEF WorkerWait
  <2> QED BY <2>1, <2>2 DEF WaitPredicate
<1>2. CASE WorkerBlock
  BY <1>2 DEF WorkerBlock, NextIsFirst
<1>3. CASE WorkerTimedWait
  <2>1. CASE TimedWaitPredicate
    BY <1>3, <2>1 DEF WorkerTimedWait
  <2>2. CASE ~TimedWaitPredicate
    <3>1. wpc' = "tblocking" /\ UNCHANGED <<queue, running, next>>
      BY <1>3, <2>2 DEF WorkerTimedWait
    <3> QED BY <2>2, <3>1, TimedWaitLooksAtFirst DEF NextIsFirst
  <2> QED BY <2>1, <2>2
<1>4. CASE SpuriousWake
  BY <1>4, NotifiedIsAwake DEF SpuriousWake
<1>5. CASE WorkerLoop \/ WorkerWake \/ WorkerInnerExit \/ WorkerDefer \/ WorkerTimedWake
           \/ WorkerTimeout \/ WorkerRelease \/ WorkerDrop \/ WorkerSend \/ WorkerRelock
  <2>1. wpc' \notin {"blocking", "asleep", "tblocking", "tasleep"}
    BY <1>5 DEF WorkerLoop, WorkerWake, WorkerInnerExit, WorkerDefer, WorkerTimedWake,
                WorkerTimeout, WorkerRelease, WorkerDrop, WorkerSend, WorkerRelock
  <2> QED BY <2>1
<1> QED BY <1>1, <1>2, <1>3, <1>4, <1>5 DEF WorkerStep

LEMMA GuiKeepsSleep ==
    ASSUME SleepInv, GuiStep \/ StartStreaming \/ StopStreaming
    PROVE  SleepInv'
<1> USE DEF GuiFrame, receiverVars, queueVars
<1>1. CASE StartStreaming \/ StopStreaming \/ WireOutput
  BY <1>1, QuietKeepsSleep DEF StartStreaming, StopStreaming, WireOutput
<1>2. CASE SchedulerStart
  BY <1>2 DEF SchedulerStart, SleepInv
<1>3. CASE SchedulerStop
  BY <1>3 DEF SchedulerStop, SleepInv
<1>4. CASE StopNotify
  <2>1. wpc' = Notified /\ UNCHANGED <<queue, running, next>>
    BY <1>4 DEF StopNotify
  <2> QED BY <2>1, NotifiedIsAwake DEF SleepInv, NextIsFirst
<1>5. CASE StopJoin
  BY <1>5 DEF StopJoin, SleepInv
<1>6. CASE SchedulerReset
  <2>1. wpc' = Notified /\ queue' = {}
    BY <1>6 DEF SchedulerReset, KeptByReset
  <2> QED BY <2>1 DEF SleepInv, NextIsFirst
<1>7. CASE ClearOutput \/ UnwireInput \/ ResetClock \/ ClosePorts
  BY <1>7, QuietKeepsSleep DEF ClearOutput, UnwireInput, ResetClock, ClosePorts
<1> QED BY <1>1, <1>2, <1>3, <1>4, <1>5, <1>6, <1>7 DEF GuiStep

LEMMA NextKeepsSleep == TypeInv /\ SleepInv /\ [Next]_vars => SleepInv'
<1> SUFFICES ASSUME TypeInv, SleepInv, [Next]_vars PROVE SleepInv'
  OBVIOUS
<1>1. CASE \E e \in Emissions : ReceiveMidi(e) \/ ReceiveJrClock(e)
  <2>1. PICK e \in Emissions : ReceiveMidi(e) \/ ReceiveJrClock(e)
    BY <1>1
  <2> QED BY <2>1, DispatchTouches, QuietKeepsSleep DEF ReceiverFrame
<1>2. CASE ClockMessageArrives \/ MidiClock \/ Tick \/ UNCHANGED vars
  BY <1>2, QuietKeepsSleep
     DEF ClockMessageArrives, MidiClock, Tick, OutsideFrame, vars, queueVars, receiverVars,
         workerVars
<1> QED BY <1>1, <1>2, ReceiverKeepsSleep, WorkerKeepsSleep, GuiKeepsSleep DEF Next

\* However pushes, spurious wakeups, deadlines and stop() interleave with the worker's
\* two waits, it never sleeps over work it was not notified of
\* (receiveScheduler.cpp:194-202 against 213-235).
THEOREM NeverSleepsOverWork == Spec => []SleepsOnlyWithoutWork
<1>1. Init => SleepInv
  BY DEF Init, SleepInv
<1>2. Spec => []TypeInv
  BY InitType, NextKeepsType, PTL DEF Spec
<1>3. SleepInv => SleepsOnlyWithoutWork
  BY DEF SleepInv, SleepsOnlyWithoutWork, NextIsFirst
<1> QED BY <1>1, <1>2, <1>3, NextKeepsSleep, PTL DEF Spec
-----------------------------------------------------------------------------
(* Time stamps and the model of the server's clock.                         *)

FrameInHand == rpc \notin {"idle", "notify"}

\* The frame in the hands of the receive thread is the last one stamped, and at most
\* MaxDelay old.
AgeInv ==
    /\ lastEmission <= now
    /\ FrameInHand => Emission(event) = lastEmission /\ now <= lastEmission + MaxDelay

LEMMA NextKeepsAge == TypeInv /\ AgeInv /\ [Next]_vars => AgeInv'
<1> SUFFICES ASSUME TypeInv, AgeInv, [Next]_vars PROVE AgeInv'
  OBVIOUS
<1> USE DEF AgeInv, FrameInHand, Emission
<1>0. now \in Nat /\ lastEmission \in Nat /\ event.serverTimestampNs \in Int
  BY DEF TypeInv, TypeOK, Frames
<1>1. CASE \E e \in Emissions : ReceiveMidi(e) \/ ReceiveJrClock(e)
  <2>1. PICK e \in Emissions : ReceiveMidi(e) \/ ReceiveJrClock(e)
    BY <1>1
  <2>2. e \in Int /\ lastEmission <= e /\ e <= now /\ now <= e + MaxDelay
    BY <1>0 DEF Emissions
  <2>3. lastEmission' = e /\ now' = now /\ rpc = "idle"
    BY <2>1, DispatchTouches DEF ReceiverFrame
  <2>4. rpc' # "idle" => event'.serverTimestampNs = e + ServerOffset
    BY <2>1, DispatchTouches
  <2> QED BY <2>2, <2>3, <2>4
<1>2. CASE ReceiverStep
  BY <1>2 DEF ReceiverStep, ReceiverFrame, streamVars, ApplyJrClock, EnqueueSnapshot,
     EnqueueFlush, EnqueueChooseMode, EnqueueExtrapolate, EnqueueFreshJr, EnqueueAnchor,
     EnqueueFallback, EnqueuePush, EnqueueNotify
<1>3. CASE WorkerStep \/ SpuriousWake
  BY <1>3, WorkerTouches DEF WorkerFrame, receiverVars, streamVars
<1>4. CASE SchedulerReset
  BY <1>4 DEF SchedulerReset, GuiFrame, receiverVars, streamVars
<1>5. CASE (GuiStep /\ ~SchedulerReset) \/ StartStreaming \/ StopStreaming
  BY <1>5, GuiTouches DEF GuiFrame, receiverVars, streamVars
<1>6. CASE ClockMessageArrives \/ MidiClock \/ UNCHANGED vars
  BY <1>6 DEF ClockMessageArrives, MidiClock, OutsideFrame, vars, receiverVars, streamVars
<1>7. CASE Tick
  <2>1. /\ now' = now + 1 /\ UNCHANGED <<rpc, event, lastEmission>>
        /\ FrameInHand => now < Emission(event) + MaxDelay
    BY <1>7 DEF Tick, OutsideFrame, receiverVars, streamVars
  <2> QED BY <1>0, <2>1
<1> QED BY <1>1, <1>2, <1>3, <1>4, <1>5, <1>6, <1>7 DEF Next

\* A fifth of the way from p to q lies between them.
LEMMA FilterStaysBetween ==
    ASSUME NEW p \in Int, NEW q \in Int, NEW lo \in Int, NEW hi \in Int,
           lo <= p, p <= hi, lo <= q, q <= hi
    PROVE  lo <= p + (q - p) \div 5 /\ p + (q - p) \div 5 <= hi
OBVIOUS

\* What reset() and the methods of TimeSync leave true of its members.
SyncInv ==
    /\ SyncEnvelope
    /\ sync.jrClockValid => sync.jrFilterInitialized
    /\ sync.anchorValid => sync.firstServerTimestampNs - ServerOffset <= lastEmission

\* An anchor made of a frame at most MaxDelay old.
LEMMA AnchoredInEnvelope ==
    ASSUME NEW s \in SyncStates, NEW ts \in Int, now \in Nat, lastEmission \in Nat,
           ts - ServerOffset = lastEmission, lastEmission <= now, now <= lastEmission + MaxDelay,
           s.anchorValid =>
              /\ OffsetWithin(s.firstServerTimestampNs - (s.anchorLocalPlayTime - JitterBuffer))
              /\ s.firstServerTimestampNs - ServerOffset <= lastEmission,
           NEW t, t = Anchored(s, ts)
    PROVE  /\ OffsetWithin(t.firstServerTimestampNs - (t.anchorLocalPlayTime - JitterBuffer))
           /\ t.firstServerTimestampNs - ServerOffset <= lastEmission
           /\ t.jrClockValid = s.jrClockValid /\ t.jrFilterInitialized = s.jrFilterInitialized
           /\ t.filteredJrServerClockNs = s.filteredJrServerClockNs
           /\ t.filteredJrLocalArrival = s.filteredJrLocalArrival
<1>1. CASE s.anchorValid
  BY <1>1 DEF Anchored
<1>2. CASE ~s.anchorValid
  <2> DEFINE p == now + JitterBuffer
  <2>1. t = [s EXCEPT !.anchorValid = TRUE, !.firstServerTimestampNs = ts,
                      !.anchorLocalPlayTime = p]
    BY <1>2 DEF Anchored
  <2>2. p \in Int /\ p - JitterBuffer = now
    OBVIOUS
  <2> HIDE DEF p
  <2>3. /\ t.firstServerTimestampNs = ts /\ t.anchorLocalPlayTime = p
        /\ t.jrClockValid = s.jrClockValid /\ t.jrFilterInitialized = s.jrFilterInitialized
        /\ t.filteredJrServerClockNs = s.filteredJrServerClockNs
        /\ t.filteredJrLocalArrival = s.filteredJrLocalArrival
    BY <2>1 DEF SyncStates
  <2> QED BY <2>2, <2>3 DEF OffsetWithin
<1> QED BY <1>1, <1>2

\* A JR sample at most MaxDelay old keeps the filtered clock within MaxDelay, however
\* long ago the last sample was.
LEMMA FilteredInEnvelope ==
    ASSUME TypeInv, SyncInv, NEW ts \in Int, ts - ServerOffset <= now, now <= ts - ServerOffset + MaxDelay
    PROVE  OffsetWithin(FilteredClock(ts) - now)
<1> DEFINE predicted == sync.filteredJrServerClockNs + (now - sync.filteredJrLocalArrival)
           lo == now + ServerOffset - MaxDelay
           hi == now + ServerOffset
<1>1. now \in Int /\ predicted \in Int /\ lo \in Int /\ hi \in Int
  BY DEF TypeInv, TypeOK, SyncStates
<1>2. lo <= ts /\ ts <= hi
  BY <1>1
<1>3. CASE ~sync.jrFilterInitialized
  BY <1>1, <1>2, <1>3 DEF FilteredClock, OffsetWithin
<1>4. CASE sync.jrFilterInitialized
  <2>1. lo <= predicted /\ predicted <= hi
    BY <1>1, <1>4 DEF SyncInv, SyncEnvelope, OffsetWithin, TypeInv, TypeOK, SyncStates
  <2>2. FilteredClock(ts) = predicted + (ts - predicted) \div 5
    BY <1>4 DEF FilteredClock
  <2>3. predicted + (ts - predicted) \div 5 \in Int
    BY <1>1
  <2> HIDE DEF predicted
  <2>4. lo <= FilteredClock(ts) /\ FilteredClock(ts) <= hi
    BY <1>1, <1>2, <2>1, <2>2, FilterStaysBetween
  <2> QED BY <1>1, <2>2, <2>3, <2>4 DEF OffsetWithin
<1> QED BY <1>3, <1>4

LEMMA JrSampleKeepsSync ==
    ASSUME TypeInv, AgeInv, SyncInv, ApplyJrClock
    PROVE  SyncInv'
<1> DEFINE ts == event.serverTimestampNs
           f == FilteredClock(ts)
<1>1. /\ now \in Nat /\ lastEmission \in Nat /\ sync \in SyncStates /\ ts \in Int
      /\ lastEmission' = lastEmission
  BY DEF TypeInv, TypeOK, Frames, ApplyJrClock, streamVars
<1>2. ts - ServerOffset = lastEmission /\ lastEmission <= now /\ now <= lastEmission + MaxDelay
  BY DEF ApplyJrClock, AgeInv, FrameInHand, Emission
<1>3. f \in Int /\ OffsetWithin(f - now)
  BY <1>1, <1>2, FilteredInEnvelope, SyncTypes
<1>4. PICK ppm \in FreqPpms : UpdateJrClock(ts, ppm)
  BY DEF ApplyJrClock
<1> DEFINE s == [sync EXCEPT !.jrClockValid = TRUE, !.jrFreqPpm = ppm,
                             !.jrLocalArrival = now, !.jrFilterInitialized = TRUE,
                             !.filteredJrServerClockNs = f,
                             !.filteredJrLocalArrival = now]
<1>5. sync' = Anchored(s, ts)
  BY <1>4 DEF UpdateJrClock
<1> HIDE DEF f
<1>6. s \in SyncStates
  <2>1. now \in Int
    BY <1>1
  <2> QED BY <1>1, <1>3, <2>1 DEF SyncStates
<1>7. /\ s.jrClockValid /\ s.jrFilterInitialized /\ s.filteredJrServerClockNs = f
      /\ s.filteredJrLocalArrival = now /\ s.anchorValid = sync.anchorValid
      /\ s.firstServerTimestampNs = sync.firstServerTimestampNs
      /\ s.anchorLocalPlayTime = sync.anchorLocalPlayTime
  BY <1>1 DEF SyncStates
<1> HIDE DEF s, ts
<1>8. s.anchorValid =>
        /\ OffsetWithin(s.firstServerTimestampNs - (s.anchorLocalPlayTime - JitterBuffer))
        /\ s.firstServerTimestampNs - ServerOffset <= lastEmission
  BY <1>7 DEF SyncInv, SyncEnvelope
<1>9. /\ OffsetWithin(sync'.firstServerTimestampNs - (sync'.anchorLocalPlayTime - JitterBuffer))
      /\ sync'.firstServerTimestampNs - ServerOffset <= lastEmission
      /\ sync'.jrFilterInitialized /\ sync'.filteredJrServerClockNs = f
      /\ sync'.filteredJrLocalArrival = now
  BY <1>1, <1>2, <1>5, <1>6, <1>7, <1>8, AnchoredInEnvelope
<1> QED BY <1>1, <1>3, <1>9 DEF SyncInv, SyncEnvelope, OffsetWithin

LEMMA AnchorKeepsSync ==
    ASSUME TypeInv, AgeInv, SyncInv, EnqueueAnchor
    PROVE  SyncInv'
<1> DEFINE ts == event.serverTimestampNs
<1>1. /\ now \in Nat /\ lastEmission \in Nat /\ sync \in SyncStates /\ ts \in Int
      /\ lastEmission' = lastEmission /\ sync' = Anchored(sync, ts)
  BY DEF TypeInv, TypeOK, Frames, EnqueueAnchor, streamVars
<1>2. ts - ServerOffset = lastEmission /\ lastEmission <= now /\ now <= lastEmission + MaxDelay
  BY DEF EnqueueAnchor, AgeInv, FrameInHand, Emission
<1>3. sync.anchorValid =>
        /\ OffsetWithin(sync.firstServerTimestampNs - (sync.anchorLocalPlayTime - JitterBuffer))
        /\ sync.firstServerTimestampNs - ServerOffset <= lastEmission
  BY DEF SyncInv, SyncEnvelope
<1> HIDE DEF ts
<1>4. /\ OffsetWithin(sync'.firstServerTimestampNs - (sync'.anchorLocalPlayTime - JitterBuffer))
      /\ sync'.firstServerTimestampNs - ServerOffset <= lastEmission
      /\ sync'.jrClockValid = sync.jrClockValid
      /\ sync'.jrFilterInitialized = sync.jrFilterInitialized
      /\ sync'.filteredJrServerClockNs = sync.filteredJrServerClockNs
      /\ sync'.filteredJrLocalArrival = sync.filteredJrLocalArrival
  BY <1>1, <1>2, <1>3, AnchoredInEnvelope
<1> QED BY <1>1, <1>4 DEF SyncInv, SyncEnvelope, OffsetWithin

\* The other steps of the receive thread ask TimeSync or leave it alone.
LEMMA ReceiverAsksSync ==
    ASSUME ReceiverStep, ~ApplyJrClock, ~EnqueueAnchor
    PROVE  sync' = sync
BY DEF ReceiverStep, EnqueueSnapshot, EnqueueFlush, EnqueueChooseMode, EnqueueExtrapolate,
       EnqueueFreshJr, EnqueueFallback, EnqueuePush, EnqueueNotify

LEMMA ReceiverTouches ==
    ASSUME ReceiverStep
    PROVE  ReceiverFrame /\ UNCHANGED streamVars
BY DEF ReceiverStep, ApplyJrClock, EnqueueSnapshot, EnqueueFlush, EnqueueChooseMode,
       EnqueueExtrapolate, EnqueueFreshJr, EnqueueAnchor, EnqueueFallback, EnqueuePush,
       EnqueueNotify

LEMMA NextKeepsSync == TypeInv /\ AgeInv /\ SyncInv /\ [Next]_vars => SyncInv'
<1> SUFFICES ASSUME TypeInv, AgeInv, SyncInv, [Next]_vars PROVE SyncInv'
  OBVIOUS
<1>1. CASE UNCHANGED <<sync, lastEmission>>
  BY <1>1 DEF SyncInv, SyncEnvelope, OffsetWithin
<1>2. CASE \E e \in Emissions : ReceiveMidi(e) \/ ReceiveJrClock(e)
  <2>1. PICK e \in Emissions : ReceiveMidi(e) \/ ReceiveJrClock(e)
    BY <1>2
  <2>2. e \in Int /\ lastEmission \in Int /\ lastEmission <= e
    BY DEF Emissions, TypeInv, TypeOK
  <2>3. sync' = sync /\ lastEmission' = e
    BY <2>1, DispatchTouches
  <2>4. sync.firstServerTimestampNs \in Int
    BY DEF TypeInv, TypeOK, SyncStates
  <2> QED BY <2>2, <2>3, <2>4 DEF SyncInv, SyncEnvelope, OffsetWithin
<1>3. CASE ReceiverStep
  BY <1>1, <1>3, JrSampleKeepsSync, AnchorKeepsSync, ReceiverAsksSync, ReceiverTouches
     DEF streamVars
<1>4. CASE WorkerStep \/ SpuriousWake
  BY <1>1, <1>4, WorkerTouches DEF WorkerFrame, streamVars
<1>5. CASE SchedulerReset
  <2>1. sync' = UnsyncedState
    BY <1>5 DEF SchedulerReset, SyncReset
  <2> QED BY <2>1 DEF UnsyncedState, SyncInv, SyncEnvelope
<1>6. CASE (GuiStep /\ ~SchedulerReset) \/ StartStreaming \/ StopStreaming
  BY <1>1, <1>6, GuiTouches DEF GuiFrame, streamVars
<1>7. CASE ClockMessageArrives \/ MidiClock \/ Tick \/ UNCHANGED vars
  BY <1>1, <1>7 DEF ClockMessageArrives, MidiClock, Tick, OutsideFrame, vars, streamVars
<1> QED BY <1>2, <1>3, <1>4, <1>5, <1>6, <1>7 DEF Next

LEMMA InitSync == Init => AgeInv /\ SyncInv
BY DEF Init, SyncInit, UnsyncedState, AgeInv, FrameInHand, SyncInv, SyncEnvelope

\* However many samples the filter takes, however they are delayed up to MaxDelay, and
\* whenever reset() clears it, the model of the server's clock is off by the delay of a
\* frame at most (timeSync.cpp:21-35, 106-157, 195-217).
THEOREM SyncWithinDelay == Spec => []SyncEnvelope
<1>1. SyncInv => SyncEnvelope
  BY DEF SyncInv
<1> QED BY <1>1, InitType, NextKeepsType, InitSync, NextKeepsAge, NextKeepsSync, PTL DEF Spec
-----------------------------------------------------------------------------
(* Play times.                                                              *)

\* Between one jitter buffer and one jitter buffer plus twice the delay after e was
\* stamped; and the same plus the whole reading of the server's clock.
OnTime(e, playTime) ==
    playTime - Emission(e) \in JitterBuffer .. (JitterBuffer + 2 * MaxDelay)
LateByClock(e, playTime) ==
    playTime - Emission(e) - e.serverTimestampNs \in JitterBuffer .. (JitterBuffer + MaxDelay)

\* A play time that enqueue() may compute for e: late only if reset() overtook e.
Admissible(e, playTime) == OnTime(e, playTime) \/ (Stale(e) /\ LateByClock(e, playTime))

\* Along the way of an event through enqueue(): the clock it will ask is valid, the
\* answer is a reading of the server's clock since the event was stamped or, after a
\* reset(), 0, and the play time that results is admissible.
PlayInv ==
    /\ rpc = "extrapolate" /\ ~Stale(event) => sync.jrClockValid
    /\ rpc = "offset" =>
          \/ extrapolated \in (event.serverTimestampNs - MaxDelay) .. (now + ServerOffset)
          \/ Stale(event) /\ extrapolated = 0
    /\ rpc = "push" => Admissible(event, playAt)
    /\ \A m \in queue : Admissible(m, m.playAt)

\* What a step does that neither computes nor enqueues, nor resets.
QuietForPlayTimes ==
    /\ queue' \subseteq queue
    /\ UNCHANGED <<session, now>>
    /\ rpc' \in {"extrapolate", "offset", "push"} =>
          /\ UNCHANGED <<rpc, event, extrapolated, playAt>>
          /\ sync' = sync

LEMMA QuietKeepsPlayTimes ==
    ASSUME PlayInv, QuietForPlayTimes
    PROVE  PlayInv'
BY DEF PlayInv, QuietForPlayTimes, Admissible, OnTime, LateByClock, Stale, Emission

\* What the extrapolated server clock may read.
LEMMA ExtrapolatedReading ==
    ASSUME TypeInv, AgeInv, SyncInv, PlayInv, rpc = "extrapolate"
    PROVE  \/ ExtrapolatedServerClock
                \in (event.serverTimestampNs - MaxDelay) .. (now + ServerOffset)
           \/ Stale(event) /\ ExtrapolatedServerClock = 0
<1> DEFINE advanced == sync.filteredJrServerClockNs
                         + AtServerRate(now - sync.filteredJrLocalArrival)
<1>1. /\ now \in Nat /\ lastEmission \in Nat /\ event.serverTimestampNs \in Int
      /\ sync \in SyncStates /\ sync.filteredJrServerClockNs \in Int
      /\ sync.filteredJrLocalArrival \in Int
  BY DEF TypeInv, TypeOK, Frames, SyncStates
<1>2. event.serverTimestampNs - ServerOffset = lastEmission /\ lastEmission <= now
  BY DEF AgeInv, FrameInHand, Emission
<1>3. CASE sync.jrClockValid
  <2>1. sync.jrFilterInitialized
    BY <1>3 DEF SyncInv
  <2>2. advanced = sync.filteredJrServerClockNs + (now - sync.filteredJrLocalArrival)
    BY <1>1, RatesAreOne
  <2>3. sync.filteredJrServerClockNs - sync.filteredJrLocalArrival
          \in (ServerOffset - MaxDelay) .. ServerOffset
    BY <2>1 DEF SyncInv, SyncEnvelope, OffsetWithin
  <2>4. advanced \in (now + ServerOffset - MaxDelay) .. (now + ServerOffset)
    BY <1>1, <2>2, <2>3
  <2>5. ExtrapolatedServerClock = IF advanced > 0 THEN advanced ELSE 0
    BY <1>3, <2>1 DEF ExtrapolatedServerClock
  <2> HIDE DEF advanced
  <2> QED BY <1>1, <1>2, <2>4, <2>5
<1>4. CASE ~sync.jrClockValid
  <2>1. ExtrapolatedServerClock = 0
    BY <1>4 DEF ExtrapolatedServerClock
  <2> QED BY <1>4, <2>1 DEF PlayInv
<1> QED BY <1>3, <1>4

\* The play time from a fresh JR clock.
LEMMA FreshJrAdmissible ==
    ASSUME TypeInv, AgeInv, PlayInv, rpc = "offset"
    PROVE  Admissible(event, FreshJrPlayTime)
<1> DEFINE offset == event.serverTimestampNs - extrapolated + JitterBuffer
<1>1. /\ now \in Nat /\ lastEmission \in Nat /\ event.serverTimestampNs \in Int
      /\ sync \in SyncStates /\ extrapolated \in Int
  BY DEF TypeInv, TypeOK, Frames
<1>2. /\ event.serverTimestampNs - ServerOffset = lastEmission /\ lastEmission <= now
      /\ now <= lastEmission + MaxDelay
  BY DEF AgeInv, FrameInHand, Emission
<1>3. offset \in Int
  BY <1>1
<1>4. FreshJrPlayTime = now + offset
  BY <1>1, <1>3, RatesAreOne DEF FreshJrPlayTime, LocalTimeAtOffset
<1>5. CASE extrapolated \in (event.serverTimestampNs - MaxDelay) .. (now + ServerOffset)
  BY <1>1, <1>2, <1>4, <1>5 DEF Admissible, OnTime, Emission
<1>6. CASE Stale(event) /\ extrapolated = 0
  BY <1>1, <1>2, <1>4, <1>6 DEF Admissible, LateByClock, Emission
<1> QED BY <1>5, <1>6 DEF PlayInv

\* The play time from the anchor: no event is older than the anchor.
LEMMA AnchorAdmissible ==
    ASSUME TypeInv, AgeInv, SyncInv, rpc = "anchor"
    PROVE  Admissible(event, PlayTime(event.serverTimestampNs))
<1> DEFINE ts == event.serverTimestampNs
<1>1. /\ now \in Nat /\ lastEmission \in Nat /\ ts \in Int
      /\ sync.firstServerTimestampNs \in Int /\ sync.anchorLocalPlayTime \in Int
  BY DEF TypeInv, TypeOK, Frames, SyncStates
<1>2. /\ ts - ServerOffset = lastEmission /\ lastEmission <= now
      /\ now <= lastEmission + MaxDelay
  BY DEF AgeInv, FrameInHand, Emission
<1>3. CASE ~sync.anchorValid
  BY <1>1, <1>2, <1>3 DEF PlayTime, Admissible, OnTime, Emission
<1>4. CASE sync.anchorValid
  <2>1. sync.firstServerTimestampNs <= ts
    BY <1>1, <1>2, <1>4 DEF SyncInv
  <2>2. PlayTime(ts) = sync.anchorLocalPlayTime + (ts - sync.firstServerTimestampNs)
    BY <1>1, <1>4, <2>1 DEF PlayTime
  <2>3. sync.firstServerTimestampNs - (sync.anchorLocalPlayTime - JitterBuffer)
          \in (ServerOffset - MaxDelay) .. ServerOffset
    BY <1>4 DEF SyncInv, SyncEnvelope, OffsetWithin
  <2> QED BY <1>1, <2>2, <2>3 DEF Admissible, OnTime, Emission
<1> QED BY <1>3, <1>4

LEMMA ReceiverKeepsPlayTimes ==
    ASSUME TypeInv, AgeInv, SyncInv, PlayInv, ReceiverStep
    PROVE  PlayInv'
<1> USE DEF ReceiverFrame
<1>1. CASE ApplyJrClock \/ EnqueueSnapshot \/ EnqueueFlush \/ EnqueueNotify
  BY <1>1, QuietKeepsPlayTimes
     DEF ApplyJrClock, EnqueueSnapshot, EnqueueFlush, EnqueueNotify, QuietForPlayTimes
<1>2. CASE EnqueueChooseMode
  <2>1. rpc' \in {"extrapolate", "anchor", "fallback"}
    <3>1. CASE SchedulingMode = "FreshJr"
      BY <1>2, <3>1, Zenon DEF EnqueueChooseMode
    <3>2. CASE SchedulingMode = "Anchor"
      BY <1>2, <3>2, Zenon DEF EnqueueChooseMode
    <3>3. CASE SchedulingMode \notin {"FreshJr", "Anchor"}
      BY <1>2, <3>3, Zenon DEF EnqueueChooseMode
    <3> QED BY <3>1, <3>2, <3>3
  <2>2. rpc' = "extrapolate" => sync.jrClockValid
    <3>1. CASE sync.jrClockValid
      BY <3>1
    <3>2. CASE ~sync.jrClockValid
      <4>1. SchedulingMode # "FreshJr"
        BY <3>2 DEF SchedulingMode
      <4>2. CASE SchedulingMode = "Anchor"
        BY <1>2, <4>2, Zenon DEF EnqueueChooseMode
      <4>3. CASE SchedulingMode # "Anchor"
        BY <1>2, <4>1, <4>3, Zenon DEF EnqueueChooseMode
      <4> QED BY <4>2, <4>3
    <3> QED BY <3>1, <3>2
  <2> QED BY <1>2, <2>1, <2>2
          DEF EnqueueChooseMode, PlayInv, Admissible, OnTime, LateByClock, Stale, Emission
<1>3. CASE EnqueueExtrapolate
  <2>1. /\ rpc = "extrapolate" /\ rpc' = "offset" /\ extrapolated' = ExtrapolatedServerClock
        /\ UNCHANGED <<event, session, queue, now>>
    BY <1>3 DEF EnqueueExtrapolate
  <2>2. \/ extrapolated' \in (event.serverTimestampNs - MaxDelay) .. (now + ServerOffset)
        \/ Stale(event) /\ extrapolated' = 0
    BY <2>1, ExtrapolatedReading
  <2> QED BY <2>1, <2>2 DEF PlayInv, Admissible, OnTime, LateByClock, Stale, Emission
<1>4. CASE EnqueueFreshJr
  <2>1. Admissible(event, playAt')
    BY <1>4, FreshJrAdmissible DEF EnqueueFreshJr
  <2> QED BY <1>4, <2>1
          DEF EnqueueFreshJr, PlayInv, Admissible, OnTime, LateByClock, Stale, Emission
<1>5. CASE EnqueueAnchor
  <2>1. Admissible(event, playAt')
    BY <1>5, AnchorAdmissible DEF EnqueueAnchor
  <2> QED BY <1>5, <2>1
          DEF EnqueueAnchor, PlayInv, Admissible, OnTime, LateByClock, Stale, Emission
<1>6. CASE EnqueueFallback
  <2>1. /\ now \in Nat /\ lastEmission \in Nat /\ Emission(event) = lastEmission
        /\ lastEmission <= now /\ now <= lastEmission + MaxDelay
    BY <1>6 DEF EnqueueFallback, AgeInv, FrameInHand, TypeInv, TypeOK
  <2>2. Admissible(event, now + JitterBuffer)
    BY <2>1 DEF Admissible, OnTime
  <2> QED BY <1>6, <2>2
          DEF EnqueueFallback, PlayInv, Admissible, OnTime, LateByClock, Stale, Emission
<1>7. CASE EnqueuePush
  <2> DEFINE m == [id |-> event.id, session |-> event.session,
                   serverTimestampNs |-> event.serverTimestampNs,
                   playAt |-> playAt, atEnqueue |-> snap]
  <2>1. queue' = queue \cup {m} /\ session' = session /\ rpc = "push" /\ rpc' = "notify"
    BY <1>7 DEF EnqueuePush
  <2>2. /\ m.session = event.session /\ m.serverTimestampNs = event.serverTimestampNs
        /\ m.playAt = playAt
    OBVIOUS
  <2> HIDE DEF m
  <2>3. Admissible(m, m.playAt)
    BY <2>1, <2>2 DEF PlayInv, Admissible, OnTime, LateByClock, Stale, Emission
  <2> QED BY <2>1, <2>3 DEF PlayInv, Admissible, OnTime, LateByClock, Stale, Emission
<1> QED BY <1>1, <1>2, <1>3, <1>4, <1>5, <1>6, <1>7 DEF ReceiverStep

\* reset() takes the clock away from an event that has chosen it, and makes the event
\* one of an earlier session.
LEMMA ResetKeepsPlayTimes ==
    ASSUME TypeInv, TransportInv, PlayInv, SchedulerReset
    PROVE  PlayInv'
<1>1. /\ queue' = {} /\ session' = session + 1
      /\ UNCHANGED <<rpc, event, extrapolated, playAt, now>>
  BY DEF SchedulerReset, KeptByReset, GuiFrame, receiverVars
<1>2. session \in Nat /\ event.session \in Nat /\ event.session <= session
  BY DEF TypeInv, TypeOK, Frames, TransportInv
<1>3. Stale(event)'
  BY <1>1, <1>2 DEF Stale
<1> QED BY <1>1, <1>3 DEF PlayInv, Admissible, OnTime, LateByClock, Emission

LEMMA NextKeepsPlayTimes ==
    TypeInv /\ TransportInv /\ AgeInv /\ SyncInv /\ PlayInv /\ [Next]_vars => PlayInv'
<1> SUFFICES ASSUME TypeInv, TransportInv, AgeInv, SyncInv, PlayInv, [Next]_vars
             PROVE  PlayInv'
  OBVIOUS
<1>1. CASE \E e \in Emissions : ReceiveMidi(e) \/ ReceiveJrClock(e)
  <2>1. PICK e \in Emissions : ReceiveMidi(e) \/ ReceiveJrClock(e)
    BY <1>1
  <2> QED BY <2>1, DispatchTouches, QuietKeepsPlayTimes DEF ReceiverFrame, QuietForPlayTimes
<1>2. CASE ReceiverStep
  BY <1>2, ReceiverKeepsPlayTimes
<1>3. CASE WorkerStep \/ SpuriousWake
  BY <1>3, WorkerTouches, QuietKeepsPlayTimes DEF WorkerFrame, receiverVars, QuietForPlayTimes
<1>4. CASE SchedulerReset
  BY <1>4, ResetKeepsPlayTimes
<1>5. CASE (GuiStep /\ ~SchedulerReset) \/ StartStreaming \/ StopStreaming
  BY <1>5, GuiTouches, QuietKeepsPlayTimes DEF GuiFrame, receiverVars, QuietForPlayTimes
<1>6. CASE ClockMessageArrives \/ MidiClock \/ UNCHANGED vars
  BY <1>6, QuietKeepsPlayTimes
     DEF ClockMessageArrives, MidiClock, OutsideFrame, vars, queueVars, receiverVars,
         historyVars, QuietForPlayTimes
<1>7. CASE Tick
  <2>1. now' = now + 1 /\ UNCHANGED <<queue, session, sync, rpc, event, extrapolated, playAt>>
    BY <1>7 DEF Tick, OutsideFrame, queueVars, receiverVars, historyVars
  <2>2. now \in Nat /\ event.serverTimestampNs \in Int /\ extrapolated \in Int
    BY DEF TypeInv, TypeOK, Frames
  <2> QED BY <2>1, <2>2 DEF PlayInv, Admissible, OnTime, LateByClock, Stale, Emission
<1> QED BY <1>1, <1>2, <1>3, <1>4, <1>5, <1>6, <1>7 DEF Next

LEMMA PlayTimesAdmissible == Spec => []PlayInv
<1>1. Init => PlayInv
  BY DEF Init, PlayInv
<1> QED BY <1>1, InitType, NextKeepsType, InitTransport, NextKeepsTransport, InitSync,
           NextKeepsAge, NextKeepsSync, NextKeepsPlayTimes, PTL DEF Spec

\* Whichever timing model enqueue() asks, whatever becomes of the filter and the anchor
\* between the choice and the question, an event of this session is given a play time
\* between one jitter buffer and one jitter buffer plus twice the delay after it was
\* stamped (receiveScheduler.cpp:125-170).
THEOREM PlayTimesInEnvelope == Spec => []PlayoutEnvelope
<1>1. PlayInv => PlayoutEnvelope
  BY DEF PlayInv, PlayoutEnvelope, Admissible, OnTime
<1> QED BY <1>1, PlayTimesAdmissible, PTL

\* An event that reset() overtook in enqueue() is on time or late by the whole reading
\* of the server's clock, and nothing in between.
THEOREM StalePlayTimes == Spec => []StalePlayTime
<1>1. PlayInv => StalePlayTime
  BY DEF PlayInv, StalePlayTime, Admissible, OnTime, LateByClock
<1> QED BY <1>1, PlayTimesAdmissible, PTL
=============================================================================
