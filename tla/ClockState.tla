----------------------------- MODULE ClockState -----------------------------
(***************************************************************************)
(* The local transport state (clockState.h, clockState.cpp).  MIDI clock   *)
(* and transport messages of the local input device move it; the scheduler *)
(* reads it through snapshot().  Every method holds ClockState::mutex_ from *)
(* beginning to end, so every operation is one step.                       *)
(*                                                                         *)
(* Left out: quarterNoteCount and barBeatPulse (functions of pulseCount    *)
(* that only log lines read) and transportRatePpq, which is never changed. *)
(***************************************************************************)
EXTENDS Integers

CONSTANT SongPositions   \* the Song Position Pointer values that may arrive

ASSUME SongPositionsAreBeats == SongPositions \subseteq Nat

VARIABLE clock           \* running_, hasSongPosition_, pulseCount_, songPositionBeats_

PulsesPerBeat == 6       \* one SPP beat is six MIDI clocks

ClockStates == [running : BOOLEAN, hasSongPosition : BOOLEAN,
                pulseCount : Nat, songPositionBeats : Int]

StoppedClock == [running |-> FALSE, hasSongPosition |-> FALSE,
                 pulseCount |-> 0, songPositionBeats |-> -1]

-----------------------------------------------------------------------------
ClockInit == clock = StoppedClock

ClockReset == clock' = StoppedClock

\* snapshot(): a copy taken under the mutex.
ClockSnapshot == clock

\* Faulty variant: the song position is used without asking if there is one.
LocatedUnchecked(c) == [c EXCEPT !.pulseCount = c.songPositionBeats * PulsesPerBeat]

\* Start and Continue place the pulse counter at the last song position, if
\* there is one.
Located(c) ==
    IF c.hasSongPosition
    THEN [c EXCEPT !.pulseCount = c.songPositionBeats * PulsesPerBeat]
    ELSE c

TimingClock == clock' = [clock EXCEPT !.pulseCount = @ + 1]

\* Faulty variant: Start rewinds to zero whatever the song position is.
ClockStartIgnoringSongPosition ==
    clock' = [clock EXCEPT !.running = TRUE, !.pulseCount = 0]

ClockStart == clock' = Located([clock EXCEPT !.running = TRUE, !.pulseCount = 0])

ClockContinue == clock' = Located([clock EXCEPT !.running = TRUE])

ClockStop == clock' = [clock EXCEPT !.running = FALSE]

SongPositionPointer(beats) ==
    clock' = [clock EXCEPT !.hasSongPosition = TRUE,
                           !.songPositionBeats = beats,
                           !.pulseCount = beats * PulsesPerBeat]

\* The other system messages (Song Select, Tune Request, Active Sensing,
\* System Reset, a truncated Song Position Pointer) leave the state alone.
HandleClockMessage ==
    \/ TimingClock
    \/ ClockStart
    \/ ClockContinue
    \/ ClockStop
    \/ \E beats \in SongPositions : SongPositionPointer(beats)

-----------------------------------------------------------------------------
\* Once a song position is known, the pulse counter never stands before it:
\* clocks only add to it, and every relocation (Start, Continue, Song Position
\* Pointer) lands on it.  The release rule of ReceiveScheduler compares pulse
\* counters of two snapshots and is meaningful only under this.
PulseNeverBeforeSongPosition ==
    clock.hasSongPosition =>
        clock.pulseCount >= clock.songPositionBeats * PulsesPerBeat
=============================================================================
