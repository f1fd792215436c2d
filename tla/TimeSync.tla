------------------------------ MODULE TimeSync ------------------------------
(***************************************************************************)
(* The receiver's model of the server clock (timeSync.h, timeSync.cpp):    *)
(* an anchor that pairs one server time with one local play time, and a    *)
(* filtered copy of the server clock kept up by JR clock frames.  Every    *)
(* method holds TimeSync::mutex_ from beginning to end, so every operation *)
(* is one step; "now" is steady_clock::now() read inside the method.       *)
(*                                                                         *)
(* Times are integers in an arbitrary unit.  The long double filter is     *)
(* kept in the same unit and rounded down.  jrServerClockNs_, a copy of    *)
(* the last sample that only snapshot() returns, is left out.              *)
(***************************************************************************)
EXTENDS Integers

CONSTANTS JitterBuffer,    \* initialJitterBuffer_ and kDefaultJitterBufferNs, 80 ms
          MaxFreshJrAge,   \* kMaxFreshJrAge, 250 ms
          FreqPpms         \* the drift estimates JR frames may carry

ASSUME TimingConstants == JitterBuffer \in Nat /\ MaxFreshJrAge \in Nat

\* README, Limitations: "the server currently reports a conservative zero drift
\* estimate in JR packets".  The server is not part of the repository.
ASSUME ZeroDrift == FreqPpms = {0}

VARIABLES now,             \* the receiver's steady clock
          sync             \* the private members of TimeSync

SyncStates == [anchorValid : BOOLEAN, firstServerTimestampNs : Int,
               anchorLocalPlayTime : Int,
               jrClockValid : BOOLEAN, jrFreqPpm : FreqPpms, jrLocalArrival : Int,
               jrFilterInitialized : BOOLEAN, filteredJrServerClockNs : Int,
               filteredJrLocalArrival : Int]

UnsyncedState == [anchorValid |-> FALSE, firstServerTimestampNs |-> 0,
                  anchorLocalPlayTime |-> 0,
                  jrClockValid |-> FALSE, jrFreqPpm |-> 0, jrLocalArrival |-> 0,
                  jrFilterInitialized |-> FALSE, filteredJrServerClockNs |-> 0,
                  filteredJrLocalArrival |-> 0]

-----------------------------------------------------------------------------
SyncInit == sync = UnsyncedState

SyncReset == sync' = UnsyncedState

\* schedulingMode(kMaxFreshJrAge)
SchedulingMode ==
    IF sync.jrClockValid /\ now - sync.jrLocalArrival <= MaxFreshJrAge
    THEN "FreshJr"
    ELSE IF sync.anchorValid THEN "Anchor" ELSE "None"

\* anchorLocalPlayTime_ is set once, by the first JR sample or, if computePlayTime
\* finds no anchor, by the first event it is asked about.
Anchored(s, serverTimestampNs) ==
    IF s.anchorValid
    THEN s
    ELSE [s EXCEPT !.anchorValid = TRUE,
                   !.firstServerTimestampNs = serverTimestampNs,
                   !.anchorLocalPlayTime = now + JitterBuffer]

\* Faulty variant: the prediction forgets the local time that passed.
FilteredClockWithoutElapsed(serverClockNs) ==
    LET predicted == sync.filteredJrServerClockNs
    IN  IF sync.jrFilterInitialized
        THEN predicted + ((serverClockNs - predicted) \div 5)
        ELSE serverClockNs

\* The filter advances by the local time that passed since the last sample and
\* then takes one fifth (alpha = 0.2) of the error against the new sample.
FilteredClock(serverClockNs) ==
    LET predicted == sync.filteredJrServerClockNs
                       + (now - sync.filteredJrLocalArrival)
    IN  IF sync.jrFilterInitialized
        THEN predicted + ((serverClockNs - predicted) \div 5)
        ELSE serverClockNs

UpdateJrClock(serverClockNs, freqPpm) ==
    sync' = Anchored([sync EXCEPT !.jrClockValid = TRUE,
                                  !.jrFreqPpm = freqPpm,
                                  !.jrLocalArrival = now,
                                  !.jrFilterInitialized = TRUE,
                                  !.filteredJrServerClockNs = FilteredClock(serverClockNs),
                                  !.filteredJrLocalArrival = now],
                     serverClockNs)

\* A local duration on the server's clock, and back: rate = 1 + ppm / 1e6.
AtServerRate(duration) == duration + (duration * sync.jrFreqPpm) \div 1000000
AtLocalRate(duration)  == (duration * 1000000) \div (1000000 + sync.jrFreqPpm)

\* uint64_t extrapolate_ns(): what the server clock reads now, clamped at 0.
ExtrapolatedServerClock ==
    LET advanced == sync.filteredJrServerClockNs
                      + AtServerRate(now - sync.filteredJrLocalArrival)
    IN  IF sync.jrClockValid /\ sync.jrFilterInitialized /\ advanced > 0
        THEN advanced
        ELSE 0

\* time_point extrapolate_ns(offsetNs): the local time offsetNs from now.
LocalTimeAtOffset(offsetNs) ==
    IF sync.jrClockValid THEN now + AtLocalRate(offsetNs) ELSE now + offsetNs

\* The value computePlayTime returns; its effect on the members is
\* sync' = Anchored(sync, serverTimestampNs).
PlayTime(serverTimestampNs) ==
    IF ~sync.anchorValid
    THEN now + JitterBuffer
    ELSE IF serverTimestampNs < sync.firstServerTimestampNs
         THEN now
         ELSE sync.anchorLocalPlayTime
                + (serverTimestampNs - sync.firstServerTimestampNs)
=============================================================================
