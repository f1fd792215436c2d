-------------------------- MODULE FrameParsingProofs --------------------------
(***************************************************************************)
(* receiveLoop() reads no byte behind the end of a payload, for every size  *)
(* of a payload and every pair of lengths it claims.                       *)
(***************************************************************************)
EXTENDS FrameParsing, TLAPS

\* What the code knows at each of its steps: the tests it has passed are those that
\* the next read needs.
Progress ==
    /\ frame \in Frames
    /\ read \subseteq Bytes(0, frame.payloadBytes)
    /\ step = "journalLength" => frame.payloadBytes >= 4
    /\ step = "journal" => JournalStart <= frame.payloadBytes
    /\ journal # {} =>
          /\ midi = Bytes(MidiStart, frame.midiLen)
          /\ journal = Bytes(JournalStart, frame.journalLen)
    /\ step \in {"kind", "journalLength", "journal"} => journal = {}

LEMMA FrameTypes ==
    ASSUME frame \in Frames
    PROVE  frame.payloadBytes \in Nat /\ frame.midiLen \in Nat /\ frame.journalLen \in Nat
  <1>1. /\ frame.payloadBytes \in 0 .. MaxPayload
        /\ frame.midiLen \in LengthValues /\ frame.journalLen \in LengthValues
    BY DEF Frames
  <1>2. frame.payloadBytes \in Nat
    BY <1>1
  <1>3. LengthValues \subseteq Nat
    BY FrameConstants
  <1> QED
    BY <1>1, <1>2, <1>3

\* A slice that ends before the end of the payload is inside it.
LEMMA SliceInside ==
    ASSUME NEW from \in Nat, NEW size \in Nat, NEW total \in Nat, from + size <= total
    PROVE  Bytes(from, size) \subseteq Bytes(0, total)
  BY DEF Bytes

LEMMA InitProgress == Init => Progress
  BY DEF Init, Progress

LEMMA NextProgress == Progress /\ [Next]_vars => Progress'
  <1> SUFFICES ASSUME Progress, [Next]_vars PROVE Progress'
    OBVIOUS
  <1>0. /\ frame.payloadBytes \in Nat /\ frame.midiLen \in Nat /\ frame.journalLen \in Nat
        /\ JrSize \in Nat /\ JrSize >= 2
    BY FrameTypes, FrameConstants DEF Progress
  <1>1. CASE WholePayload
    BY <1>1 DEF WholePayload, Progress
  <1>2. CASE JrSample
    <2>1. JrSampleComplete => Bytes(2, JrSize - 2) \subseteq Bytes(0, frame.payloadBytes)
      <3> SUFFICES ASSUME JrSampleComplete
                   PROVE  Bytes(2, JrSize - 2) \subseteq Bytes(0, frame.payloadBytes)
        OBVIOUS
      <3>1. JrSize - 2 \in Nat /\ 2 + (JrSize - 2) <= frame.payloadBytes
        BY <1>0 DEF JrSampleComplete
      <3> QED
        BY <1>0, <3>1, SliceInside
    <2> QED
      BY <1>2, <2>1 DEF JrSample, Progress
  <1>3. CASE MidiLength
    <2>1. frame.payloadBytes >= 4 => Bytes(0, 2) \subseteq Bytes(0, frame.payloadBytes)
      BY <1>0, SliceInside
    <2>2. ~(frame.payloadBytes < 4) <=> frame.payloadBytes >= 4
      BY <1>0
    <2> QED
      BY <1>3, <2>1, <2>2 DEF MidiLength, Progress
  <1>4. CASE JournalLength
    <2>1. JournalLenField \in Nat /\ JournalStart = JournalLenField + 2
      BY <1>0 DEF JournalLenField, JournalStart, MidiStart
    <2>2. ~NoRoomForJournalLength =>
             /\ JournalStart <= frame.payloadBytes
             /\ Bytes(JournalLenField, 2) \subseteq Bytes(0, frame.payloadBytes)
      BY <1>0, <2>1, SliceInside DEF NoRoomForJournalLength
    <2>3. UNCHANGED frame /\ (JournalStart' = JournalStart)
      BY <1>4 DEF JournalLength, JournalStart, JournalLenField, MidiStart
    <2> QED
      BY <1>4, <2>2, <2>3 DEF JournalLength, Progress
  <1>5. CASE MidiAndJournal
    <2>1. MidiStart \in Nat /\ JournalStart \in Nat /\ MidiStart + frame.midiLen <= JournalStart
      BY <1>0 DEF JournalLenField, JournalStart, MidiStart
    <2>2. JournalFits =>
             /\ Bytes(MidiStart, frame.midiLen) \subseteq Bytes(0, frame.payloadBytes)
             /\ Bytes(JournalStart, frame.journalLen) \subseteq Bytes(0, frame.payloadBytes)
      BY <1>0, <2>1, SliceInside DEF JournalFits
    <2>3. /\ UNCHANGED frame /\ (JournalStart' = JournalStart) /\ (MidiStart' = MidiStart)
          /\ step = "journal"
      BY <1>5 DEF MidiAndJournal, JournalStart, JournalLenField, MidiStart
    <2> QED
      BY <1>5, <2>2, <2>3 DEF MidiAndJournal, Progress
  <1>6. CASE Callback
    BY <1>6 DEF Callback, TimingOnly, Progress, JournalStart, JournalLenField
  <1>7. CASE UNCHANGED vars
    BY <1>7 DEF vars, Progress, JournalStart, JournalLenField
  <1> QED
    BY <1>1, <1>2, <1>3, <1>4, <1>5, <1>6, <1>7 DEF Next

LEMMA ProgressIsSafe == Progress => ReadsStayInside
  <1> SUFFICES ASSUME Progress PROVE ReadsStayInside
    OBVIOUS
  <1>1. frame.midiLen \in Nat /\ frame.journalLen \in Nat
    BY FrameTypes DEF Progress
  <1>2. read \subseteq Bytes(0, frame.payloadBytes)
    BY DEF Progress
  <1>3. CASE journal = {}
    BY <1>2, <1>3 DEF ReadsStayInside
  <1>4. CASE journal # {}
    <2>1. /\ midi = MidiStart .. (MidiStart + frame.midiLen - 1)
          /\ journal = JournalStart .. (JournalStart + frame.journalLen - 1)
      BY <1>4 DEF Progress, Bytes
    <2>2. midi \cap journal = {}
      BY <1>1, <2>1 DEF JournalStart, JournalLenField, MidiStart
    <2>3. (midi \cup journal) \cap (Bytes(0, 2) \cup Bytes(JournalLenField, 2)) = {}
      BY <1>1, <2>1 DEF Bytes, JournalStart, JournalLenField, MidiStart
    <2> QED
      BY <1>2, <2>2, <2>3 DEF ReadsStayInside
  <1> QED
    BY <1>3, <1>4

\* For every payload size and every lengths in it: what the code reads lies in the
\* payload, and the MIDI bytes and the journal do not overlap
\* (transportClient.cpp:332-393).
THEOREM ParserStaysInside == Spec => []ReadsStayInside
  <1>1. Init => Progress
    BY InitProgress
  <1>2. Progress /\ [Next]_vars => Progress'
    BY NextProgress
  <1>3. Progress => ReadsStayInside
    BY ProgressIsSafe
  <1> QED
    BY <1>1, <1>2, <1>3, PTL DEF Spec

-----------------------------------------------------------------------------
\* Where the MIDI bytes of a frame are by the time the event is complete, and that
\* the event has a JR sample only if the frame is nothing else.
Routing ==
    /\ hasJr => JrOnly
    /\ step = "timeSync" => hasJr
    /\ step \in {"journalLength", "journal"} => MidiWithJournal
    /\ step \in {"callback", "queue"} /\ "RawMidi" \in frame.flags =>
          midi = IF MidiWithJournal THEN Bytes(2, frame.midiLen)
                                    ELSE Bytes(0, frame.payloadBytes)

LEMMA NextRouting == Routing /\ [Next]_vars => Routing'
  <1> SUFFICES ASSUME Routing, [Next]_vars PROVE Routing'
    OBVIOUS
  <1> USE DEF Routing, JrOnly, MidiWithJournal
  <1>1. CASE WholePayload
    BY <1>1 DEF WholePayload
  <1>2. CASE JrSample
    BY <1>2 DEF JrSample
  <1>3. CASE MidiLength
    BY <1>3 DEF MidiLength
  <1>4. CASE JournalLength
    BY <1>4 DEF JournalLength
  <1>5. CASE MidiAndJournal
    BY <1>5 DEF MidiAndJournal, MidiStart
  <1>6. CASE Callback
    BY <1>6 DEF Callback, TimingOnly
  <1>7. CASE UNCHANGED vars
    BY <1>7 DEF vars
  <1> QED
    BY <1>1, <1>2, <1>3, <1>4, <1>5, <1>6, <1>7 DEF Next

\* Whatever its flags, a frame that carries MIDI and is not broken off is queued with
\* all its MIDI bytes, and only a JR-only frame goes to TimeSync
\* (transportClient.cpp:328-403, receiveScheduler.cpp:98-103).
THEOREM MidiReachesQueue == Spec => []MidiIsQueued
  <1>1. Init => Routing
    BY DEF Init, Routing
  <1>2. Routing => MidiIsQueued
    BY DEF Routing, MidiIsQueued
  <1> QED
    BY <1>1, <1>2, NextRouting, PTL DEF Spec
=============================================================================
