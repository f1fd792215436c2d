----------------------------- MODULE FrameParsing -----------------------------
(***************************************************************************)
(* How TransportClient::receiveLoop() takes a frame apart that passed the  *)
(* tests of its header (transportClient.cpp:320-403), and where the event  *)
(* goes from there: to TimeSync or into the queue of ReceiveScheduler.     *)
(*                                                                         *)
(* Of the payload only its size and the two lengths in it are kept, each   *)
(* any number that two bytes can hold; a byte is its offset.  read collects *)
(* the offsets that the code has looked at.                                *)
(***************************************************************************)
EXTENDS Integers

CONSTANTS
    MaxPayload,    \* kMaxFrameSize less the header
    LengthValues,  \* values of a uint16_t length
    JrSize         \* bytes of a JR sample: two reserved, four and eight

ASSUME FrameConstants ==
    /\ MaxPayload \in Nat
    /\ LengthValues \subseteq Nat
    /\ JrSize \in Nat \ {0, 1}

Kinds == {"RawMidi", "JrClock", "RecoveryJournal"}

\* flags are the bits that are set; midiLen and journalLen are what the two bytes
\* read as that hold the lengths, if the payload has them.
Frames == [flags : SUBSET Kinds, payloadBytes : 0 .. MaxPayload,
           midiLen : LengthValues, journalLen : LengthValues]

VARIABLES frame,    \* the frame
          step,     \* the part of the code that comes next
          read,     \* the offsets read so far
          midi,     \* the bytes assigned to event.midiMessage
          journal,  \* the bytes assigned to event.journalBytes
          hasJr     \* event.hasJrClock

vars == <<frame, step, read, midi, journal, hasJr>>

Bytes(from, size) == from .. (from + size - 1)

JrOnly == frame.flags = {"JrClock"}
MidiWithJournal == frame.flags = {"RawMidi", "RecoveryJournal"}

MidiStart      == 2
JournalLenField == MidiStart + frame.midiLen
JournalStart   == JournalLenField + 2

Init ==
    /\ frame \in Frames
    /\ step = "kind" /\ read = {} /\ midi = {} /\ journal = {} /\ hasJr = FALSE

-----------------------------------------------------------------------------
\* Raw MIDI, and every combination of flags that the code does not know, is MIDI
\* from the first byte to the last.
WholePayload ==
    /\ step = "kind" /\ ~JrOnly /\ ~MidiWithJournal
    /\ midi' = Bytes(0, frame.payloadBytes)
    /\ read' = midi'
    /\ step' = "callback"
    /\ UNCHANGED <<frame, journal, hasJr>>

\* Faulty variant: one byte short.
JrSampleAlmostComplete == frame.payloadBytes >= JrSize - 1

JrSampleComplete == frame.payloadBytes >= JrSize

\* A payload that is too short for a sample leaves hasJrClock unset.
JrSample ==
    /\ step = "kind" /\ JrOnly
    /\ midi' = Bytes(0, frame.payloadBytes)
    /\ IF JrSampleComplete
       THEN hasJr' = TRUE /\ read' = midi' \cup Bytes(2, JrSize - 2)
       ELSE read' = midi' /\ UNCHANGED hasJr
    /\ step' = "callback"
    /\ UNCHANGED <<frame, journal>>

MidiLength ==
    /\ step = "kind" /\ MidiWithJournal
    /\ IF frame.payloadBytes < 4
       THEN step' = "broken" /\ UNCHANGED read
       ELSE step' = "journalLength" /\ read' = read \cup Bytes(0, 2)
    /\ UNCHANGED <<frame, midi, journal, hasJr>>

\* Faulty variant: the two bytes of the length are forgotten.
NoRoomForLength == JournalLenField > frame.payloadBytes

NoRoomForJournalLength == JournalLenField + 2 > frame.payloadBytes

JournalLength ==
    /\ step = "journalLength"
    /\ IF NoRoomForJournalLength
       THEN step' = "broken" /\ UNCHANGED read
       ELSE step' = "journal" /\ read' = read \cup Bytes(JournalLenField, 2)
    /\ UNCHANGED <<frame, midi, journal, hasJr>>

\* Faulty variant: the journal is taken to begin at its length.
JournalFitsFromLength == JournalLenField + frame.journalLen <= frame.payloadBytes

JournalFits == JournalStart + frame.journalLen <= frame.payloadBytes

\* A journal that does not decode stays in the event: RecoveryJournal.tla.
MidiAndJournal ==
    /\ step = "journal"
    /\ IF JournalFits
       THEN /\ midi' = Bytes(MidiStart, frame.midiLen)
            /\ journal' = Bytes(JournalStart, frame.journalLen)
            /\ read' = read \cup midi' \cup journal'
            /\ step' = "callback"
       ELSE step' = "broken" /\ UNCHANGED <<read, midi, journal>>
    /\ UNCHANGED <<frame, hasJr>>

\* Faulty variant: what has no MIDI flag is no MIDI.
NoMidiFlag == "RawMidi" \notin frame.flags

\* enqueue() returns on a JR event.
TimingOnly == hasJr

\* The receive callback of AppController, and what enqueue() makes of the event.
Callback ==
    /\ step = "callback"
    /\ step' = IF TimingOnly THEN "timeSync" ELSE "queue"
    /\ UNCHANGED <<frame, read, midi, journal, hasJr>>

Next ==
    \/ WholePayload
    \/ JrSample
    \/ MidiLength
    \/ JournalLength
    \/ MidiAndJournal
    \/ Callback

Spec == Init /\ [][Next]_vars

-----------------------------------------------------------------------------
(* Properties.                                                              *)

\* Whatever lengths the payload claims, the code reads no byte behind its end, and
\* a frame that is not broken off has its MIDI bytes and its journal apart from
\* each other and from the lengths (transportClient.cpp:332-393).
ReadsStayInside ==
    /\ read \subseteq Bytes(0, frame.payloadBytes)
    /\ midi \cap journal = {}
    /\ journal # {} => (midi \cup journal) \cap (Bytes(0, 2) \cup Bytes(JournalLenField, 2)) = {}

\* MIDI is never lost to the clock: a frame with the RawMidi flag that is not broken
\* off is queued, with every byte its length announces, and only a JR-only frame
\* goes to TimeSync (transportClient.cpp:328-403, receiveScheduler.cpp:98-103).
MidiIsQueued ==
    /\ step = "timeSync" => JrOnly
    /\ step = "queue" /\ "RawMidi" \in frame.flags =>
          midi = IF MidiWithJournal THEN Bytes(2, frame.midiLen)
                                    ELSE Bytes(0, frame.payloadBytes)
=============================================================================
