--------------------------- MODULE RecoveryJournal ---------------------------
(***************************************************************************)
(* The recovery journal (recoveryJournal.h, recoveryJournal.cpp): encode(), *)
(* decode(), applyToEvent() and extractFromEvent(), and the way of one     *)
(* journal through them: from a sender to the receive loop of              *)
(* TransportClient, into the event, and out of it again.                   *)
(*                                                                         *)
(* An encoded journal is a record of its fields.  What the properties are  *)
(* about is kept: the width of the fields, which flag says what, the marker *)
(* for "no song position", the length field beside the bytes that are      *)
(* really there.  The order of the bytes in a field is not.                *)
(***************************************************************************)
EXTENDS Integers, Sequences

CONSTANTS
    LengthModulus,      \* range of the uint16_t length, 2^16
    SongModulus,        \* range of the uint32_t song position, 2^32
    EventEpochModulus,  \* range of TimedMidiEvent::transportEpoch, 2^32
    Epochs,             \* values of the uint64_t Snapshot::transportEpoch
    SequenceNumbers,    \* values of the uint32_t sequence
    CommandBytes,       \* sequences of recovery commands
    ForeignJournals     \* journals that encode() need not have built

ASSUME JournalConstants ==
    /\ LengthModulus \in Nat \ {0}
    /\ SongModulus \in Nat \ {0} /\ SongModulus % 2 = 0
    /\ EventEpochModulus \in Nat \ {0}
    /\ Epochs \subseteq Nat
    /\ SequenceNumbers \subseteq Nat
    /\ CommandBytes \subseteq Seq(Nat)

WireVersion == 1
NoneType == 0
CheckpointType == 1
DiscontinuityType == 2
JournalTypes == {NoneType, CheckpointType, DiscontinuityType}

\* 0xFFFFFFFF.
NoSong == SongModulus - 1

\* int32_t.
SongPositions == -(SongModulus \div 2) .. (SongModulus \div 2 - 1)

Flags == {"TransportRunning", "HasSongPosition", "TransportDiscontinuity",
          "HasRecoveryCommands"}

Snapshots ==
    [journalType : JournalTypes, sequenceBase : SequenceNumbers, transportEpoch : Epochs,
     transportRunning : BOOLEAN, hasSongPosition : BOOLEAN,
     songPositionBeats : SongPositions, transportDiscontinuity : BOOLEAN,
     recoveryCommands : CommandBytes]

\* What decode() can be given: complete tells whether the fixed fields are all
\* there, and commands is what follows them.
Journals ==
    [complete : BOOLEAN, wireVersion : Nat, journalType : Nat, flags : SUBSET Flags,
     length : 0 .. LengthModulus - 1, sequenceBase : SequenceNumbers,
     transportEpoch : Epochs, song : 0 .. SongModulus - 1, commands : CommandBytes]

ASSUME JournalsAreReceived == ForeignJournals \subseteq Journals

-----------------------------------------------------------------------------
ToUint32(n) == n % SongModulus
ToInt32(n)  == IF n < SongModulus \div 2 THEN n ELSE n - SongModulus

FlagIf(flag, condition) == IF condition THEN {flag} ELSE {}

\* Faulty variant: the commands are not announced.
FlagsWithoutCommands(s) ==
    FlagIf("TransportRunning", s.transportRunning)
      \cup FlagIf("HasSongPosition", s.hasSongPosition)
      \cup FlagIf("TransportDiscontinuity", s.transportDiscontinuity)

FlagsOf(s) ==
    FlagIf("TransportRunning", s.transportRunning)
      \cup FlagIf("HasSongPosition", s.hasSongPosition)
      \cup FlagIf("TransportDiscontinuity", s.transportDiscontinuity)
      \cup FlagIf("HasRecoveryCommands", s.recoveryCommands # <<>>)

Encode(s) ==
    [complete |-> TRUE, wireVersion |-> WireVersion, journalType |-> s.journalType,
     flags |-> FlagsOf(s), length |-> Len(s.recoveryCommands) % LengthModulus,
     sequenceBase |-> s.sequenceBase, transportEpoch |-> s.transportEpoch,
     song |-> IF s.hasSongPosition /\ s.songPositionBeats >= 0
              THEN ToUint32(s.songPositionBeats) ELSE NoSong,
     commands |-> s.recoveryCommands]

\* Faulty variant: the length field is not compared with the bytes.
DecodesAnyLength(j) ==
    /\ j.complete
    /\ j.wireVersion = WireVersion
    /\ j.journalType \in JournalTypes
    /\ "HasSongPosition" \in j.flags => j.song # NoSong
    /\ "HasRecoveryCommands" \in j.flags \/ j.length = 0

\* decode() returns ok.
Decodes(j) ==
    /\ j.complete
    /\ j.wireVersion = WireVersion
    /\ j.journalType \in JournalTypes
    /\ "HasSongPosition" \in j.flags => j.song # NoSong
    /\ Len(j.commands) = j.length
    /\ "HasRecoveryCommands" \in j.flags \/ j.length = 0

\* The snapshot that it returns then.
Decoded(j) ==
    [journalType |-> j.journalType, sequenceBase |-> j.sequenceBase,
     transportEpoch |-> j.transportEpoch,
     transportRunning |-> "TransportRunning" \in j.flags,
     hasSongPosition |-> "HasSongPosition" \in j.flags,
     songPositionBeats |-> IF "HasSongPosition" \in j.flags THEN ToInt32(j.song) ELSE -1,
     transportDiscontinuity |-> "TransportDiscontinuity" \in j.flags,
     recoveryCommands |-> IF "HasRecoveryCommands" \in j.flags THEN j.commands ELSE <<>>]

\* applyToEvent() on the event of a frame; the fields of the event that have
\* nothing to do with recovery are left out.
ApplyToEvent(s, sequence) ==
    [sequence |-> sequence, journalBytes |-> Encode(s), journalType |-> s.journalType,
     transportEpoch |-> s.transportEpoch % EventEpochModulus,
     transportRunning |-> s.transportRunning, hasSongPosition |-> s.hasSongPosition,
     songPositionBeats |-> IF s.hasSongPosition THEN s.songPositionBeats ELSE -1,
     transportDiscontinuity |-> s.transportDiscontinuity]

\* Faulty variant: the event's epoch wins over the journal's.
EpochOfEvent(s, event) == event.transportEpoch

\* The journal's epoch, unless there is none.
ExtractedEpoch(s, event) ==
    IF s.transportEpoch = 0 THEN event.transportEpoch ELSE s.transportEpoch

\* extractFromEvent() on an event with journalBytes that decode.
ExtractFromEvent(event) ==
    LET s == Decoded(event.journalBytes)
        takesSong == ~s.hasSongPosition /\ event.hasSongPosition
    IN [s EXCEPT
          !.sequenceBase = event.sequence,
          !.journalType = IF @ = NoneType THEN event.journalType ELSE @,
          !.transportEpoch = ExtractedEpoch(s, event),
          !.transportRunning = @ \/ event.transportRunning,
          !.hasSongPosition = @ \/ event.hasSongPosition,
          !.songPositionBeats = IF takesSong THEN event.songPositionBeats ELSE @,
          !.transportDiscontinuity = @ \/ event.transportDiscontinuity]

\* Faulty variant: an epoch alone does not make a checkpoint.
TypeWithoutEpoch(event) ==
    IF event.transportDiscontinuity THEN DiscontinuityType
    ELSE IF event.transportRunning \/ event.hasSongPosition THEN CheckpointType
    ELSE NoneType

\* The type of an event that names none.
TypeOfFields(event) ==
    IF event.transportDiscontinuity THEN DiscontinuityType
    ELSE IF event.transportRunning \/ event.hasSongPosition \/ event.transportEpoch # 0
    THEN CheckpointType
    ELSE NoneType

\* extractFromEvent() on an event without journalBytes.
ExtractFields(event) ==
    [journalType |-> IF event.journalType = NoneType THEN TypeOfFields(event)
                     ELSE event.journalType,
     sequenceBase |-> event.sequence, transportEpoch |-> event.transportEpoch,
     transportRunning |-> event.transportRunning,
     hasSongPosition |-> event.hasSongPosition,
     songPositionBeats |-> IF event.hasSongPosition THEN event.songPositionBeats ELSE -1,
     transportDiscontinuity |-> event.transportDiscontinuity, recoveryCommands |-> <<>>]

-----------------------------------------------------------------------------
(* The way of one journal.                                                  *)

VARIABLES stage,     \* how far it is
          sender,    \* the snapshot that was encoded, or NoSender
          journal,   \* the encoded journal
          sequence,  \* of the frame that carries it
          snapshot,  \* what it was decoded to
          event,     \* the event it was applied to
          extracted  \* what was extracted from the event

vars == <<stage, sender, journal, sequence, snapshot, event, extracted>>

NoSender   == [none |-> "sender"]
NoSnapshot == [none |-> "snapshot"]
NoEvent    == [none |-> "event"]

\* It was encoded by encode(), or some other program built it, with any values in
\* its fields, the ones of journals to come included.
Init ==
    /\ stage = "received"
    /\ \/ sender \in Snapshots /\ journal = Encode(sender)
       \/ sender = NoSender /\ journal \in ForeignJournals
    /\ sequence \in SequenceNumbers
    /\ snapshot = NoSnapshot /\ event = NoEvent /\ extracted = NoSnapshot

Decode ==
    /\ stage = "received"
    /\ IF Decodes(journal)
       THEN stage' = "decoded" /\ snapshot' = Decoded(journal)
       ELSE stage' = "rejected" /\ UNCHANGED snapshot
    /\ UNCHANGED <<sender, journal, sequence, event, extracted>>

Apply ==
    /\ stage = "decoded"
    /\ stage' = "applied"
    /\ event' = ApplyToEvent(snapshot, sequence)
    /\ UNCHANGED <<sender, journal, sequence, snapshot, extracted>>

\* A journal that is rejected here makes extractFromEvent() return false.
Extract ==
    /\ stage = "applied"
    /\ IF Decodes(event.journalBytes)
       THEN stage' = "extracted" /\ extracted' = ExtractFromEvent(event)
       ELSE stage' = "unextractable" /\ UNCHANGED extracted
    /\ UNCHANGED <<sender, journal, sequence, snapshot, event>>

\* Or the event has the fields but not the bytes.
ExtractWithoutBytes ==
    /\ stage = "applied"
    /\ stage' = "fieldsExtracted" /\ extracted' = ExtractFields(event)
    /\ UNCHANGED <<sender, journal, sequence, snapshot, event>>

Next == Decode \/ Apply \/ Extract \/ ExtractWithoutBytes

Spec == Init /\ [][Next]_vars

-----------------------------------------------------------------------------
(* Properties.                                                              *)

\* The fields of a snapshot that do not contradict each other or their width.
Encodable(s) ==
    /\ s.hasSongPosition => s.songPositionBeats >= 0
    /\ Len(s.recoveryCommands) < LengthModulus

\* A snapshot without a song position has the position -1.
Normal(s) == [s EXCEPT !.songPositionBeats = IF s.hasSongPosition THEN @ ELSE -1]

\* What encode() wrote, decode() reads back or rejects, and never takes for another
\* snapshot: it rejects a negative song position and more commands than the length
\* field counts, and only these (recoveryJournal.cpp:82-182).
ReadBackOrRejected ==
    sender # NoSender =>
        /\ stage = "rejected" => ~Encodable(sender)
        /\ snapshot # NoSnapshot => Encodable(sender) /\ snapshot = Normal(sender)

\* No accepted journal carries commands that its snapshot does not have.
CommandsAreWhole ==
    snapshot # NoSnapshot => journal.commands = snapshot.recoveryCommands

\* The event carries the journal on: whatever reached the event is extracted again,
\* with the sequence number of the frame, unless the song position is negative; the
\* narrower epoch of the event does no harm, because the journal in the event has
\* the whole of it (recoveryJournal.cpp:184-237).
ExtractedAsApplied ==
    /\ stage = "unextractable" => snapshot.hasSongPosition /\ snapshot.songPositionBeats < 0
    /\ stage = "extracted" => extracted = [snapshot EXCEPT !.sequenceBase = sequence]

\* The two ways out of an event agree: without the bytes the commands and the upper
\* half of the epoch are lost, but no state is taken for another, and what has any
\* state is not taken for nothing (recoveryJournal.cpp:206-257).
FieldsAgreeWithBytes ==
    stage = "fieldsExtracted" /\ Decodes(event.journalBytes) =>
        LET whole == ExtractFromEvent(event) IN
        /\ extracted.sequenceBase = whole.sequenceBase
        /\ extracted.transportRunning = whole.transportRunning
        /\ extracted.hasSongPosition = whole.hasSongPosition
        /\ extracted.songPositionBeats = whole.songPositionBeats
        /\ extracted.transportDiscontinuity = whole.transportDiscontinuity
        /\ extracted.transportEpoch = whole.transportEpoch % EventEpochModulus
        /\ extracted.journalType = whole.journalType \/ whole.journalType = NoneType
        /\ extracted.journalType = NoneType =>
              /\ ~extracted.transportRunning /\ ~extracted.transportDiscontinuity
              /\ ~extracted.hasSongPosition /\ extracted.transportEpoch = 0

\* recoveryJournal.h lines 1-3: the snapshot "maps directly onto the
\* recovery-related fields already present in TimedMidiEvent".  The epoch of the
\* event is that of the snapshot.
EventHasTheEpoch == event # NoEvent => event.transportEpoch = snapshot.transportEpoch
=============================================================================
