------------------------ MODULE RecoveryJournalProofs ------------------------
(***************************************************************************)
(* What encode() wrote is read back by decode() or rejected, for every     *)
(* width of the fields and every snapshot; and what was applied to an event *)
(* is extracted from it again.                                             *)
(***************************************************************************)
EXTENDS RecoveryJournal, TLAPS

\* A number of a field's width is its own remainder, and a remainder has the width.
LEMMA Remainder ==
    ASSUME NEW m \in Nat \ {0}, NEW n \in Nat
    PROVE  /\ n % m \in 0 .. m - 1
           /\ n < m => n % m = n
  <1>1. n % m \in 0 .. m - 1
    OBVIOUS
  <1>2. n < m => n % m = n
    OBVIOUS
  <1> QED
    BY <1>1, <1>2

\* The song position survives the field of 32 bits if it is not negative.
LEMMA SongPositionFits ==
    ASSUME NEW n \in SongPositions, n >= 0
    PROVE  /\ ToUint32(n) = n /\ n # NoSong
           /\ ToInt32(ToUint32(n)) = n
  <1>1. n \in Nat /\ SongModulus \in Nat \ {0} /\ SongModulus % 2 = 0
    BY JournalConstants DEF SongPositions
  <1>2. n < SongModulus \div 2 /\ SongModulus \div 2 < SongModulus
    BY <1>1 DEF SongPositions
  <1>3. n < SongModulus
    BY <1>1, <1>2
  <1>4. n % SongModulus = n
    BY <1>1, <1>3, Remainder
  <1> QED
    BY <1>1, <1>2, <1>4 DEF ToUint32, ToInt32, NoSong

-----------------------------------------------------------------------------
\* decode() accepts what encode() wrote exactly if the snapshot fits.
LEMMA EncodingDecodes ==
    ASSUME NEW s \in Snapshots
    PROVE  Decodes(Encode(s)) <=> Encodable(s)
  <1> DEFINE length == Len(s.recoveryCommands)
  <1>1. /\ s.journalType \in JournalTypes /\ s.hasSongPosition \in BOOLEAN
        /\ s.songPositionBeats \in SongPositions
        /\ s.recoveryCommands \in Seq(Nat)
    BY JournalConstants DEF Snapshots
  <1>2. length \in Nat /\ LengthModulus \in Nat \ {0}
    BY <1>1, JournalConstants
  <1>3. length = length % LengthModulus <=> length < LengthModulus
    <2>1. /\ length % LengthModulus \in 0 .. LengthModulus - 1
          /\ length < LengthModulus => length % LengthModulus = length
      BY <1>2, Remainder
    <2> HIDE DEF length
    <2> QED
      BY <1>2, <2>1
  <1>4. s.recoveryCommands = <<>> => length = 0 /\ length % LengthModulus = 0
    BY <1>1, <1>2, <1>3
  <1>5. /\ "HasSongPosition" \in FlagsOf(s) <=> s.hasSongPosition
        /\ "HasRecoveryCommands" \in FlagsOf(s) <=> s.recoveryCommands # <<>>
    BY DEF FlagsOf, FlagIf
  <1>6. (s.hasSongPosition => Encode(s).song # NoSong)
          <=> (s.hasSongPosition => s.songPositionBeats >= 0)
    BY <1>1, SongPositionFits DEF Encode
  <1> QED
    BY <1>1, <1>3, <1>4, <1>5, <1>6 DEF Decodes, Encode, Encodable, WireVersion

\* And what it returns then is that snapshot.
LEMMA DecodingOfEncoding ==
    ASSUME NEW s \in Snapshots, Encodable(s)
    PROVE  Decoded(Encode(s)) = Normal(s)
  <1>1. /\ s.transportRunning \in BOOLEAN /\ s.hasSongPosition \in BOOLEAN
        /\ s.transportDiscontinuity \in BOOLEAN
        /\ s.songPositionBeats \in SongPositions
        /\ s = [journalType |-> s.journalType, sequenceBase |-> s.sequenceBase,
                transportEpoch |-> s.transportEpoch, transportRunning |-> s.transportRunning,
                hasSongPosition |-> s.hasSongPosition,
                songPositionBeats |-> s.songPositionBeats,
                transportDiscontinuity |-> s.transportDiscontinuity,
                recoveryCommands |-> s.recoveryCommands]
    BY DEF Snapshots
  <1>2. /\ ("TransportRunning" \in FlagsOf(s)) = s.transportRunning
        /\ ("HasSongPosition" \in FlagsOf(s)) = s.hasSongPosition
        /\ ("TransportDiscontinuity" \in FlagsOf(s)) = s.transportDiscontinuity
        /\ "HasRecoveryCommands" \in FlagsOf(s) <=> s.recoveryCommands # <<>>
    BY <1>1 DEF FlagsOf, FlagIf
  <1>3. s.hasSongPosition => ToInt32(Encode(s).song) = s.songPositionBeats
    BY <1>1, SongPositionFits DEF Encode, Encodable
  <1> QED
    BY <1>1, <1>2, <1>3 DEF Decoded, Encode, Normal

-----------------------------------------------------------------------------
\* Where the journal of a sender is on its way.
Journey ==
    /\ sender \in Snapshots \cup {NoSender}
    /\ sender # NoSender => journal = Encode(sender)
    /\ stage = "rejected" => ~Decodes(journal)
    /\ snapshot # NoSnapshot => Decodes(journal) /\ snapshot = Decoded(journal)

LEMMA JourneyBegins == Init => Journey
  BY DEF Init, Journey

LEMMA JourneyGoesOn == Journey /\ [Next]_vars => Journey'
  <1> SUFFICES ASSUME Journey, [Next]_vars PROVE Journey'
    OBVIOUS
  <1>1. CASE Decode
    BY <1>1 DEF Journey, Decode
  <1>2. CASE Apply
    BY <1>2 DEF Journey, Apply
  <1>3. CASE Extract
    BY <1>3 DEF Journey, Extract
  <1>4. CASE ExtractWithoutBytes
    BY <1>4 DEF Journey, ExtractWithoutBytes
  <1>5. CASE UNCHANGED vars
    BY <1>5 DEF Journey, vars
  <1> QED
    BY <1>1, <1>2, <1>3, <1>4, <1>5 DEF Next

LEMMA JourneyReadsBack == Journey => ReadBackOrRejected
  <1> SUFFICES ASSUME Journey, sender # NoSender
               PROVE  /\ stage = "rejected" => ~Encodable(sender)
                      /\ snapshot # NoSnapshot => Encodable(sender) /\ snapshot = Normal(sender)
    BY DEF ReadBackOrRejected
  <1>1. sender \in Snapshots /\ journal = Encode(sender)
    BY DEF Journey
  <1>2. Decodes(journal) <=> Encodable(sender)
    BY <1>1, EncodingDecodes
  <1>3. Encodable(sender) => Decoded(journal) = Normal(sender)
    BY <1>1, DecodingOfEncoding
  <1> QED
    BY <1>2, <1>3 DEF Journey

\* For every width of the fields and every snapshot: decode() returns the snapshot
\* that encode() was given, or rejects it when it does not fit
\* (recoveryJournal.cpp:82-182).
THEOREM ReadBack == Spec => []ReadBackOrRejected
  <1>1. Init => Journey
    BY JourneyBegins
  <1>2. Journey /\ [Next]_vars => Journey'
    BY JourneyGoesOn
  <1>3. Journey => ReadBackOrRejected
    BY JourneyReadsBack
  <1> QED
    BY <1>1, <1>2, <1>3, PTL DEF Spec

-----------------------------------------------------------------------------
(* From the decoded journal through the event and out again.                *)

\* A remainder of a song position, and back.
LEMMA SongPositionTypes ==
    /\ \A n \in SongPositions : n >= 0 => ToUint32(n) \in 0 .. SongModulus - 1
    /\ \A n \in 0 .. SongModulus - 1 : ToInt32(n) \in SongPositions
    /\ -1 \in SongPositions /\ NoSong \in 0 .. SongModulus - 1
  <1>1. SongModulus \in Nat \ {0} /\ SongModulus % 2 = 0
    BY JournalConstants
  <1>2. SongModulus = 2 * (SongModulus \div 2) /\ SongModulus \div 2 \in Nat \ {0}
    BY <1>1
  <1>3. \A n \in SongPositions : n >= 0 => ToUint32(n) \in 0 .. SongModulus - 1
    BY <1>1, Remainder DEF ToUint32, SongPositions
  <1> QED
    BY <1>1, <1>2, <1>3 DEF ToInt32, SongPositions, NoSong

LEMMA EncodedIsJournal ==
    ASSUME NEW s \in Snapshots
    PROVE  Encode(s) \in Journals
  <1>1. /\ s.journalType \in JournalTypes /\ s.sequenceBase \in SequenceNumbers
        /\ s.transportEpoch \in Epochs /\ s.songPositionBeats \in SongPositions
        /\ s.recoveryCommands \in CommandBytes /\ s.recoveryCommands \in Seq(Nat)
    BY JournalConstants DEF Snapshots
  <1>2. Len(s.recoveryCommands) % LengthModulus \in 0 .. LengthModulus - 1
    <2>1. Len(s.recoveryCommands) \in Nat /\ LengthModulus \in Nat \ {0}
      BY <1>1, JournalConstants
    <2> QED
      BY <2>1, Remainder
  <1>3. FlagsOf(s) \in SUBSET Flags
    BY DEF FlagsOf, FlagIf, Flags
  <1>4. Encode(s).song \in 0 .. SongModulus - 1
    BY <1>1, SongPositionTypes DEF Encode
  <1>5. JournalTypes \subseteq Nat /\ WireVersion \in Nat
    BY DEF JournalTypes, NoneType, CheckpointType, DiscontinuityType, WireVersion
  <1> QED
    BY <1>1, <1>2, <1>3, <1>4, <1>5 DEF Encode, Journals

\* What decode() returns is a snapshot, and encodable but for its song position.
LEMMA DecodedIsSnapshot ==
    ASSUME NEW j \in Journals, Decodes(j)
    PROVE  /\ Decoded(j) \in Snapshots
           /\ Normal(Decoded(j)) = Decoded(j)
           /\ Len(Decoded(j).recoveryCommands) < LengthModulus
           /\ Decoded(j).recoveryCommands = j.commands
  <1>1. /\ j.song \in 0 .. SongModulus - 1 /\ j.commands \in CommandBytes
        /\ j.sequenceBase \in SequenceNumbers /\ j.transportEpoch \in Epochs
        /\ j.length \in 0 .. LengthModulus - 1 /\ LengthModulus \in Nat \ {0}
    BY JournalConstants DEF Journals
  <1>2. j.journalType \in JournalTypes /\ Len(j.commands) = j.length
    BY DEF Decodes
  <1>3. Decoded(j).recoveryCommands = j.commands
    <2>1. CASE "HasRecoveryCommands" \in j.flags
      BY <2>1 DEF Decoded
    <2>2. CASE "HasRecoveryCommands" \notin j.flags
      <3>1. j.commands \in Seq(Nat) /\ Len(j.commands) = 0
        BY <1>1, <1>2, <2>2, JournalConstants DEF Decodes
      <3>2. j.commands = <<>>
        BY <3>1
      <3> QED
        BY <2>2, <3>2 DEF Decoded
    <2> QED
      BY <2>1, <2>2
  <1>4. Decoded(j).songPositionBeats \in SongPositions
    BY <1>1, SongPositionTypes DEF Decoded
  <1>5. Decoded(j) \in Snapshots
    BY <1>1, <1>2, <1>3, <1>4 DEF Decoded, Snapshots
  <1>6. Normal(Decoded(j)) = Decoded(j)
    <2>1. ~Decoded(j).hasSongPosition => Decoded(j).songPositionBeats = -1
      BY DEF Decoded
    <2>2. [Decoded(j) EXCEPT !.songPositionBeats = Decoded(j).songPositionBeats] = Decoded(j)
      BY <1>5 DEF Snapshots
    <2> QED
      BY <2>1, <2>2 DEF Normal
  <1> QED
    BY <1>1, <1>2, <1>3, <1>5, <1>6

\* Merging a snapshot with the event it was applied to adds nothing.
LEMMA ExtractionAddsNothing ==
    ASSUME NEW s \in Snapshots, Normal(s) = s, Encodable(s), NEW n
    PROVE  ExtractFromEvent(ApplyToEvent(s, n)) = [s EXCEPT !.sequenceBase = n]
  <1> DEFINE e == ApplyToEvent(s, n)
  <1>1. Decoded(e.journalBytes) = s
    BY DecodingOfEncoding DEF ApplyToEvent
  <1>2. /\ e.sequence = n /\ e.journalType = s.journalType
        /\ e.transportRunning = s.transportRunning /\ e.hasSongPosition = s.hasSongPosition
        /\ e.transportDiscontinuity = s.transportDiscontinuity
        /\ e.transportEpoch = s.transportEpoch % EventEpochModulus
    BY DEF ApplyToEvent
  <1>3. ExtractedEpoch(s, e) = s.transportEpoch
    <2>1. 0 % EventEpochModulus = 0
      BY JournalConstants, Remainder
    <2> QED
      BY <1>2, <2>1 DEF ExtractedEpoch
  <1>4. /\ s.transportRunning \in BOOLEAN /\ s.hasSongPosition \in BOOLEAN
        /\ s.transportDiscontinuity \in BOOLEAN
    BY DEF Snapshots
  <1>5. /\ (s.transportRunning \/ e.transportRunning) = s.transportRunning
        /\ (s.hasSongPosition \/ e.hasSongPosition) = s.hasSongPosition
        /\ (s.transportDiscontinuity \/ e.transportDiscontinuity) = s.transportDiscontinuity
    BY <1>2, <1>4
  <1>6. ~(~s.hasSongPosition /\ e.hasSongPosition)
    BY <1>2
  <1> HIDE DEF e
  <1>7. ExtractFromEvent(e) =
          [s EXCEPT !.sequenceBase = n, !.journalType = s.journalType,
                    !.transportEpoch = s.transportEpoch,
                    !.transportRunning = s.transportRunning,
                    !.hasSongPosition = s.hasSongPosition,
                    !.songPositionBeats = s.songPositionBeats,
                    !.transportDiscontinuity = s.transportDiscontinuity]
    BY <1>1, <1>2, <1>3, <1>5, <1>6 DEF ExtractFromEvent
  <1> QED
    BY <1>7 DEF Snapshots, e

\* Where a journal is on its way through the receiver.
Forward ==
    /\ journal \in Journals
    /\ stage \in {"decoded", "applied", "extracted", "unextractable", "fieldsExtracted"} =>
          Decodes(journal) /\ snapshot = Decoded(journal)
    /\ stage \in {"applied", "extracted", "unextractable", "fieldsExtracted"} =>
          event = ApplyToEvent(snapshot, sequence)
    /\ stage = "unextractable" => ~Decodes(event.journalBytes)
    /\ stage = "extracted" =>
          Decodes(event.journalBytes) /\ extracted = ExtractFromEvent(event)
    /\ stage = "fieldsExtracted" => extracted = ExtractFields(event)

LEMMA ForwardBegins == Init => Forward
  BY EncodedIsJournal, JournalsAreReceived DEF Init, Forward

LEMMA ForwardGoesOn == Forward /\ [Next]_vars => Forward'
  <1> SUFFICES ASSUME Forward, [Next]_vars PROVE Forward'
    OBVIOUS
  <1>1. CASE Decode
    BY <1>1 DEF Forward, Decode
  <1>2. CASE Apply
    BY <1>2 DEF Forward, Apply
  <1>3. CASE Extract
    BY <1>3 DEF Forward, Extract
  <1>4. CASE ExtractWithoutBytes
    BY <1>4 DEF Forward, ExtractWithoutBytes
  <1>5. CASE UNCHANGED vars
    BY <1>5 DEF Forward, vars
  <1> QED
    BY <1>1, <1>2, <1>3, <1>4, <1>5 DEF Next

LEMMA ForwardExtracts == Forward => ExtractedAsApplied
  <1> SUFFICES ASSUME Forward, stage \in {"extracted", "unextractable"}
               PROVE  ExtractedAsApplied
    BY DEF ExtractedAsApplied
  <1>1. /\ snapshot \in Snapshots /\ Normal(snapshot) = snapshot
        /\ Len(snapshot.recoveryCommands) < LengthModulus
    BY DecodedIsSnapshot DEF Forward
  <1>2. event = ApplyToEvent(snapshot, sequence) /\ event.journalBytes = Encode(snapshot)
    BY DEF Forward, ApplyToEvent
  <1>3. Decodes(event.journalBytes) <=> Encodable(snapshot)
    BY <1>1, <1>2, EncodingDecodes
  <1>4. CASE stage = "unextractable"
    <2>1. snapshot.hasSongPosition /\ ~(snapshot.songPositionBeats >= 0)
      BY <1>1, <1>3, <1>4 DEF Forward, Encodable
    <2>2. snapshot.songPositionBeats \in Int
      BY <1>1, JournalConstants DEF Snapshots, SongPositions
    <2> QED
      BY <1>4, <2>1, <2>2 DEF ExtractedAsApplied
  <1>5. CASE stage = "extracted"
    BY <1>1, <1>2, <1>3, <1>5, ExtractionAddsNothing DEF Forward, ExtractedAsApplied
  <1> QED
    BY <1>4, <1>5

\* Whatever journal was decoded, extractFromEvent() returns what applyToEvent() was
\* given, or fails on a negative song position (recoveryJournal.cpp:184-237); that
\* the epoch of the event is narrower does no harm.
THEOREM Extraction == Spec => []ExtractedAsApplied
  BY ForwardBegins, ForwardGoesOn, ForwardExtracts, PTL DEF Spec

\* An event without journalBytes loses the commands and the upper half of the epoch
\* and nothing else, and gets a type if it had none, for every width of the fields
\* (recoveryJournal.cpp:206-257).
THEOREM FieldsAgree == Spec => []FieldsAgreeWithBytes
  <1>1. ASSUME Forward, stage = "fieldsExtracted", Decodes(event.journalBytes)
        PROVE  FieldsAgreeWithBytes
    <2>1. /\ snapshot \in Snapshots /\ Normal(snapshot) = snapshot
          /\ event = ApplyToEvent(snapshot, sequence)
          /\ event.journalBytes = Encode(snapshot)
      BY <1>1, DecodedIsSnapshot DEF Forward, ApplyToEvent
    <2>2. Encodable(snapshot)
      BY <1>1, <2>1, EncodingDecodes
    <2>3. extracted = ExtractFields(event)
      BY <1>1 DEF Forward
    <2>4. ExtractFromEvent(event) = [snapshot EXCEPT !.sequenceBase = sequence]
      BY <2>1, <2>2, ExtractionAddsNothing
    <2>5. ~snapshot.hasSongPosition => snapshot.songPositionBeats = -1
      BY <2>1 DEF Normal, Snapshots
    <2>6. /\ extracted.sequenceBase = sequence
          /\ extracted.transportRunning = snapshot.transportRunning
          /\ extracted.hasSongPosition = snapshot.hasSongPosition
          /\ extracted.songPositionBeats = snapshot.songPositionBeats
          /\ extracted.transportDiscontinuity = snapshot.transportDiscontinuity
          /\ extracted.transportEpoch = snapshot.transportEpoch % EventEpochModulus
          /\ extracted.journalType = IF snapshot.journalType = NoneType
                                     THEN TypeOfFields(event) ELSE snapshot.journalType
      BY <2>1, <2>3, <2>5 DEF ExtractFields, ApplyToEvent
    <2>7. /\ event.transportDiscontinuity = snapshot.transportDiscontinuity
          /\ event.transportRunning = snapshot.transportRunning
          /\ event.hasSongPosition = snapshot.hasSongPosition
          /\ event.transportEpoch = snapshot.transportEpoch % EventEpochModulus
      BY <2>1 DEF ApplyToEvent
    <2>8. extracted.journalType = NoneType =>
              /\ ~extracted.transportRunning /\ ~extracted.transportDiscontinuity
              /\ ~extracted.hasSongPosition /\ extracted.transportEpoch = 0
      BY <2>6, <2>7 DEF TypeOfFields, NoneType, CheckpointType, DiscontinuityType
    <2> QED
      BY <2>1, <2>4, <2>6, <2>8 DEF FieldsAgreeWithBytes, Snapshots
  <1>2. Forward => FieldsAgreeWithBytes
    BY <1>1 DEF FieldsAgreeWithBytes
  <1> QED
    BY <1>2, ForwardBegins, ForwardGoesOn, PTL DEF Spec

\* Whatever journal decode() accepts, the snapshot has all the commands that were in
\* it (recoveryJournal.cpp:163-180).
THEOREM CommandsWhole == Spec => []CommandsAreWhole
  <1>1. Journey /\ Forward => CommandsAreWhole
    BY DecodedIsSnapshot DEF Journey, Forward, CommandsAreWhole
  <1> QED
    BY <1>1, JourneyBegins, JourneyGoesOn, ForwardBegins, ForwardGoesOn, PTL DEF Spec
=============================================================================
