-------------------------- MODULE MCRecoveryJournal --------------------------
(***************************************************************************)
(* RecoveryJournal for TLC, its fields scaled down: lengths of 0 to 2, song *)
(* positions of three bits, epochs of which the larger ones do not fit into *)
(* the event.                                                              *)
(***************************************************************************)
EXTENDS RecoveryJournal

SomeCommands == {<<>>, <<1>>, <<1, 1>>, <<2, 1, 1>>, <<2, 1, 1, 1>>}

ReceivedJournals ==
    [complete : BOOLEAN, wireVersion : {WireVersion, WireVersion + 1}, journalType : 0 .. 3,
     flags : SUBSET Flags, length : 0 .. LengthModulus - 1, sequenceBase : {1},
     transportEpoch : Epochs, song : 0 .. SongModulus - 1, commands : SomeCommands]
=============================================================================
