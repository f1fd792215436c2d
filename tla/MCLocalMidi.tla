---------------------------- MODULE MCLocalMidi ----------------------------
(* One input device and two output devices, of which the first comes and   *)
(* goes.                                                                   *)
EXTENDS LocalMidi

SomeLists == [input  |-> {<<"keys">>},
              output |-> {<<"synth", "drums">>, <<"drums">>}]
=============================================================================
