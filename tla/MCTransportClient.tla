--------------------------- MODULE MCTransportClient ---------------------------
(***************************************************************************)
(* TransportClient for TLC.  Each connection has one of two streams: two   *)
(* good frames, the first longer than the shortest read, then a broken one *)
(* with a good one behind it, or a good frame and then a bad length.       *)
(***************************************************************************)
EXTENDS TransportClient

Good(size) == [size |-> size, kind |-> "good"]

SomeStreams ==
    {<<Good(2), Good(1), [size |-> 1, kind |-> "badFrame"], Good(1)>>,
     <<Good(2), [size |-> 1, kind |-> "badLength"], Good(1)>>}
=============================================================================
