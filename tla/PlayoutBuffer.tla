---------------------------- MODULE PlayoutBuffer ----------------------------
(***************************************************************************)
(* What the receive path promises, without threads, clocks or condition    *)
(* variables: a buffer that accepts the events of a stream in stream order *)
(* and plays or discards each of them once, the earliest pending one first.*)
(*                                                                         *)
(* Events are stream positions.  The frame header carries only their       *)
(* sequence number, a uint32_t: positions of different wrap-arounds        *)
(* ("epochs") of that counter are not ordered against each other.          *)
(***************************************************************************)
EXTENDS Integers

CONSTANTS Events,        \* the stream positions
          SeqModulus     \* the range of the sequence number, 2^32 in the code

VARIABLES pending, played, discarded

bufferVars == <<pending, played, discarded>>

SameEpoch(i, j) == i \div SeqModulus = j \div SeqModulus

Accepted == pending \cup played \cup discarded

-----------------------------------------------------------------------------
BufferInit == pending = {} /\ played = {} /\ discarded = {}

Accept(i) ==
    /\ \A j \in Accepted : j < i
    /\ pending' = pending \cup {i}
    /\ UNCHANGED <<played, discarded>>

Play(i) ==
    /\ i \in pending
    /\ \A j \in pending : SameEpoch(i, j) => i <= j
    /\ pending' = pending \ {i}
    /\ played' = played \cup {i}
    /\ UNCHANGED discarded

Discard(events) ==
    /\ events \subseteq pending
    /\ pending' = pending \ events
    /\ discarded' = discarded \cup events
    /\ UNCHANGED played

BufferNext ==
    \/ \E i \in Events : Accept(i)
    \/ \E i \in pending : Play(i)
    \/ \E events \in SUBSET pending : Discard(events)

BufferSpec == BufferInit /\ [][BufferNext]_bufferVars

-----------------------------------------------------------------------------
\* No event is in two places, and none is decided twice.
OneFate ==
    /\ pending \cap played = {}
    /\ pending \cap discarded = {}
    /\ played \cap discarded = {}

\* Events are played in stream order, within one epoch of the sequence counter.
PlaysInStreamOrder ==
    [][\A i \in played' \ played, j \in played : SameEpoch(i, j) => j < i]_bufferVars
=============================================================================
