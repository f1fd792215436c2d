------------------------- MODULE PlayoutBufferProofs -------------------------
(***************************************************************************)
(* What the abstract buffer guarantees, for any stream and any range of    *)
(* the sequence number.                                                    *)
(***************************************************************************)
EXTENDS PlayoutBuffer, TLAPS

\* Stream positions are numbers, and what is pending comes, within an epoch, after
\* what was played: Accept takes only newer events, Play only the earliest.
BufferInv ==
    /\ pending \subseteq Int /\ played \subseteq Int /\ discarded \subseteq Int
    /\ \A i \in pending, j \in played : SameEpoch(i, j) => j < i
    /\ OneFate

LEMMA BufferInitInv == BufferInit => BufferInv
  BY DEF BufferInit, BufferInv, OneFate

LEMMA BufferKeepsInv ==
    ASSUME Events \subseteq Int, BufferInv, [BufferNext]_bufferVars
    PROVE  BufferInv'
  <1> USE DEF BufferInv, OneFate
  <1>1. ASSUME NEW i \in Events, Accept(i) PROVE BufferInv'
    BY <1>1 DEF Accept, Accepted
  <1>2. ASSUME NEW i \in pending, Play(i) PROVE BufferInv'
    BY <1>2 DEF Play, SameEpoch
  <1>3. ASSUME NEW events \in SUBSET pending, Discard(events) PROVE BufferInv'
    BY <1>3 DEF Discard
  <1>4. CASE UNCHANGED bufferVars
    BY <1>4 DEF bufferVars
  <1> QED BY <1>1, <1>2, <1>3, <1>4 DEF BufferNext

\* Every event is pending, played or discarded, and only one of these: none is
\* played twice, and none both played and flushed.
THEOREM BufferOneFate ==
    ASSUME Events \subseteq Int
    PROVE  BufferSpec => []OneFate
  <1>1. BufferInv => OneFate
    BY DEF BufferInv
  <1> QED BY BufferInitInv, BufferKeepsInv, <1>1, PTL DEF BufferSpec

\* What is played is the earliest of its epoch that is pending, and later than all that
\* were played.
LEMMA StepPlaysInOrder ==
    ASSUME BufferInv, [BufferNext]_bufferVars,
           NEW i \in played' \ played, NEW j \in played, SameEpoch(i, j)
    PROVE  j < i
  <1>1. ASSUME NEW k \in pending, Play(k) PROVE j < i
    BY <1>1 DEF Play, BufferInv
  <1> QED BY <1>1 DEF BufferNext, Accept, Discard, bufferVars

\* Events leave the buffer in stream order, within one epoch of the counter.
THEOREM BufferOrder ==
    ASSUME Events \subseteq Int
    PROVE  BufferSpec => PlaysInStreamOrder
  <1>1. BufferInv /\ [BufferNext]_bufferVars
          => [\A i \in played' \ played, j \in played : SameEpoch(i, j) => j < i]_bufferVars
    BY StepPlaysInOrder
  <1> QED BY BufferInitInv, BufferKeepsInv, <1>1, PTL DEF BufferSpec, PlaysInStreamOrder
=============================================================================
