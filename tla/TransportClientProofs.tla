------------------------ MODULE TransportClientProofs ------------------------
(***************************************************************************)
(* disconnect() frees the TLS session under no thread that uses it.  The   *)
(* argument needs both of its waits: the join covers the receive thread,   *)
(* whose life ThreadInv ties to the steps of the owner, and sendMutex_     *)
(* covers the sender, which SessionInv ties to connected_.                 *)
(*                                                                         *)
(* The callback gets the frames of the stream whole and in order.  That is *)
(* an argument about the place of a frame among the bytes, by induction    *)
(* over the frames, and about what the receive thread has read of it.      *)
(***************************************************************************)
EXTENDS TransportClient, TLAPS, WellFoundedInduction

\* The mutex has the holder that its users think.
LockInv ==
    /\ sendMutex = "owner" <=> opc = "free"
    /\ sendMutex = "sender" <=> spc \in {"test", "write"}

\* The receive thread lives from startReceiveLoop() to the join, and has a session.
ThreadInv ==
    /\ receiveThread = "running"
         <=> rpc \in {"loop", "test", "read", "parse", "callback"}
    /\ receiveThread # "none" => opc \in {"idle", "flags", "join"}
    /\ receiveThread = "running" => ssl

\* connected_ means that there is a session: disconnect() clears it first.
SessionInv ==
    /\ opc \in {"id", "connected", "start"} => ssl
    /\ connected => ssl
    /\ opc \in {"join", "lock", "free"} => ~connected
    /\ spc = "write" => ssl

Inv == LockInv /\ ThreadInv /\ SessionInv

LEMMA InitInv == Init => Inv
  BY DEF Init, Inv, LockInv, ThreadInv, SessionInv

\* The owner changes all three; its last step frees the session when the receive
\* thread is joined and the mutex is its own.
LEMMA OwnerKeepsInv ==
    ASSUME Inv, InitSslContext \/ Disconnect \/ OwnerStep
    PROVE  Inv'
  <1> USE DEF Inv, LockInv, ThreadInv, SessionInv, OwnerFrame, memberVars, receiverVars,
              senderVars, networkVars, historyVars
  <1>1. CASE InitSslContext
    BY <1>1 DEF InitSslContext
  <1>2. CASE Disconnect
    BY <1>2 DEF Disconnect
  <1>3. CASE CreateSocketAndConnect
    BY <1>3 DEF CreateSocketAndConnect
  <1>4. CASE SslConnect
    BY <1>4 DEF SslConnect
  <1>5. CASE ReceiveClientId
    BY <1>5 DEF ReceiveClientId
  <1>6. CASE SetConnected
    BY <1>6 DEF SetConnected
  <1>7. CASE StartReceiveLoop
    BY <1>7 DEF StartReceiveLoop
  <1>8. CASE DisconnectFlags
    BY <1>8 DEF DisconnectFlags
  <1>9. CASE DisconnectJoin
    BY <1>9 DEF DisconnectJoin
  <1>10. CASE DisconnectLock
    BY <1>10 DEF DisconnectLock
  <1>11. CASE DisconnectFree
    BY <1>11 DEF DisconnectFree
  <1> QED
    BY <1>1, <1>2, <1>3, <1>4, <1>5, <1>6, <1>7, <1>8, <1>9, <1>10, <1>11 DEF OwnerStep

\* The receive thread moves while it is alive, or ends and takes connected_ with it.
LEMMA ReceiverKeepsInv == ASSUME Inv, ReceiverStep PROVE Inv'
  <1> USE DEF Inv, LockInv, ThreadInv, SessionInv, ReceiverFrame, EndOfConnection, senderVars
  <1>1. CASE ReceiveLoopTest
    BY <1>1 DEF ReceiveLoopTest
  <1>2. CASE ReadExactTest
    BY <1>2 DEF ReadExactTest
  <1>3. CASE SslRead
    BY <1>3 DEF SslRead
  <1>4. CASE SslReadTimeout
    BY <1>4 DEF SslReadTimeout
  <1>5. CASE SslReadFails
    BY <1>5 DEF SslReadFails
  <1>6. CASE ParseLength
    BY <1>6 DEF ParseLength
  <1>7. CASE ParseFrame
    BY <1>7 DEF ParseFrame
  <1>8. CASE CallbackReturns
    BY <1>8 DEF CallbackReturns
  <1> QED
    BY <1>1, <1>2, <1>3, <1>4, <1>5, <1>6, <1>7, <1>8 DEF ReceiverStep

\* The sender writes only under the mutex and after it has seen connected_.
LEMMA SenderKeepsInv == ASSUME Inv, SendMidiMessage \/ SenderStep PROVE Inv'
  <1> USE DEF Inv, LockInv, ThreadInv, SessionInv, SenderFrame, receiverVars
  <1>1. CASE SendMidiMessage
    BY <1>1 DEF SendMidiMessage
  <1>2. CASE SendLock
    BY <1>2 DEF SendLock
  <1>3. CASE WriteAllTest
    BY <1>3 DEF WriteAllTest
  <1>4. CASE SslWrite
    BY <1>4 DEF SslWrite
  <1>5. CASE SslWriteFails
    BY <1>5 DEF SslWriteFails
  <1> QED
    BY <1>1, <1>2, <1>3, <1>4, <1>5 DEF SenderStep

LEMMA NetworkKeepsInv ==
    ASSUME Inv, ServerAnswers \/ BytesArrive \/ ServerReads \/ PeerCloses \/ UNCHANGED vars
    PROVE  Inv'
  BY DEF Inv, LockInv, ThreadInv, SessionInv, ServerAnswers, BytesArrive, ServerReads,
         PeerCloses, vars, memberVars, receiverVars, senderVars, networkVars, historyVars

LEMMA InvGivesSafety == Inv => SessionAliveWhileUsed
  BY DEF Inv, ThreadInv, SessionInv, SessionAliveWhileUsed

\* Whatever the stream, the window and the interleaving: no thread is in SSL_read or
\* SSL_write on a session that disconnect() has freed (transportClient.cpp:176-206).
THEOREM SessionAlive == Spec => []SessionAliveWhileUsed
  <1>1. Init => Inv
    BY InitInv
  <1>2. Inv /\ [Next]_vars => Inv'
    BY OwnerKeepsInv, ReceiverKeepsInv, SenderKeepsInv, NetworkKeepsInv DEF Next
  <1>3. Inv => SessionAliveWhileUsed
    BY InvGivesSafety
  <1> QED
    BY <1>1, <1>2, <1>3, PTL DEF Spec

-----------------------------------------------------------------------------
(* Sequences put end to end.  FlattenSeq recurses over a sequence: what it *)
(* is after one more element follows by induction, which the least element *)
(* of a set of numbers gives without a predicate as a parameter.           *)

\* The library says that < is well-founded on Nat, hence that a set of numbers has a least.
LEMMA LeastElement ==
    ASSUME NEW T \in SUBSET Nat, T # {}
    PROVE  \E x \in T : \A y \in T : x <= y
  <1> DEFINE R == {s \in Nat \X Nat : s[1] < s[2]}
  <1>1. IsWellFoundedOn(R, Nat)
    BY NatLessThanWellFounded DEF OpToRel
  <1>2. PICK x \in T : \A y \in T : <<y, x>> \notin R
    <2> HIDE DEF R
    <2> QED BY <1>1, WFMin
  <1>3. ASSUME NEW y \in T PROVE x <= y
    <2>1. <<y, x>> \in Nat \X Nat /\ <<y, x>>[1] = y /\ <<y, x>>[2] = x
      OBVIOUS
    <2> QED BY <1>2, <2>1
  <1> QED BY <1>3

\* Without an operator parameter: a set that holds 0 and the successor of each member.
LEMMA Induction ==
    ASSUME NEW S \in SUBSET Nat, 0 \in S, \A n \in S : n + 1 \in S
    PROVE  S = Nat
  <1>1. SUFFICES ASSUME Nat \ S # {} PROVE FALSE
    OBVIOUS
  <1>2. PICK x \in Nat \ S : \A y \in Nat \ S : x <= y
    BY <1>1, LeastElement
  <1>3. x - 1 \in Nat /\ (x - 1) + 1 = x
    BY <1>2
  <1>4. x - 1 \in S
    BY <1>2, <1>3
  <1> QED BY <1>2, <1>3, <1>4

\* f joins the first n sequences of s one after the other.
Joins(f, s, n) == f = [i \in 1 .. n |-> IF i = 1 THEN s[i] ELSE f[i - 1] \o s[i]]

LEMMA JoinsAt ==
    ASSUME NEW s, NEW n \in Nat, NEW f, Joins(f, s, n), NEW i \in 1 .. n
    PROVE  f[i] = IF i = 1 THEN s[i] ELSE f[i - 1] \o s[i]
  BY DEF Joins

LEMMA JoinExists ==
    ASSUME NEW s, NEW n \in Nat
    PROVE  \E f : Joins(f, s, n)
  <1> DEFINE S == {m \in Nat : \E f : Joins(f, s, m)}
  <1>1. 0 \in S
    <2>1. Joins([i \in 1 .. 0 |-> 0], s, 0)
      BY DEF Joins
    <2> QED BY <2>1
  <1>2. ASSUME NEW m \in S PROVE m + 1 \in S
    <2>1. PICK f : Joins(f, s, m)
      OBVIOUS
    <2> DEFINE g == [i \in 1 .. m + 1 |->
                       IF i <= m THEN f[i] ELSE IF i = 1 THEN s[i] ELSE f[i - 1] \o s[i]]
    <2>2. ASSUME NEW i \in 1 .. m + 1
          PROVE  g[i] = IF i = 1 THEN s[i] ELSE g[i - 1] \o s[i]
      <3>1. CASE i <= m
        <4>1. f[i] = IF i = 1 THEN s[i] ELSE f[i - 1] \o s[i]
          <5>1. i \in 1 .. m
            BY <3>1
          <5> QED BY <2>1, <5>1, JoinsAt
        <4> QED BY <3>1, <4>1
      <3>2. CASE i = m + 1
        BY <3>2
      <3> QED BY <3>1, <3>2
    <2>3. Joins(g, s, m + 1)
      <3>1. g = [i \in 1 .. m + 1 |-> g[i]]
        OBVIOUS
      <3> HIDE DEF g
      <3> QED BY <2>2, <3>1 DEF Joins
    <2> QED BY <2>3
  <1> HIDE DEF S
  <1>3. S = Nat
    BY <1>1, <1>2, Induction DEF S
  <1> QED BY <1>3 DEF S

LEMMA JoinsAgree ==
    ASSUME NEW s, NEW t, NEW n \in Nat, NEW m \in Nat, n <= m, \A i \in 1 .. n : s[i] = t[i],
           NEW f, Joins(f, s, n), NEW g, Joins(g, t, m)
    PROVE  \A i \in 1 .. n : f[i] = g[i]
  <1> DEFINE S == {k \in Nat : k \in 1 .. n => f[k] = g[k]}
  <1>1. 0 \in S
    OBVIOUS
  <1>2. ASSUME NEW k \in S PROVE k + 1 \in S
    <2>1. SUFFICES ASSUME k + 1 \in 1 .. n PROVE f[k + 1] = g[k + 1]
      OBVIOUS
    <2>2. f[k + 1] = IF k + 1 = 1 THEN s[k + 1] ELSE f[(k + 1) - 1] \o s[k + 1]
      BY <2>1, JoinsAt
    <2>3. g[k + 1] = IF k + 1 = 1 THEN t[k + 1] ELSE g[(k + 1) - 1] \o t[k + 1]
      <3>1. k + 1 \in 1 .. m
        BY <2>1
      <3> QED BY <3>1, JoinsAt
    <2>4. (k + 1) - 1 = k
      OBVIOUS
    <2> QED BY <2>1, <2>2, <2>3, <2>4
  <1> HIDE DEF S
  <1>3. S = Nat
    BY <1>1, <1>2, Induction DEF S
  <1> QED BY <1>3 DEF S

LEMMA FlattenJoins ==
    ASSUME NEW s, NEW n \in Nat \ {0}, Len(s) = n
    PROVE  \E f : Joins(f, s, n) /\ FlattenSeq(s) = f[n]
  <1> DEFINE f == CHOOSE h : Joins(h, s, n)
  <1>1. Joins(f, s, n)
    BY JoinExists
  <1>2. FlattenSeq(s) = f[n]
    BY DEF FlattenSeq, Joins
  <1> QED BY <1>1, <1>2

\* FlattenSeq is a recursive function in a LET: this is the equation it is used by.
LEMMA FlattenAppend ==
    ASSUME NEW n \in Nat, NEW W, NEW T, \A i \in 1 .. n + 1 : W[i] \in Seq(T)
    PROVE  FlattenSeq([i \in 1 .. n + 1 |-> W[i]]) = FlattenSeq([i \in 1 .. n |-> W[i]]) \o W[n + 1]
  <1> DEFINE s == [i \in 1 .. n |-> W[i]]
             t == [i \in 1 .. n + 1 |-> W[i]]
  <1>1. Len(s) = n /\ Len(t) = n + 1 /\ n + 1 \in Nat \ {0}
    OBVIOUS
  <1>2. t[n + 1] = W[n + 1] /\ (n + 1) - 1 = n /\ n + 1 \in 1 .. n + 1
    OBVIOUS
  <1>3. \A i \in 1 .. n : s[i] = t[i]
    OBVIOUS
  <1>4. n = 0 => s = <<>>
    OBVIOUS
  <1> HIDE DEF s, t
  <1>5. PICK g : Joins(g, t, n + 1) /\ FlattenSeq(t) = g[n + 1]
    BY <1>1, FlattenJoins
  <1>6. g[n + 1] = IF n + 1 = 1 THEN t[n + 1] ELSE g[n] \o t[n + 1]
    BY <1>2, <1>5 DEF Joins
  <1>7. CASE n = 0
    <2>1. FlattenSeq(s) = <<>>
      BY <1>1, <1>4, <1>7 DEF FlattenSeq
    <2>2. <<>> \o W[n + 1] = W[n + 1]
      BY <1>2
    <2> QED BY <1>2, <1>5, <1>6, <1>7, <2>1, <2>2 DEF s, t
  <1>8. CASE n # 0
    <2>1. PICK f : Joins(f, s, n) /\ FlattenSeq(s) = f[n]
      BY <1>1, <1>8, FlattenJoins
    <2>2. \A i \in 1 .. n : f[i] = g[i]
      <3>1. n + 1 \in Nat /\ n <= n + 1
        OBVIOUS
      <3> QED BY <1>3, <1>5, <2>1, <3>1, JoinsAgree
    <2>3. f[n] = g[n]
      BY <1>8, <2>2
    <2>4. FlattenSeq(t) = FlattenSeq(s) \o t[n + 1]
      <3>1. n + 1 # 1
        BY <1>8
      <3>2. g[n + 1] = g[n] \o t[n + 1]
        BY <1>6, <3>1
      <3> QED BY <1>5, <2>1, <2>3, <3>2, Zenon
    <2> QED BY <1>2, <2>4 DEF s, t
  <1> QED BY <1>7, <1>8
-----------------------------------------------------------------------------
(* The bytes on the wire: frame f lies behind the first f - 1 frames,      *)
(* whatever comes after it.                                                *)

\* What TypeOK says of the stream.
StreamOK == stream \in Seq([size : Nat \ {0}, kind : {"good", "badLength", "badFrame"}])

\* The bytes of the first n frames, and how many they are.
WireTo(n) == FlattenSeq([f \in 1 .. n |-> WireOf(f)])
Boundary(n) == Len(WireTo(n))

\* Sequences put together, and their elements.
LEMMA Concat ==
    ASSUME NEW T, NEW s \in Seq(T), NEW t \in Seq(T)
    PROVE  /\ s \o t \in Seq(T) /\ Len(s \o t) = Len(s) + Len(t)
           /\ \A p \in 1 .. Len(s) : (s \o t)[p] = s[p]
           /\ \A p \in 1 .. Len(t) : (s \o t)[Len(s) + p] = t[p]
  OBVIOUS

LEMMA ElementOf ==
    ASSUME NEW T, NEW s \in Seq(T), NEW i \in 1 .. Len(s)
    PROVE  s[i] \in T
  OBVIOUS

\* A frame on the wire is its length prefix and its bytes.
LEMMA BytesOfFrame ==
    ASSUME StreamOK, NEW f \in 1 .. Len(stream)
    PROVE  /\ stream[f].size \in Nat \ {0}
           /\ WireOf(f) \in Seq(Nat \X Nat) /\ Len(WireOf(f)) = 1 + stream[f].size
           /\ \A k \in 0 .. stream[f].size : WireOf(f)[k + 1] = <<f, k>>
           /\ FrameBytes(f) \in Seq(Nat \X Nat) /\ Len(FrameBytes(f)) = stream[f].size
  <1> DEFINE size == stream[f].size
  <1>1. size \in Nat \ {0} /\ f \in Nat
    <2>1. Len(stream) \in Nat
      BY DEF StreamOK
    <2>2. stream[f] \in [size : Nat \ {0}, kind : {"good", "badLength", "badFrame"}]
      BY ElementOf, Zenon DEF StreamOK
    <2> QED BY <2>1, <2>2
  <1> HIDE DEF size
  <1>2. FrameBytes(f) = [k \in 1 .. size |-> <<f, k>>]
    BY DEF FrameBytes, size
  <1>3. FrameBytes(f) \in Seq(Nat \X Nat) /\ Len(FrameBytes(f)) = size
    BY <1>1, <1>2
  <1>4. <<<<f, 0>>>> \in Seq(Nat \X Nat) /\ Len(<<<<f, 0>>>>) = 1 /\ <<<<f, 0>>>>[1] = <<f, 0>>
    BY <1>1
  <1>5. WireOf(f) \in Seq(Nat \X Nat) /\ Len(WireOf(f)) = 1 + size
    BY <1>1, <1>3, <1>4 DEF WireOf
  <1>6. ASSUME NEW k \in 0 .. size PROVE WireOf(f)[k + 1] = <<f, k>>
    <2>1. CASE k = 0
      BY <1>3, <1>4, <1>5, <2>1 DEF WireOf
    <2>2. CASE k # 0
      <3>1. k \in 1 .. size /\ k + 1 \in 1 .. 1 + size /\ (k + 1) - 1 = k /\ k + 1 > 1
        BY <1>1, <2>2
      <3>2. WireOf(f)[k + 1] = FrameBytes(f)[k]
        BY <1>3, <1>4, <1>5, <3>1 DEF WireOf
      <3> QED BY <1>2, <3>1, <3>2
    <2> QED BY <2>1, <2>2
  <1> QED BY <1>1, <1>3, <1>5, <1>6 DEF size

\* The wire of one frame more.
LEMMA WireGrows ==
    ASSUME StreamOK, NEW n \in Nat, n + 1 <= Len(stream)
    PROVE  WireTo(n + 1) = WireTo(n) \o WireOf(n + 1)
  <1> DEFINE W == [f \in 1 .. n + 1 |-> WireOf(f)]
  <1>0. Len(stream) \in Nat
    BY DEF StreamOK
  <1>1. \A i \in 1 .. n + 1 : W[i] \in Seq(Nat \X Nat)
    BY <1>0, BytesOfFrame
  <1>2. /\ [i \in 1 .. n + 1 |-> W[i]] = [f \in 1 .. n + 1 |-> WireOf(f)]
        /\ [i \in 1 .. n |-> W[i]] = [f \in 1 .. n |-> WireOf(f)]
        /\ W[n + 1] = WireOf(n + 1)
    OBVIOUS
  <1> HIDE DEF W
  <1> QED BY <1>1, <1>2, FlattenAppend DEF WireTo

LEMMA WireTypes ==
    ASSUME StreamOK, NEW n \in 0 .. Len(stream)
    PROVE  WireTo(n) \in Seq(Nat \X Nat) /\ Boundary(n) \in Nat
  <1> DEFINE S == {k \in Nat : k <= Len(stream) => WireTo(k) \in Seq(Nat \X Nat)}
  <1>0. Len(stream) \in Nat
    BY DEF StreamOK
  <1>1. 0 \in S /\ WireTo(0) = <<>>
    <2>1. [f \in 1 .. 0 |-> WireOf(f)] = <<>> /\ Len(<<>>) = 0 /\ <<>> \in Seq(Nat \X Nat)
      OBVIOUS
    <2>2. FlattenSeq(<<>>) = <<>>
      BY <2>1 DEF FlattenSeq
    <2>3. WireTo(0) = <<>>
      BY <2>1, <2>2, Zenon DEF WireTo
    <2>4. WireTo(0) \in Seq(Nat \X Nat)
      BY <2>1, <2>3
    <2> QED BY <2>3, <2>4
  <1>2. ASSUME NEW k \in S PROVE k + 1 \in S
    <2>1. SUFFICES ASSUME k + 1 <= Len(stream) PROVE WireTo(k + 1) \in Seq(Nat \X Nat)
      OBVIOUS
    <2>2. WireTo(k) \in Seq(Nat \X Nat)
      BY <1>0, <2>1
    <2>3. WireOf(k + 1) \in Seq(Nat \X Nat)
      BY <1>0, <2>1, BytesOfFrame
    <2>4. WireTo(k + 1) = WireTo(k) \o WireOf(k + 1)
      BY <2>1, WireGrows
    <2>5. WireTo(k) \o WireOf(k + 1) \in Seq(Nat \X Nat)
      BY <2>2, <2>3, Concat
    <2> QED BY <2>4, <2>5
  <1> HIDE DEF S
  <1>3. S = Nat
    BY <1>1, <1>2, Induction DEF S
  <1>4. WireTo(n) \in Seq(Nat \X Nat)
    BY <1>0, <1>3 DEF S
  <1> QED BY <1>4 DEF Boundary

\* Frame f lies on the wire behind the first f - 1 frames, whatever follows it.
LEMMA WirePrefix ==
    ASSUME StreamOK, NEW n \in 0 .. Len(stream), NEW m \in n .. Len(stream)
    PROVE  /\ Boundary(n) <= Boundary(m)
           /\ \A p \in 1 .. Boundary(n) : WireTo(m)[p] = WireTo(n)[p]
  <1> DEFINE S == {d \in Nat : n + d <= Len(stream) =>
                     /\ Boundary(n) <= Boundary(n + d)
                     /\ \A p \in 1 .. Boundary(n) : WireTo(n + d)[p] = WireTo(n)[p]}
  <1>0. Len(stream) \in Nat /\ n \in Nat
    BY DEF StreamOK
  <1>1. 0 \in S
    <2>1. n + 0 = n /\ Boundary(n) <= Boundary(n)
      BY <1>0, WireTypes
    <2> QED BY <2>1
  <1>2. ASSUME NEW d \in S PROVE d + 1 \in S
    <2> DEFINE k == n + d
    <2>1. SUFFICES ASSUME k + 1 <= Len(stream)
                   PROVE  /\ Boundary(n) <= Boundary(k + 1)
                          /\ \A p \in 1 .. Boundary(n) : WireTo(k + 1)[p] = WireTo(n)[p]
      <3>1. n + (d + 1) = k + 1
        BY <1>0
      <3> QED BY <3>1
    <2>2. k \in Nat /\ k \in 0 .. Len(stream) /\ k + 1 \in 1 .. Len(stream)
      BY <1>0, <2>1
    <2>3. /\ Boundary(n) <= Boundary(k)
          /\ \A p \in 1 .. Boundary(n) : WireTo(k)[p] = WireTo(n)[p]
      BY <2>2
    <2> HIDE DEF k, S
    <2>4. WireTo(k) \in Seq(Nat \X Nat) /\ WireOf(k + 1) \in Seq(Nat \X Nat) /\ Boundary(n) \in Nat
      BY <2>2, WireTypes, BytesOfFrame
    <2>5. WireTo(k + 1) = WireTo(k) \o WireOf(k + 1)
      BY <2>1, <2>2, WireGrows
    <2>6. Boundary(k + 1) = Boundary(k) + Len(WireOf(k + 1))
      BY <2>4, <2>5 DEF Boundary
    <2>7. Len(WireOf(k + 1)) \in Nat /\ Boundary(k) \in Nat
      BY <2>4 DEF Boundary
    <2>8. \A p \in 1 .. Boundary(k) : WireTo(k + 1)[p] = WireTo(k)[p]
      BY <2>4, <2>5 DEF Boundary
    <2> QED BY <2>3, <2>4, <2>6, <2>7, <2>8
  <1> HIDE DEF S
  <1>3. S = Nat
    BY <1>1, <1>2, Induction DEF S
  <1>4. m - n \in Nat /\ n + (m - n) = m
    BY <1>0
  <1>5. /\ Boundary(n) <= Boundary(n + (m - n))
        /\ \A p \in 1 .. Boundary(n) : WireTo(n + (m - n))[p] = WireTo(n)[p]
    <2>1. m - n \in S /\ n + (m - n) <= Len(stream)
      BY <1>0, <1>3, <1>4
    <2> QED BY <2>1 DEF S
  <1> QED BY <1>4, <1>5

\* Where the bytes of a frame are on the wire.
LEMMA WireLayout ==
    ASSUME StreamOK, NEW f \in 1 .. Len(stream)
    PROVE  /\ Boundary(f - 1) \in Nat /\ Len(Wire) \in Nat
           /\ Boundary(f) = Boundary(f - 1) + 1 + stream[f].size
           /\ Boundary(f) <= Len(Wire)
           /\ \A k \in 0 .. stream[f].size : Wire[Boundary(f - 1) + 1 + k] = <<f, k>>
  <1>1. /\ Len(stream) \in Nat /\ f - 1 \in Nat /\ (f - 1) + 1 = f /\ f - 1 \in 0 .. Len(stream)
        /\ f \in 0 .. Len(stream) /\ Len(stream) \in f .. Len(stream)
        /\ Len(stream) \in 0 .. Len(stream)
    BY DEF StreamOK
  <1>2. Wire = WireTo(Len(stream)) /\ Len(Wire) = Boundary(Len(stream))
    BY DEF Wire, WireTo, Boundary
  <1>3. WireTo(f) = WireTo(f - 1) \o WireOf(f)
    BY <1>1, WireGrows
  <1>4. WireTo(f - 1) \in Seq(Nat \X Nat) /\ Boundary(f - 1) \in Nat /\ Len(Wire) \in Nat
    BY <1>1, <1>2, WireTypes
  <1>5. /\ WireOf(f) \in Seq(Nat \X Nat) /\ Len(WireOf(f)) = 1 + stream[f].size
        /\ stream[f].size \in Nat
        /\ \A k \in 0 .. stream[f].size : WireOf(f)[k + 1] = <<f, k>>
    BY BytesOfFrame
  <1>9. /\ Len(WireTo(f - 1) \o WireOf(f)) = Len(WireTo(f - 1)) + Len(WireOf(f))
        /\ \A p \in 1 .. Len(WireOf(f)) :
             (WireTo(f - 1) \o WireOf(f))[Len(WireTo(f - 1)) + p] = WireOf(f)[p]
    <2> DEFINE a == WireTo(f - 1)
               b == WireOf(f)
    <2>1. a \in Seq(Nat \X Nat) /\ b \in Seq(Nat \X Nat)
      BY <1>4, <1>5
    <2> HIDE DEF a, b
    <2>2. Len(a \o b) = Len(a) + Len(b) /\ \A p \in 1 .. Len(b) : (a \o b)[Len(a) + p] = b[p]
      BY <2>1, Concat
    <2> QED BY <2>2 DEF a, b
  <1>6. Boundary(f) = Boundary(f - 1) + 1 + stream[f].size
    <2>1. Boundary(f) = Boundary(f - 1) + Len(WireOf(f))
      BY <1>3, <1>9, Zenon DEF Boundary
    <2>2. ASSUME NEW a \in Nat, NEW b \in Nat PROVE a + (1 + b) = a + 1 + b
      OBVIOUS
    <2> QED BY <1>4, <1>5, <2>1, <2>2
  <1>7. /\ Boundary(f) <= Len(Wire)
        /\ \A p \in 1 .. Boundary(f) : Wire[p] = WireTo(f)[p]
    BY <1>1, <1>2, WirePrefix
  <1>8. ASSUME NEW k \in 0 .. stream[f].size
        PROVE  Wire[Boundary(f - 1) + 1 + k] = <<f, k>>
    <2>1. ASSUME NEW b \in Nat, NEW size \in Nat, k \in 0 .. size
          PROVE  b + (k + 1) \in 1 .. b + 1 + size /\ k + 1 \in 1 .. 1 + size /\ b + 1 + k = b + (k + 1)
      BY <2>1
    <2>2. /\ Boundary(f - 1) + (k + 1) \in 1 .. Boundary(f) /\ k + 1 \in 1 .. Len(WireOf(f))
          /\ Boundary(f - 1) + 1 + k = Boundary(f - 1) + (k + 1)
      BY <1>4, <1>5, <1>6, <2>1
    <2>3. WireTo(f)[Boundary(f - 1) + (k + 1)] = WireOf(f)[k + 1]
      BY <1>3, <1>9, <2>2, Zenon DEF Boundary
    <2> QED BY <1>5, <1>7, <2>2, <2>3
  <1> QED BY <1>4, <1>6, <1>7, <1>8
-----------------------------------------------------------------------------
(* The receive thread.  ReadInv ties what it has consumed, its buffer and  *)
(* totalLength to the place of the current frame on the wire, so that a part*)
(* is read to its end and no further however the stream is cut.            *)

\* The frame the receive thread is at.
Current == Len(delivered) + 1

DeliveredInv ==
    /\ delivered \in Seq(Seq(Nat \X Nat)) /\ Len(delivered) <= Len(stream)
    /\ FramesWholeAndInOrder

\* A new connection starts at the beginning of its stream.
FreshInv ==
    opc \in {"handshake", "id", "connected", "start"} => delivered = <<>> /\ consumed = 0

\* What was consumed ends with a frame, within the length prefix of the current frame, or
\* within its bytes; the buffer holds what was read of the part.
BetweenFrames == rpc \in {"loop", "callback"} => consumed = Boundary(Len(delivered))

InLength ==
    rpc \in {"test", "read", "parse"} /\ part = "length" =>
        \/ buffer = <<>> /\ consumed = Boundary(Len(delivered))
        \/ /\ buffer = <<<<Current, 0>>>> /\ Current <= Len(stream)
           /\ consumed = Boundary(Len(delivered)) + 1

InFrame ==
    rpc \in {"test", "read", "parse"} /\ part = "frame" =>
        /\ Current <= Len(stream) /\ totalLength = stream[Current].size
        /\ Len(buffer) <= totalLength
        /\ buffer = [k \in 1 .. Len(buffer) |-> <<Current, k>>]
        /\ consumed = Boundary(Len(delivered)) + 1 + Len(buffer)

PartDone == rpc = "parse" => Len(buffer) = Wanted

ReadInv == DeliveredInv /\ FreshInv /\ BetweenFrames /\ InLength /\ InFrame /\ PartDone

\* A byte is written only while there is one left.
WriteInv == spc = "write" => written < MessageSize

ClientInv == Inv /\ TypeOK /\ WriteInv /\ ReadInv

LEMMA TypeGivesStream == TypeOK => StreamOK
  <1>1. <<>> \in Seq([size : Nat \ {0}, kind : {"good", "badLength", "badFrame"}])
    OBVIOUS
  <1> QED BY <1>1, TransportConstants DEF TypeOK, StreamOK, StreamType

LEMMA SameStream ==
    ASSUME stream' = stream
    PROVE  /\ Wire' = Wire
           /\ \A n : Boundary(n)' = Boundary(n) /\ FrameBytes(n)' = FrameBytes(n)
  BY DEF Wire, Boundary, WireTo, WireOf, FrameBytes

LEMMA BoundaryZero == Boundary(0) = 0
  <1>1. [f \in 1 .. 0 |-> WireOf(f)] = <<>> /\ Len(<<>>) = 0
    OBVIOUS
  <1>2. FlattenSeq(<<>>) = <<>>
    BY <1>1 DEF FlattenSeq
  <1>3. WireTo(0) = <<>>
    BY <1>1, <1>2, Zenon DEF WireTo
  <1> QED BY <1>1, <1>3 DEF Boundary

LEMMA WireLength == StreamOK => Len(Wire) \in Nat /\ Wire \in Seq(Nat \X Nat)
  <1> SUFFICES ASSUME StreamOK PROVE Len(Wire) \in Nat /\ Wire \in Seq(Nat \X Nat)
    OBVIOUS
  <1>1. Len(stream) \in 0 .. Len(stream)
    BY DEF StreamOK
  <1>2. Wire = WireTo(Len(stream))
    BY DEF Wire, WireTo
  <1>3. Wire \in Seq(Nat \X Nat)
    BY <1>1, <1>2, WireTypes
  <1> QED BY <1>3

LEMMA InitClient == Init => TypeOK /\ WriteInv /\ ReadInv
  <1> SUFFICES ASSUME Init PROVE TypeOK /\ WriteInv /\ ReadInv
    OBVIOUS
  <1> USE DEF Init
  <1>1. StreamOK
    BY DEF StreamOK
  <1>2. TypeOK
    <2>1. Len(Wire) \in Nat /\ <<>> \in Seq(Nat \X Nat)
      BY <1>1, WireLength
    <2>2. 0 \in 0 .. MessageSize /\ 0 \in 0 .. Window /\ 0 \in 0 .. MaxConnects /\ 0 \in 0 .. MaxSends
      BY TransportConstants
    <2>3. arrived \in 0 .. Len(Wire) /\ consumed \in 0 .. arrived
      BY <2>1
    <2>4. buffer \in Seq(Nat \X Nat) /\ stream \in Streams \cup {<<>>}
      BY <2>1, Zenon
    <2>5. /\ written \in 0 .. MessageSize /\ window \in 0 .. Window
          /\ connects \in 0 .. MaxConnects /\ sends \in 0 .. MaxSends /\ totalLength \in Nat
      BY <2>2
    <2> QED BY <2>3, <2>4, <2>5, Zenon DEF TypeOK
  <1>3. WriteInv
    BY DEF WriteInv
  <1>4. ReadInv
    BY DEF ReadInv, DeliveredInv, FramesWholeAndInOrder, FreshInv, BetweenFrames, InLength,
           InFrame, PartDone
  <1> QED BY <1>2, <1>3, <1>4

\* What the owner, the sender and the network leave alone.
LEMMA ReadingUntouched ==
    ASSUME ReadInv, UNCHANGED <<stream, delivered, consumed, rpc, part, buffer, totalLength>>,
           opc' \in {"handshake", "id", "connected", "start"}
             => opc \in {"handshake", "id", "connected", "start"}
    PROVE  ReadInv'
  <1>1. \A n : Boundary(n)' = Boundary(n) /\ FrameBytes(n)' = FrameBytes(n)
    BY SameStream
  <1>2. DeliveredInv'
    BY <1>1 DEF ReadInv, DeliveredInv, FramesWholeAndInOrder
  <1>3. FreshInv'
    BY DEF ReadInv, FreshInv
  <1>4. BetweenFrames'
    BY <1>1 DEF ReadInv, BetweenFrames
  <1>5. InLength'
    BY <1>1 DEF ReadInv, InLength, Current
  <1>6. InFrame'
    BY <1>1 DEF ReadInv, InFrame, Current
  <1>7. PartDone'
    BY DEF ReadInv, PartDone, Wanted
  <1> QED BY <1>2, <1>3, <1>4, <1>5, <1>6, <1>7 DEF ReadInv

\* A connection begins before the first frame, and its receive thread too.
LEMMA OwnerKeepsReading ==
    ASSUME ClientInv, InitSslContext \/ Disconnect \/ OwnerStep
    PROVE  ReadInv'
  <1> USE DEF ClientInv, OwnerFrame, memberVars, receiverVars, senderVars, serverVars
  <1>1. CASE InitSslContext
    BY <1>1, ReadingUntouched DEF InitSslContext
  <1>2. CASE Disconnect
    BY <1>2, ReadingUntouched DEF Disconnect
  <1>3. CASE CreateSocketAndConnect
    <2>1. CASE opc' = "flags"
      BY <1>3, <2>1, ReadingUntouched DEF CreateSocketAndConnect, networkVars
    <2>2. CASE opc' # "flags"
      <3>1. delivered' = <<>> /\ consumed' = 0 /\ stream' \in Streams /\ rpc' = rpc
        BY <1>3, <2>2 DEF CreateSocketAndConnect
      <3>2. rpc \notin {"loop", "test", "read", "parse", "callback"}
        BY <1>3 DEF CreateSocketAndConnect, Inv, ThreadInv
      <3>3. Len(stream') \in Nat
        BY <3>1, TransportConstants DEF StreamType
      <3>4. DeliveredInv'
        BY <3>1, <3>3 DEF DeliveredInv, FramesWholeAndInOrder
      <3> QED
        BY <3>1, <3>2, <3>4 DEF ReadInv, FreshInv, BetweenFrames, InLength, InFrame, PartDone
    <2> QED BY <2>1, <2>2
  <1>4. CASE SslConnect
    BY <1>4, ReadingUntouched DEF SslConnect
  <1>5. CASE ReceiveClientId
    BY <1>5, ReadingUntouched DEF ReceiveClientId
  <1>6. CASE SetConnected
    BY <1>6, ReadingUntouched DEF SetConnected
  <1>7. CASE StartReceiveLoop
    <2>1. CASE recvRunning
      BY <1>7, <2>1, ReadingUntouched DEF StartReceiveLoop
    <2>2. CASE ~recvRunning
      <3>1. rpc' = "loop" /\ opc' = "idle" /\ UNCHANGED <<stream, delivered, consumed>>
        BY <1>7, <2>2 DEF StartReceiveLoop
      <3>2. delivered = <<>> /\ consumed = 0
        BY <1>7 DEF StartReceiveLoop, ReadInv, FreshInv
      <3>3. Boundary(Len(delivered))' = 0
        <4>1. Len(delivered') = 0
          BY <3>1, <3>2
        <4>2. Boundary(0)' = Boundary(0)
          BY <3>1, SameStream
        <4> QED BY <4>1, <4>2, BoundaryZero DEF Boundary, WireTo, WireOf, FrameBytes
      <3>4. DeliveredInv'
        BY <3>1, SameStream DEF ReadInv, DeliveredInv, FramesWholeAndInOrder
      <3>5. BetweenFrames'
        BY <3>1, <3>2, <3>3 DEF BetweenFrames
      <3> QED
        BY <3>1, <3>4, <3>5 DEF ReadInv, FreshInv, InLength, InFrame, PartDone
    <2> QED BY <2>1, <2>2
  <1>8. CASE DisconnectFlags
    BY <1>8, ReadingUntouched DEF DisconnectFlags
  <1>9. CASE DisconnectJoin
    <2>1. rpc' = "none" /\ opc' = "lock" /\ UNCHANGED <<stream, delivered, consumed>>
      BY <1>9 DEF DisconnectJoin
    <2>2. DeliveredInv'
      BY <2>1, SameStream DEF ReadInv, DeliveredInv, FramesWholeAndInOrder
    <2> QED
      BY <2>1, <2>2 DEF ReadInv, FreshInv, BetweenFrames, InLength, InFrame, PartDone
  <1>10. CASE DisconnectLock
    BY <1>10, ReadingUntouched DEF DisconnectLock
  <1>11. CASE DisconnectFree
    BY <1>11, ReadingUntouched DEF DisconnectFree
  <1> QED
    BY <1>1, <1>2, <1>3, <1>4, <1>5, <1>6, <1>7, <1>8, <1>9, <1>10, <1>11 DEF OwnerStep

\* Nobody but the receive thread touches what it reads.
LEMMA OthersKeepReading ==
    ASSUME ReadInv, SendMidiMessage \/ SenderStep \/ ServerAnswers \/ BytesArrive \/ ServerReads
                      \/ PeerCloses \/ UNCHANGED vars
    PROVE  ReadInv'
  <1>1. UNCHANGED <<stream, delivered, consumed, rpc, part, buffer, totalLength, opc>>
    <2>1. CASE SendMidiMessage \/ SenderStep
      BY <2>1 DEF SendMidiMessage, SenderStep, SendLock, WriteAllTest, SslWrite, SslWriteFails,
                  SenderFrame, receiverVars, serverVars
    <2>2. CASE ServerAnswers \/ BytesArrive \/ ServerReads \/ PeerCloses \/ UNCHANGED vars
      BY <2>2 DEF ServerAnswers, BytesArrive, ServerReads, PeerCloses, vars, memberVars,
                  receiverVars, senderVars, serverVars, networkVars, historyVars
    <2> QED BY <2>1, <2>2
  <1> QED BY <1>1, ReadingUntouched

LEMMA SameElements ==
    ASSUME NEW T, NEW s \in Seq(T), NEW t \in Seq(T), Len(s) = Len(t),
           \A p \in 1 .. Len(s) : s[p] = t[p]
    PROVE  s = t
  OBVIOUS

\* What SubSeq returns.
LEMMA Slice ==
    ASSUME NEW T, NEW s \in Seq(T), NEW a \in Nat, NEW n \in Nat \ {0}, a + n <= Len(s)
    PROVE  /\ SubSeq(s, a + 1, a + n) \in Seq(T)
           /\ Len(SubSeq(s, a + 1, a + n)) = n
           /\ \A j \in 1 .. n : SubSeq(s, a + 1, a + n)[j] = s[a + j]
  OBVIOUS

\* A read returns the next bytes of the current frame, none of the one behind it.
LEMMA ReadExtends ==
    ASSUME TypeOK, ReadInv, SslRead
    PROVE  /\ consumed' \in 0 .. arrived
           /\ buffer' \in Seq(Nat \X Nat)
           /\ InLength' /\ InFrame'
  <1>1. PICK n \in 1 .. Wanted - Len(buffer) :
          /\ consumed + n <= arrived
          /\ buffer' = buffer \o SubSeq(Wire, consumed + 1, consumed + n)
          /\ consumed' = consumed + n
    BY DEF SslRead, Appended
  <1>2. /\ rpc = "read" /\ rpc' = "test"
        /\ UNCHANGED <<stream, part, totalLength, delivered>>
    BY DEF SslRead, ReceiverFrame, serverVars
  <1>3. StreamOK /\ Wire \in Seq(Nat \X Nat) /\ Len(Wire) \in Nat
    BY TypeGivesStream, WireLength
  <1>4. /\ buffer \in Seq(Nat \X Nat) /\ Len(buffer) \in Nat /\ totalLength \in Nat
        /\ arrived \in 0 .. Len(Wire) /\ consumed \in Nat
        /\ part \in {"length", "frame"}
    BY <1>3 DEF TypeOK
  <1>5. Len(delivered) \in Nat /\ Len(delivered) <= Len(stream) /\ Len(stream) \in Nat
    BY <1>3 DEF ReadInv, DeliveredInv, StreamOK
  <1> DEFINE read == SubSeq(Wire, consumed + 1, consumed + n)
             at == Len(buffer)
  <1>6. n \in Nat \ {0} /\ consumed + n <= Len(Wire)
    BY <1>1, <1>3, <1>4
  <1>7. read \in Seq(Nat \X Nat) /\ Len(read) = n /\ \A j \in 1 .. n : read[j] = Wire[consumed + j]
    <2> DEFINE T == Nat \X Nat
    <2>1. Wire \in Seq(T) /\ consumed \in Nat
      BY <1>3, <1>4
    <2> HIDE DEF T
    <2>2. read \in Seq(T) /\ Len(read) = n /\ \A j \in 1 .. n : read[j] = Wire[consumed + j]
      BY <1>6, <2>1, Slice
    <2> QED BY <2>2 DEF T
  <1> HIDE DEF read
  <1>8. /\ buffer' \in Seq(Nat \X Nat) /\ Len(buffer') = at + n
        /\ \A p \in 1 .. at : buffer'[p] = buffer[p]
        /\ \A p \in 1 .. n : buffer'[at + p] = Wire[consumed + p]
    <2>1. buffer' = buffer \o read
      BY <1>1 DEF read
    <2>2. /\ buffer \o read \in Seq(Nat \X Nat) /\ Len(buffer \o read) = Len(buffer) + Len(read)
          /\ \A p \in 1 .. Len(buffer) : (buffer \o read)[p] = buffer[p]
          /\ \A p \in 1 .. Len(read) : (buffer \o read)[Len(buffer) + p] = read[p]
      <3> DEFINE T == Nat \X Nat
      <3>1. buffer \in Seq(T) /\ read \in Seq(T)
        BY <1>4, <1>7
      <3> HIDE DEF T
      <3>2. /\ buffer \o read \in Seq(T) /\ Len(buffer \o read) = Len(buffer) + Len(read)
            /\ \A p \in 1 .. Len(buffer) : (buffer \o read)[p] = buffer[p]
            /\ \A p \in 1 .. Len(read) : (buffer \o read)[Len(buffer) + p] = read[p]
        BY <3>1, Concat
      <3> QED BY <3>2 DEF T
    <2> QED BY <1>7, <2>1, <2>2, Zenon
  <1>9. /\ Boundary(Len(delivered))' = Boundary(Len(delivered)) /\ Current' = Current
        /\ Current \in Nat /\ Current - 1 = Len(delivered)
    BY <1>2, <1>5, SameStream DEF Current, Boundary, WireTo, WireOf, FrameBytes
  <1>10. consumed' \in 0 .. arrived
    BY <1>1, <1>4, <1>6
  <1>11. CASE part = "length"
    <2>1. at = 0 /\ n = 1 /\ consumed = Boundary(Len(delivered)) /\ buffer = <<>>
      BY <1>1, <1>2, <1>4, <1>6, <1>11 DEF ReadInv, InLength, Wanted
    <2>2. Current <= Len(stream)
      <3>1. Len(Wire) = Boundary(Len(stream))
        BY DEF Wire, Boundary, WireTo
      <3>2. Len(delivered) # Len(stream)
        BY <1>3, <1>4, <1>6, <2>1, <3>1
      <3> QED BY <1>5, <3>2 DEF Current
    <2>3. Wire[consumed + 1] = <<Current, 0>>
      <3>1. Current \in 1 .. Len(stream)
        BY <1>5, <2>2 DEF Current
      <3>2. /\ Boundary(Current - 1) \in Nat /\ stream[Current].size \in Nat
            /\ \A k \in 0 .. stream[Current].size :
                 Wire[Boundary(Current - 1) + 1 + k] = <<Current, k>>
        BY <1>3, <3>1, WireLayout, BytesOfFrame
      <3>3. Wire[Boundary(Current - 1) + 1 + 0] = <<Current, 0>>
        BY <3>2
      <3> QED BY <1>9, <2>1, <3>2, <3>3
    <2>4. buffer' = <<<<Current, 0>>>>
      <3>1. Len(buffer') = 1 /\ buffer'[1] = <<Current, 0>>
        BY <1>8, <2>1, <2>3
      <3>2. Current \in Nat
        BY <1>9
      <3> DEFINE one == <<<<Current, 0>>>>
                 T == Nat \X Nat
      <3>3. one \in Seq(T) /\ Len(one) = 1 /\ one[1] = <<Current, 0>> /\ buffer' \in Seq(T)
        BY <1>8, <3>2
      <3> HIDE DEF one, T
      <3>4. buffer' = one
        BY <3>1, <3>3, SameElements
      <3> QED BY <3>4 DEF one
    <2>5. consumed' = Boundary(Len(delivered)) + 1
      BY <1>1, <2>1
    <2>6. InLength'
      BY <1>2, <1>9, <2>2, <2>4, <2>5 DEF InLength
    <2>7. InFrame'
      BY <1>2, <1>11 DEF InFrame
    <2> QED BY <1>8, <1>10, <2>6, <2>7
  <1>12. CASE part = "frame"
    <2>1. /\ Current <= Len(stream) /\ totalLength = stream[Current].size
          /\ at <= totalLength /\ consumed = Boundary(Len(delivered)) + 1 + at
          /\ \A p \in 1 .. at : buffer[p] = <<Current, p>>
      BY <1>2, <1>12 DEF ReadInv, InFrame
    <2>2. Current \in 1 .. Len(stream)
      BY <1>5, <2>1 DEF Current
    <2>3. /\ Boundary(Len(delivered)) \in Nat
          /\ \A k \in 0 .. totalLength :
               Wire[Boundary(Len(delivered)) + 1 + k] = <<Current, k>>
      BY <1>3, <1>9, <2>1, <2>2, WireLayout
    <2>4. at + n <= totalLength
      BY <1>1, <1>4, <1>6, <1>12 DEF Wanted
    <2>5. ASSUME NEW p \in 1 .. n PROVE buffer'[at + p] = <<Current, at + p>>
      <3>1. at + p \in 0 .. totalLength
        BY <1>4, <1>6, <2>4
      <3>2. consumed + p = Boundary(Len(delivered)) + 1 + (at + p)
        BY <1>4, <2>1, <2>3
      <3> QED BY <1>8, <2>3, <3>1, <3>2
    <2>6. ASSUME NEW p \in 1 .. at + n PROVE buffer'[p] = <<Current, p>>
      <3>1. CASE p <= at
        <4>1. p \in 1 .. at
          BY <1>4, <3>1
        <4> QED BY <1>8, <2>1, <4>1, Zenon
      <3>2. CASE p > at
        <4>1. p - at \in 1 .. n /\ at + (p - at) = p
          BY <1>4, <1>6, <3>2
        <4> QED BY <2>5, <4>1
      <3> QED BY <1>4, <3>1, <3>2
    <2>7. buffer' = [k \in 1 .. at + n |-> <<Current, k>>]
      <3> DEFINE whole == [k \in 1 .. at + n |-> <<Current, k>>]
      <3>1. whole \in Seq(Nat \X Nat) /\ Len(whole) = at + n
        BY <1>4, <1>6, <1>9
      <3>2. \A p \in 1 .. at + n : whole[p] = <<Current, p>>
        OBVIOUS
      <3> DEFINE T == Nat \X Nat
      <3> HIDE DEF whole, at
      <3>4. buffer' \in Seq(T) /\ whole \in Seq(T) /\ Len(buffer') = Len(whole)
            /\ \A p \in 1 .. Len(whole) : buffer'[p] = whole[p]
        BY <1>8, <2>6, <3>1, <3>2
      <3> HIDE DEF T
      <3>3. buffer' = whole
        BY <3>4, SameElements
      <3> QED BY <3>3 DEF whole
    <2>8. consumed' = Boundary(Len(delivered)) + 1 + (at + n)
      BY <1>1, <1>4, <1>6, <2>1, <2>3
    <2>9. InFrame'
      <3>1. UNCHANGED <<stream[Current], totalLength>>
        BY <1>2, <1>9
      <3> QED BY <1>2, <1>8, <1>9, <2>1, <2>4, <2>7, <2>8, <3>1 DEF InFrame
    <2>10. InLength'
      BY <1>2, <1>12 DEF InLength
    <2> QED BY <1>8, <1>10, <2>9, <2>10
  <1> QED BY <1>4, <1>11, <1>12

\* A frame that is whole in the buffer is the next of the stream.
LEMMA FrameIsNext ==
    ASSUME TypeOK, ReadInv, rpc = "parse", part = "frame"
    PROVE  /\ buffer = FrameBytes(Current) /\ buffer[1][1] = Current
           /\ consumed = Boundary(Current) /\ Current <= Len(stream)
  <1>1. /\ Current <= Len(stream) /\ totalLength = stream[Current].size
        /\ Len(buffer) = totalLength
        /\ buffer = [k \in 1 .. Len(buffer) |-> <<Current, k>>]
        /\ consumed = Boundary(Len(delivered)) + 1 + Len(buffer)
    BY DEF ReadInv, InFrame, PartDone, Wanted
  <1>2. Current \in 1 .. Len(stream) /\ Current - 1 = Len(delivered) /\ StreamOK
    BY <1>1, TypeGivesStream DEF ReadInv, DeliveredInv, StreamOK, Current
  <1>3. totalLength \in Nat \ {0} /\ Boundary(Current) = Boundary(Current - 1) + 1 + totalLength
    BY <1>1, <1>2, BytesOfFrame, WireLayout
  <1>4. buffer = FrameBytes(Current)
    BY <1>1 DEF FrameBytes
  <1>5. buffer[1] = <<Current, 1>>
    <2>1. 1 \in 1 .. Len(buffer)
      BY <1>1, <1>3
    <2> QED BY <1>1, <2>1
  <1> QED BY <1>1, <1>2, <1>3, <1>4, <1>5

\* A length prefix that is whole in the buffer is that of the next frame.
LEMMA LengthIsNext ==
    ASSUME TypeOK, ReadInv, rpc = "parse", part = "length"
    PROVE  /\ buffer[1] = <<Current, 0>> /\ consumed = Boundary(Len(delivered)) + 1
           /\ Current <= Len(stream)
           /\ Announced(buffer[1]) = stream[Current].size /\ stream[Current].size \in Nat
  <1>1. buffer # <<>>
    <2>1. Len(<<>>) # 1
      OBVIOUS
    <2> QED BY <2>1 DEF ReadInv, PartDone, Wanted
  <1>2. /\ buffer = <<<<Current, 0>>>> /\ Current <= Len(stream)
        /\ consumed = Boundary(Len(delivered)) + 1
    BY <1>1 DEF ReadInv, InLength
  <1>3. Current \in 1 .. Len(stream) /\ StreamOK
    BY <1>2, TypeGivesStream DEF ReadInv, DeliveredInv, StreamOK, Current
  <1>4. buffer[1] = <<Current, 0>> /\ buffer[1][1] = Current /\ buffer[1][2] = 0
    BY <1>2
  <1> QED BY <1>2, <1>3, <1>4, BytesOfFrame DEF Announced

\* Step by step the receive thread stays where ReadInv says it is.
LEMMA ReceiverKeepsReading == ASSUME ClientInv, ReceiverStep PROVE ReadInv'
  <1> USE DEF ClientInv, ReceiverFrame, serverVars
  <1>1. /\ UNCHANGED <<stream, opc>>
        /\ \A n : Boundary(n)' = Boundary(n) /\ FrameBytes(n)' = FrameBytes(n)
    <2>1. UNCHANGED <<stream, opc>>
      BY DEF ReceiverStep, ReceiveLoopTest, ReadExactTest, SslRead, SslReadTimeout, SslReadFails,
             ParseLength, ParseFrame, CallbackReturns
    <2> QED BY <2>1, SameStream
  <1>2. FreshInv'
    <2>1. opc \notin {"handshake", "id", "connected", "start"}
      <3>1. rpc \in {"loop", "test", "read", "parse", "callback"}
        BY DEF ReceiverStep, ReceiveLoopTest, ReadExactTest, SslRead, SslReadTimeout,
               SslReadFails, ParseLength, ParseFrame, CallbackReturns
      <3> QED BY <3>1 DEF Inv, ThreadInv
    <2> QED BY <1>1, <2>1 DEF FreshInv
  <1>3. ASSUME UNCHANGED <<delivered, consumed, stream>>
        PROVE  /\ DeliveredInv'
               /\ Current' = Current /\ Boundary(Len(delivered))' = Boundary(Len(delivered))
    BY <1>1, <1>3 DEF ReadInv, DeliveredInv, FramesWholeAndInOrder, Current, Boundary, WireTo,
                      WireOf, FrameBytes
  <1>4. CASE ReceiveLoopTest
    BY <1>1, <1>2, <1>3, <1>4
    DEF ReceiveLoopTest, ReadInv, BetweenFrames, InLength, InFrame, PartDone
  <1>5. CASE ReadExactTest
    <2>1. UNCHANGED <<part, buffer, totalLength, consumed, delivered>> /\ rpc = "test"
      BY <1>5 DEF ReadExactTest
    <2>2. rpc' \in {"parse", "read", "ended"} /\ (rpc' = "parse" => Len(buffer) = Wanted)
      BY <1>5 DEF ReadExactTest
    <2>3. InLength'
      BY <1>1, <1>3, <2>1 DEF ReadInv, InLength
    <2>4. InFrame'
      BY <1>1, <1>3, <2>1 DEF ReadInv, InFrame
    <2>5. PartDone'
      BY <2>1, <2>2 DEF PartDone, Wanted
    <2> QED BY <1>1, <1>2, <1>3, <2>1, <2>2, <2>3, <2>4, <2>5 DEF ReadInv, BetweenFrames
  <1>6. CASE SslRead
    <2>1. UNCHANGED delivered /\ rpc' = "test"
      BY <1>6 DEF SslRead
    <2>2. DeliveredInv'
      BY <1>1, <2>1 DEF ReadInv, DeliveredInv, FramesWholeAndInOrder
    <2>3. InLength' /\ InFrame'
      BY <1>6, ReadExtends
    <2> QED BY <1>2, <2>1, <2>2, <2>3 DEF ReadInv, BetweenFrames, PartDone
  <1>7. CASE SslReadTimeout
    <2>1. /\ UNCHANGED <<part, buffer, totalLength, consumed, delivered>>
          /\ rpc = "read" /\ rpc' = "test"
      BY <1>7 DEF SslReadTimeout
    <2>2. InLength'
      BY <1>1, <1>3, <2>1 DEF ReadInv, InLength
    <2>3. InFrame'
      BY <1>1, <1>3, <2>1 DEF ReadInv, InFrame
    <2> QED BY <1>1, <1>2, <1>3, <2>1, <2>2, <2>3 DEF ReadInv, BetweenFrames, PartDone
  <1>8. CASE SslReadFails
    BY <1>1, <1>2, <1>3, <1>8
    DEF SslReadFails, EndOfConnection, ReadInv, BetweenFrames, InLength, InFrame, PartDone
  <1>9. CASE ParseLength
    <2>1. UNCHANGED <<consumed, delivered>> /\ rpc = "parse" /\ part = "length"
      BY <1>9 DEF ParseLength
    <2>2. CASE rpc' = "ended"
      BY <1>1, <1>2, <1>3, <2>1, <2>2 DEF ReadInv, BetweenFrames, InLength, InFrame, PartDone
    <2>3. CASE rpc' # "ended"
      <3>1. part' = "frame" /\ buffer' = <<>> /\ totalLength' = Announced(buffer[1]) /\ rpc' = "test"
        BY <1>9, <2>3 DEF ParseLength, EndOfConnection
      <3>2. /\ totalLength' = stream[Current].size /\ stream[Current].size \in Nat
            /\ Current <= Len(stream) /\ consumed = Boundary(Len(delivered)) + 1
        BY <2>1, <3>1, LengthIsNext
      <3>3. Boundary(Len(delivered)) \in Nat
        <4>1. StreamOK /\ Len(delivered) \in 0 .. Len(stream)
          BY TypeGivesStream DEF ReadInv, DeliveredInv, StreamOK
        <4> QED BY <4>1, WireTypes
      <3>4. Len(buffer') = 0 /\ buffer' = [k \in 1 .. 0 |-> <<Current, k>>]
        BY <3>1
      <3>5. InFrame'
        BY <1>1, <1>3, <2>1, <3>1, <3>2, <3>3, <3>4 DEF InFrame
      <3> QED
        BY <1>1, <1>2, <1>3, <2>1, <3>1, <3>5 DEF ReadInv, BetweenFrames, InLength, PartDone
    <2> QED BY <2>2, <2>3
  <1>10. CASE ParseFrame
    <2>1. UNCHANGED <<part, buffer, totalLength, consumed>> /\ rpc = "parse" /\ part = "frame"
      BY <1>10 DEF ParseFrame
    <2>2. CASE ~FrameAccepted(buffer)
      BY <1>1, <1>2, <1>3, <1>10, <2>1, <2>2
      DEF ParseFrame, EndOfConnection, ReadInv, BetweenFrames, InLength, InFrame, PartDone
    <2>3. CASE FrameAccepted(buffer)
      <3>1. delivered' = Append(delivered, buffer) /\ rpc' = "callback"
        BY <1>10, <2>3 DEF ParseFrame
      <3>2. /\ buffer = FrameBytes(Current) /\ buffer[1][1] = Current
            /\ consumed = Boundary(Current) /\ Current <= Len(stream)
        BY <2>1, FrameIsNext
      <3>3. stream[Current].kind = "good"
        BY <2>3, <3>2 DEF FrameAccepted
      <3>4. /\ delivered \in Seq(Seq(Nat \X Nat)) /\ buffer \in Seq(Nat \X Nat)
            /\ Len(delivered) \in Nat
            /\ FramesWholeAndInOrder
        BY DEF TypeOK, ReadInv, DeliveredInv
      <3>5. /\ delivered' \in Seq(Seq(Nat \X Nat)) /\ Len(delivered') = Current
            /\ delivered'[Current] = buffer
            /\ \A i \in 1 .. Len(delivered) : delivered'[i] = delivered[i]
        <4> DEFINE T == Seq(Nat \X Nat)
        <4> HIDE DEF T
        <4> SUFFICES /\ delivered' \in Seq(T) /\ Len(delivered') = Current
                     /\ delivered'[Current] = buffer
                     /\ \A i \in 1 .. Len(delivered) : delivered'[i] = delivered[i]
          BY DEF T
        <4>1. delivered \in Seq(T) /\ buffer \in T
          BY <3>4 DEF T
        <4> QED BY <3>1, <4>1 DEF Current
      <3>6. ASSUME NEW i \in 1 .. Len(delivered')
            PROVE  /\ delivered'[i] = FrameBytes(i)
                   /\ \A j \in 1 .. i : stream[j].kind = "good"
        <4>1. CASE i = Current
          <5>1. ASSUME NEW j \in 1 .. i PROVE stream[j].kind = "good"
            <6>1. CASE j = i
              BY <3>3, <4>1, <6>1
            <6>2. CASE j # i
              <7>1. j \in 1 .. Len(delivered) /\ j \in 1 .. j
                BY <3>4, <4>1, <6>2 DEF Current
              <7> QED BY <3>4, <7>1 DEF FramesWholeAndInOrder
            <6> QED BY <6>1, <6>2
          <5> QED BY <3>2, <3>5, <4>1, <5>1
        <4>2. CASE i # Current
          <5>1. i \in 1 .. Len(delivered)
            BY <3>4, <3>5, <4>2 DEF Current
          <5> QED BY <3>4, <3>5, <5>1 DEF FramesWholeAndInOrder
        <4> QED BY <4>1, <4>2
      <3>7. DeliveredInv'
        BY <1>1, <3>2, <3>5, <3>6 DEF DeliveredInv, FramesWholeAndInOrder
      <3>8. BetweenFrames'
        <4>1. Boundary(Len(delivered))' = Boundary(Current)
          BY <1>1, <3>5 DEF Boundary, WireTo, WireOf, FrameBytes
        <4> QED BY <2>1, <3>2, <4>1 DEF BetweenFrames
      <3> QED BY <1>2, <3>1, <3>7, <3>8 DEF ReadInv, InLength, InFrame, PartDone
    <2> QED BY <2>2, <2>3
  <1>11. CASE CallbackReturns
    BY <1>1, <1>2, <1>3, <1>11
    DEF CallbackReturns, ReadInv, BetweenFrames, InLength, InFrame, PartDone
  <1> QED
    BY <1>4, <1>5, <1>6, <1>7, <1>8, <1>9, <1>10, <1>11 DEF ReceiverStep

\* TypeOK in two parts, which the provers take best apart.
FlagTypes ==
    /\ connected \in BOOLEAN /\ recvRunning \in BOOLEAN
    /\ ssl \in BOOLEAN /\ socket \in BOOLEAN /\ context \in BOOLEAN
    /\ answered \in BOOLEAN /\ peerUp \in BOOLEAN

DataTypes ==
    /\ receiveThread \in {"none", "running", "ended"}
    /\ sendMutex \in {"free", "owner", "sender"}
    /\ opc \in {"idle", "socket", "handshake", "id", "connected", "start",
                "flags", "join", "lock", "free"}
    /\ rpc \in {"none", "loop", "test", "read", "parse", "callback", "ended"}
    /\ part \in {"length", "frame"} /\ totalLength \in Nat
    /\ buffer \in Seq(Nat \X Nat)
    /\ spc \in {"idle", "lock", "test", "write"} /\ written \in 0 .. MessageSize
    /\ stream \in Streams \cup {<<>>}
    /\ arrived \in 0 .. Len(Wire) /\ consumed \in 0 .. arrived /\ window \in 0 .. Window
    /\ connects \in 0 .. MaxConnects /\ sends \in 0 .. MaxSends

LEMMA TypeParts == TypeOK <=> FlagTypes /\ DataTypes
  BY DEF TypeOK, FlagTypes, DataTypes

LEMMA FlagsKeepTypes == ASSUME FlagTypes, [Next]_vars PROVE FlagTypes'
  <1> USE DEF FlagTypes, OwnerFrame, ReceiverFrame, SenderFrame, EndOfConnection, memberVars,
              receiverVars, senderVars, serverVars, networkVars, historyVars
  <1>1. CASE InitSslContext
    BY <1>1, Zenon DEF InitSslContext
  <1>2. CASE Disconnect
    BY <1>2, Zenon DEF Disconnect
  <1>3. CASE OwnerStep
    BY <1>3, Zenon DEF OwnerStep, CreateSocketAndConnect, SslConnect, ReceiveClientId,
       SetConnected, StartReceiveLoop, DisconnectFlags, DisconnectJoin, DisconnectLock,
       DisconnectFree
  <1>4. CASE ReceiverStep
    BY <1>4, Zenon DEF ReceiverStep, ReceiveLoopTest, ReadExactTest, SslRead, SslReadTimeout,
       SslReadFails, ParseLength, ParseFrame, CallbackReturns
  <1>5. CASE SendMidiMessage \/ SenderStep
    BY <1>5, Zenon DEF SendMidiMessage, SenderStep, SendLock, WriteAllTest, SslWrite,
       SslWriteFails
  <1>6. CASE ServerAnswers \/ BytesArrive \/ ServerReads \/ PeerCloses \/ UNCHANGED vars
    BY <1>6, Zenon DEF ServerAnswers, BytesArrive, ServerReads, PeerCloses, vars
  <1> QED BY <1>1, <1>2, <1>3, <1>4, <1>5, <1>6 DEF Next

\* Only a new connection changes the stream, and nothing of it has arrived yet.
LEMMA OwnerKeepsTypes ==
    ASSUME ClientInv, InitSslContext \/ Disconnect \/ OwnerStep
    PROVE  DataTypes' /\ WriteInv'
  <1> USE DEF ClientInv, OwnerFrame, memberVars, receiverVars, senderVars, serverVars
  <1>1. CASE UNCHANGED <<stream, arrived, consumed, window>>
    <2>1. Wire' = Wire
      BY <1>1, SameStream
    <2>2. UNCHANGED <<spc, written, sends>> /\ WriteInv'
      BY DEF InitSslContext, Disconnect, OwnerStep, CreateSocketAndConnect, SslConnect,
             ReceiveClientId, SetConnected, StartReceiveLoop, DisconnectFlags, DisconnectJoin,
             DisconnectLock, DisconnectFree, WriteInv
    <2> USE TypeParts DEF DataTypes
    <2>3. CASE InitSslContext
      <3>1. connects' \in 0 .. MaxConnects
        <4>1. connects \in 0 .. MaxConnects /\ MaxConnects \in Nat
          BY TransportConstants
        <4>2. connects < MaxConnects /\ connects' = connects + 1
          BY <2>3 DEF InitSslContext
        <4> QED BY <4>1, <4>2
      <3> QED BY <1>1, <2>1, <2>2, <2>3, <3>1 DEF InitSslContext
    <2>4. CASE Disconnect
      BY <1>1, <2>1, <2>2, <2>4 DEF Disconnect
    <2>5. CASE CreateSocketAndConnect
      BY <1>1, <2>1, <2>2, <2>5 DEF CreateSocketAndConnect, networkVars
    <2>6. CASE SslConnect
      BY <1>1, <2>1, <2>2, <2>6 DEF SslConnect
    <2>7. CASE ReceiveClientId
      BY <1>1, <2>1, <2>2, <2>7 DEF ReceiveClientId
    <2>8. CASE SetConnected
      BY <1>1, <2>1, <2>2, <2>8 DEF SetConnected
    <2>9. CASE StartReceiveLoop
      BY <1>1, <2>1, <2>2, <2>9 DEF StartReceiveLoop
    <2>10. CASE DisconnectFlags
      BY <1>1, <2>1, <2>2, <2>10 DEF DisconnectFlags
    <2>11. CASE DisconnectJoin
      BY <1>1, <2>1, <2>2, <2>11 DEF DisconnectJoin
    <2>12. CASE DisconnectLock
      BY <1>1, <2>1, <2>2, <2>12 DEF DisconnectLock
    <2>13. CASE DisconnectFree
      BY <1>1, <2>1, <2>2, <2>13 DEF DisconnectFree
    <2> QED
      BY <2>3, <2>4, <2>5, <2>6, <2>7, <2>8, <2>9, <2>10, <2>11, <2>12, <2>13 DEF OwnerStep
  <1>2. CASE ~UNCHANGED <<stream, arrived, consumed, window>>
    <2>1. CreateSocketAndConnect
      BY <1>2 DEF InitSslContext, Disconnect, OwnerStep, SslConnect, ReceiveClientId,
                  SetConnected, StartReceiveLoop, DisconnectFlags, DisconnectJoin,
                  DisconnectLock, DisconnectFree
    <2>2. /\ socket' = TRUE /\ peerUp' = TRUE /\ stream' \in Streams /\ answered' = FALSE
          /\ arrived' = 0 /\ consumed' = 0 /\ window' = 0 /\ opc' = "handshake"
          /\ UNCHANGED <<spc, written, sends, connected, recvRunning, ssl, context,
                         receiveThread, sendMutex, rpc, part, buffer, totalLength, connects>>
      BY <1>2, <2>1 DEF CreateSocketAndConnect, networkVars
    <2>3. StreamOK'
      BY <2>2, TransportConstants DEF StreamOK, StreamType
    <2>4. Len(Wire') \in Nat
      <3>1. StreamOK => Len(Wire) \in Nat
        BY WireLength
      <3>2. (StreamOK => Len(Wire) \in Nat)'
        BY ONLY WireLength, PTL
      <3> QED BY <2>3, <3>2
    <2>5. arrived' \in 0 .. Len(Wire') /\ consumed' \in 0 .. arrived' /\ window' \in 0 .. Window
      BY <2>2, <2>4, TransportConstants
    <2> QED BY <2>2, <2>5, TypeParts DEF DataTypes, WriteInv
  <1> QED BY <1>1, <1>2

\* The length the receive thread waits for is a number because the prefix is the stream's.
LEMMA ReceiverKeepsTypes ==
    ASSUME ClientInv, ReceiverStep
    PROVE  DataTypes' /\ WriteInv'
  <1> USE DEF ClientInv, ReceiverFrame, senderVars, serverVars
  <1>1. /\ UNCHANGED <<ssl, socket, context, sendMutex, opc, spc, written, stream, answered,
                       peerUp, arrived, window, connects, sends>>
        /\ Wire' = Wire
    <2>1. UNCHANGED <<ssl, socket, context, sendMutex, opc, spc, written, stream, answered,
                      peerUp, arrived, window, connects, sends>>
      BY DEF ReceiverStep, ReceiveLoopTest, ReadExactTest, SslRead, SslReadTimeout, SslReadFails,
             ParseLength, ParseFrame, CallbackReturns
    <2> QED BY <2>1, SameStream
  <1>2. WriteInv'
    BY <1>1 DEF WriteInv
  <1>3. <<>> \in Seq(Nat \X Nat)
    OBVIOUS
  <1> USE TypeParts DEF DataTypes
  <1>4. CASE ReceiveLoopTest
    BY <1>1, <1>2, <1>3, <1>4 DEF ReceiveLoopTest
  <1>5. CASE ReadExactTest
    BY <1>1, <1>2, <1>5 DEF ReadExactTest
  <1>6. CASE SslRead
    <2>1. consumed' \in 0 .. arrived /\ buffer' \in Seq(Nat \X Nat)
      BY <1>6, ReadExtends
    <2>2. UNCHANGED <<connected, recvRunning, receiveThread, part, totalLength>> /\ rpc' = "test"
      BY <1>6 DEF SslRead
    <2> QED BY <1>1, <1>2, <2>1, <2>2
  <1>7. CASE SslReadTimeout
    BY <1>1, <1>2, <1>7 DEF SslReadTimeout
  <1>8. CASE SslReadFails
    BY <1>1, <1>2, <1>8 DEF SslReadFails, EndOfConnection
  <1>9. CASE ParseLength
    <2>1. CASE rpc' = "ended"
      BY <1>1, <1>2, <1>9, <2>1 DEF ParseLength, EndOfConnection
    <2>2. CASE rpc' # "ended"
      <3>1. /\ part' = "frame" /\ buffer' = <<>> /\ rpc' = "test"
            /\ totalLength' = Announced(buffer[1])
            /\ UNCHANGED <<connected, recvRunning, receiveThread, consumed>>
        BY <1>9, <2>2 DEF ParseLength, EndOfConnection
      <3>2. totalLength' \in Nat
        <4>1. Announced(buffer[1]) = stream[Current].size /\ stream[Current].size \in Nat
          <5>1. rpc = "parse" /\ part = "length"
            BY <1>9 DEF ParseLength
          <5> HIDE DEF DataTypes
          <5> QED BY <5>1, LengthIsNext
        <4> QED BY <3>1, <4>1
      <3> QED BY <1>1, <1>2, <1>3, <3>1, <3>2
    <2> QED BY <2>1, <2>2
  <1>10. CASE ParseFrame
    BY <1>1, <1>2, <1>10 DEF ParseFrame, EndOfConnection
  <1>11. CASE CallbackReturns
    BY <1>1, <1>2, <1>3, <1>11 DEF CallbackReturns
  <1> QED
    BY <1>4, <1>5, <1>6, <1>7, <1>8, <1>9, <1>10, <1>11 DEF ReceiverStep

LEMMA SenderKeepsTypes ==
    ASSUME ClientInv, SendMidiMessage \/ SenderStep
    PROVE  DataTypes' /\ WriteInv'
  <1> USE DEF ClientInv, SenderFrame, receiverVars, serverVars, DataTypes, WriteInv
  <1> USE TypeParts
  <1>1. /\ UNCHANGED <<recvRunning, ssl, socket, context, receiveThread, opc, rpc, part, buffer,
                       totalLength, stream, answered, peerUp, arrived, consumed, connects>>
        /\ Wire' = Wire
    <2>1. UNCHANGED <<recvRunning, ssl, socket, context, receiveThread, opc, rpc, part, buffer,
                      totalLength, stream, answered, peerUp, arrived, consumed, connects>>
      BY DEF SendMidiMessage, SenderStep, SendLock, WriteAllTest, SslWrite, SslWriteFails
    <2> QED BY <2>1, SameStream
  <1>2. 0 \in 0 .. MessageSize /\ Window \in Nat /\ MessageSize \in Nat
    BY TransportConstants
  <1>3. CASE SendMidiMessage
    <2>1. sends' \in 0 .. MaxSends
      BY <1>3, TransportConstants DEF SendMidiMessage
    <2> QED BY <1>1, <1>3, <2>1 DEF SendMidiMessage
  <1>4. CASE SendLock
    BY <1>1, <1>2, <1>4 DEF SendLock
  <1>5. CASE WriteAllTest
    BY <1>1, <1>2, <1>5 DEF WriteAllTest, MoreToWrite
  <1>6. CASE SslWrite
    <2>1. written' \in 0 .. MessageSize /\ window' \in 0 .. Window
      BY <1>2, <1>6 DEF SslWrite
    <2> QED BY <1>1, <1>6, <2>1 DEF SslWrite
  <1>7. CASE SslWriteFails
    BY <1>1, <1>2, <1>7 DEF SslWriteFails
  <1> QED BY <1>3, <1>4, <1>5, <1>6, <1>7 DEF SenderStep

LEMMA NetworkKeepsTypes ==
    ASSUME ClientInv, ServerAnswers \/ BytesArrive \/ ServerReads \/ PeerCloses \/ UNCHANGED vars
    PROVE  DataTypes' /\ WriteInv'
  <1> USE DEF ClientInv, memberVars, receiverVars, senderVars, serverVars, historyVars
  <1>1. UNCHANGED stream /\ Wire' = Wire
    <2>1. UNCHANGED stream
      BY DEF ServerAnswers, BytesArrive, ServerReads, PeerCloses, vars, networkVars
    <2> QED BY <2>1, SameStream
  <1>2. WriteInv'
    BY DEF ServerAnswers, BytesArrive, ServerReads, PeerCloses, vars, WriteInv
  <1>3. Len(Wire) \in Nat
    BY TypeGivesStream, WireLength
  <1> USE TypeParts DEF DataTypes
  <1>4. CASE ServerAnswers
    BY <1>1, <1>2, <1>4 DEF ServerAnswers
  <1>5. CASE BytesArrive
    <2>1. arrived' \in 0 .. Len(Wire') /\ consumed' \in 0 .. arrived'
      BY <1>1, <1>3, <1>5 DEF BytesArrive
    <2> QED BY <1>1, <1>2, <1>5, <2>1 DEF BytesArrive
  <1>6. CASE ServerReads
    <2>1. window' \in 0 .. Window
      BY <1>6, TransportConstants DEF ServerReads
    <2> QED BY <1>1, <1>2, <1>6, <2>1 DEF ServerReads
  <1>7. CASE PeerCloses
    BY <1>1, <1>2, <1>7 DEF PeerCloses
  <1>8. CASE UNCHANGED vars
    BY <1>1, <1>2, <1>8 DEF vars, networkVars
  <1> QED BY <1>4, <1>5, <1>6, <1>7, <1>8

\* All of it together is inductive.
LEMMA ClientInvHolds == Spec => []ClientInv
  <1>1. Init => ClientInv
    BY InitInv, InitClient DEF ClientInv
  <1>2. ClientInv /\ [Next]_vars => ClientInv'
    <2> SUFFICES ASSUME ClientInv, [Next]_vars PROVE ClientInv'
      OBVIOUS
    <2>1. Inv'
      BY OwnerKeepsInv, ReceiverKeepsInv, SenderKeepsInv, NetworkKeepsInv DEF ClientInv, Next
    <2>2. DataTypes' /\ WriteInv'
      BY OwnerKeepsTypes, ReceiverKeepsTypes, SenderKeepsTypes, NetworkKeepsTypes DEF Next
    <2>3. FlagTypes'
      BY TypeParts, FlagsKeepTypes DEF ClientInv
    <2>4. TypeOK'
      BY <2>2, <2>3 DEF TypeOK, FlagTypes, DataTypes
    <2>5. ReadInv'
      BY OwnerKeepsReading, ReceiverKeepsReading, OthersKeepReading DEF ClientInv, Next
    <2> QED BY <2>1, <2>2, <2>4, <2>5 DEF ClientInv
  <1> QED BY <1>1, <1>2, PTL DEF Spec

\* Every variable keeps its type: no read goes past what arrived, no write past the
\* message or the server's window (transportClient.cpp:430-490).
THEOREM ClientTypes == Spec => []TypeOK
  <1>1. ClientInv => TypeOK
    BY DEF ClientInv
  <1> QED BY <1>1, ClientInvHolds, PTL

\* However long the stream, and however it is cut into reads: the callback gets the frames
\* of the stream, whole, in order and each once, and none from a broken one on
\* (transportClient.cpp:255-455).
THEOREM FramesDelivered == Spec => []FramesWholeAndInOrder
  <1>1. ClientInv => FramesWholeAndInOrder
    BY DEF ClientInv, ReadInv, DeliveredInv
  <1> QED BY <1>1, ClientInvHolds, PTL

-----------------------------------------------------------------------------
(* The refinement.  What is needed beyond Inv is that the flags are down   *)
(* when the owner joins and connects.                                      *)

\* disconnect() clears both flags before it joins, and only startReceiveLoop(), which
\* starts a thread, sets recvRunning_ again.
FlagsInv ==
    /\ receiveThread \in {"none", "running", "ended"}
    /\ receiveThread = "none" => ~recvRunning
    /\ opc \in {"join", "lock", "free"} => ~recvRunning

\* The frames of the threads, and the three parts of the invariant that tie the
\* receive thread to the owner.
USE DEF Inv, LockInv, ThreadInv, SessionInv, FlagsInv, OwnerFrame, ReceiverFrame, SenderFrame,
        memberVars, receiverVars, senderVars, serverVars, networkVars, historyVars

\* The owner brings the flags up with the thread, and down before it joins it.
LEMMA OwnerKeepsFlags ==
    ASSUME Inv, FlagsInv, InitSslContext \/ Disconnect \/ OwnerStep
    PROVE  FlagsInv'
  <1>1. CASE InitSslContext \/ Disconnect
    BY <1>1 DEF InitSslContext, Disconnect
  <1>2. CASE CreateSocketAndConnect \/ SslConnect \/ ReceiveClientId \/ SetConnected
    BY <1>2 DEF CreateSocketAndConnect, SslConnect, ReceiveClientId, SetConnected
  <1>3. CASE StartReceiveLoop
    BY <1>3 DEF StartReceiveLoop
  <1>4. CASE DisconnectFlags \/ DisconnectJoin \/ DisconnectLock \/ DisconnectFree
    BY <1>4 DEF DisconnectFlags, DisconnectJoin, DisconnectLock, DisconnectFree
  <1> QED
    BY <1>1, <1>2, <1>3, <1>4 DEF OwnerStep

\* The other threads only clear flags.
LEMMA OthersKeepFlags ==
    ASSUME Inv, FlagsInv,
           ReceiverStep \/ SendMidiMessage \/ SenderStep \/ ServerAnswers \/ BytesArrive
             \/ ServerReads \/ PeerCloses \/ UNCHANGED vars
    PROVE  FlagsInv'
  <1>1. CASE ReceiveLoopTest \/ ReadExactTest \/ SslRead \/ SslReadTimeout \/ CallbackReturns
    BY <1>1 DEF ReceiveLoopTest, ReadExactTest, SslRead, SslReadTimeout, CallbackReturns
  <1>2. CASE SslReadFails \/ ParseLength \/ ParseFrame
    BY <1>2 DEF SslReadFails, ParseLength, ParseFrame, EndOfConnection
  <1>3. CASE SendMidiMessage \/ SenderStep
    BY <1>3 DEF SendMidiMessage, SenderStep, SendLock, WriteAllTest, SslWrite, SslWriteFails
  <1>4. CASE ServerAnswers \/ BytesArrive \/ ServerReads \/ PeerCloses \/ UNCHANGED vars
    BY <1>4 DEF ServerAnswers, BytesArrive, ServerReads, PeerCloses, vars
  <1> QED
    BY <1>1, <1>2, <1>3, <1>4 DEF ReceiverStep

\* Each step of the owner is one of the connection, or not seen by it.
LEMMA OwnerRefines ==
    ASSUME Inv, FlagsInv, InitSslContext \/ Disconnect \/ OwnerStep
    PROVE  [Connection!Next]_(Connection!connectionVars)
  <1> USE DEF Connection!connectionVars, Connection!Next
  <1>1. CASE InitSslContext \/ Disconnect
    BY <1>1 DEF InitSslContext, Disconnect
  <1>2. CASE CreateSocketAndConnect \/ SslConnect \/ ReceiveClientId
    BY <1>2 DEF CreateSocketAndConnect, SslConnect, ReceiveClientId
  <1>3. CASE SetConnected
    BY <1>3 DEF SetConnected, Connection!Connect
  <1>4. CASE StartReceiveLoop
    BY <1>4 DEF StartReceiveLoop, Connection!StartLoop
  <1>5. CASE DisconnectFlags
    BY <1>5 DEF DisconnectFlags, Connection!ClearFlags
  <1>6. CASE DisconnectJoin
    <2>1. rpc # "callback" /\ rpc' # "callback" /\ receiveThread' = "none"
      BY <1>6 DEF DisconnectJoin
    <2>2. CASE receiveThread = "none"
      BY <1>6, <2>1, <2>2 DEF DisconnectJoin
    <2>3. CASE receiveThread = "ended"
      BY <1>6, <2>1, <2>3 DEF DisconnectJoin, Connection!Join
    <2> QED
      BY <1>6, <2>2, <2>3 DEF DisconnectJoin
  <1>7. CASE DisconnectLock \/ DisconnectFree
    BY <1>7 DEF DisconnectLock, DisconnectFree
  <1> QED
    BY <1>1, <1>2, <1>3, <1>4, <1>5, <1>6, <1>7 DEF OwnerStep

\* So is each step of the receive thread.
LEMMA ReceiverRefines ==
    ASSUME Inv, ReceiverStep
    PROVE  [Connection!Next]_(Connection!connectionVars)
  <1> USE DEF Connection!connectionVars, Connection!Next
  <1>1. CASE ReceiveLoopTest \/ ReadExactTest
    BY <1>1 DEF ReceiveLoopTest, ReadExactTest, Connection!LoopEnds
  <1>2. CASE SslRead \/ SslReadTimeout
    BY <1>2 DEF SslRead, SslReadTimeout
  <1>3. CASE SslReadFails \/ ParseLength
    BY <1>3 DEF SslReadFails, ParseLength, EndOfConnection, Connection!ReceiveFails
  <1>4. CASE ParseFrame
    BY <1>4 DEF ParseFrame, EndOfConnection, Connection!ReceiveFails, Connection!Receive
  <1>5. CASE CallbackReturns
    BY <1>5 DEF CallbackReturns, Connection!Return
  <1> QED
    BY <1>1, <1>2, <1>3, <1>4, <1>5 DEF ReceiverStep

\* A sender may give the connection up; the network is not seen.
LEMMA OthersRefine ==
    ASSUME Inv, SendMidiMessage \/ SenderStep \/ ServerAnswers \/ BytesArrive
                  \/ ServerReads \/ PeerCloses \/ UNCHANGED vars
    PROVE  [Connection!Next]_(Connection!connectionVars)
  <1> USE DEF Connection!connectionVars, Connection!Next
  <1>1. CASE SendMidiMessage \/ SenderStep
    BY <1>1 DEF SendMidiMessage, SenderStep, SendLock, WriteAllTest, SslWrite, SslWriteFails,
                Connection!SendFails
  <1>2. CASE ServerAnswers \/ BytesArrive \/ ServerReads \/ PeerCloses \/ UNCHANGED vars
    BY <1>2 DEF ServerAnswers, BytesArrive, ServerReads, PeerCloses, vars
  <1> QED
    BY <1>1, <1>2

\* The object with its three threads, its TLS session and any network is a connection
\* as its owner may think of it: one receive thread, started once and joined before
\* the object is connected again.
THEOREM ConnectionRefinement == Spec => ImplementsConnection
  <1>1. Init => Inv /\ FlagsInv /\ Connection!Init
    BY DEF Init, Connection!Init
  <1>2. Inv /\ FlagsInv /\ [Next]_vars => Inv' /\ FlagsInv'
    BY OwnerKeepsInv, ReceiverKeepsInv, SenderKeepsInv, NetworkKeepsInv, OwnerKeepsFlags,
       OthersKeepFlags DEF Next
  <1>3. Inv /\ FlagsInv /\ [Next]_vars => [Connection!Next]_(Connection!connectionVars)
    BY OwnerRefines, ReceiverRefines, OthersRefine DEF Next
  <1> HIDE DEF Inv, LockInv, ThreadInv, SessionInv, FlagsInv
  <1> QED
    BY <1>1, <1>2, <1>3, PTL DEF Spec, ImplementsConnection, Connection!ConnectionSpec
=============================================================================
