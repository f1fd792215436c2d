--------------------------- MODULE TransportClient ---------------------------
(***************************************************************************)
(* One TransportClient object (transportClient.h, transportClient.cpp) and *)
(* the TLS connection under it.  Three threads use it:                     *)
(*                                                                         *)
(*   owner            connectToServer() and disconnect(); the GUI thread;  *)
(*   receive thread   receiveLoop() and readExact();                       *)
(*   sender           sendMidiMessage() and writeAll(); the callback thread *)
(*                    of the MIDI input.                                   *)
(*                                                                         *)
(* connected_ and recvRunning_ are atomics that any of them clears; ssl_ is *)
(* a plain pointer that disconnect() frees.  A byte of the stream is a pair *)
(* <<f, k>>, byte k of frame f, and byte 0 stands for the four bytes of the *)
(* length prefix.  SSL_read returns some of the bytes that are there, or,  *)
(* after the receive timeout of the socket, nothing; SSL_write blocks while *)
(* the server's window is full.                                            *)
(*                                                                         *)
(* connectToServer() is entered only on an object without a receive thread, *)
(* a new one or one that disconnect() has cleaned up: AppController.tla     *)
(* shows when the program keeps to that.                                   *)
(***************************************************************************)
EXTENDS Integers, Sequences, SequencesExt

CONSTANTS
    Streams,       \* what a server may send: sequences of [size, kind], see StreamType
    Window,        \* bytes the server's window holds
    MessageSize,   \* bytes of a MIDI message to send
    MaxConnects,   \* bound on connectToServer()
    MaxSends       \* bound on sendMidiMessage()

\* size is the length that the prefix announces.  It fails the test of the
\* length ("badLength"), or the frame fails a test of its magic, version, sizes or
\* journal lengths ("badFrame").
StreamType ==
    Streams \subseteq Seq([size : Nat \ {0}, kind : {"good", "badLength", "badFrame"}])

ASSUME TransportConstants ==
    /\ StreamType
    /\ Window \in Nat \ {0} /\ MessageSize \in Nat \ {0}
    /\ MaxConnects \in Nat /\ MaxSends \in Nat

VARIABLES
    \* members
    connected, recvRunning, ssl, socket, context, receiveThread, sendMutex,
    \* owner: where it is in connectToServer or disconnect
    opc,
    \* receive thread: where it is, the part of the frame it reads, its buffer
    \* and totalLength
    rpc, part, buffer, totalLength,
    \* sender: where it is, and totalWritten
    spc, written,
    \* the connection: the frames the server has for it, whether it has sent the
    \* client id, whether it keeps the connection up, the bytes that arrived, those
    \* SSL_read returned, and what fills the server's window
    stream, answered, peerUp, arrived, consumed, window,
    \* history: frames handed to the callback, and the bounds' counters
    delivered, connects, sends

memberVars   == <<connected, recvRunning, ssl, socket, context, receiveThread, sendMutex>>
receiverVars == <<rpc, part, buffer, totalLength>>
senderVars   == <<spc, written>>
serverVars   == <<stream, answered>>
networkVars  == <<serverVars, peerUp, arrived, consumed, window>>
historyVars  == <<delivered, connects, sends>>
vars == <<memberVars, opc, receiverVars, senderVars, networkVars, historyVars>>

\* What no step of a thread changes.
OwnerFrame    == UNCHANGED <<senderVars, serverVars, window, sends>>
ReceiverFrame == UNCHANGED <<ssl, socket, context, sendMutex, opc, senderVars, serverVars,
                             peerUp, arrived, window, connects, sends>>
SenderFrame   == UNCHANGED <<recvRunning, ssl, socket, context, receiveThread, opc,
                             receiverVars, serverVars, peerUp, arrived, consumed, delivered,
                             connects>>

-----------------------------------------------------------------------------
(* The stream.                                                              *)

FrameBytes(f) == [k \in 1 .. stream[f].size |-> <<f, k>>]

WireOf(f) == <<<<f, 0>>>> \o FrameBytes(f)

Wire == FlattenSeq([f \in 1 .. Len(stream) |-> WireOf(f)])

\* Faulty variant: the length prefix counts itself.
AnnouncedWithPrefix(byte) == stream[byte[1]].size + 1

\* readBe32 of the length prefix.  The bytes of a frame mean no length: a reader
\* that lost its place reads garbage, here 1.
Announced(byte) == IF byte[2] = 0 THEN stream[byte[1]].size ELSE 1

\* What receiveLoop tests before it allocates a frame, and before it uses one.
LengthAccepted(byte) == byte[2] = 0 => stream[byte[1]].kind # "badLength"
FrameAccepted(bytes) == stream[bytes[1][1]].kind = "good"

-----------------------------------------------------------------------------
Init ==
    /\ connected = FALSE /\ recvRunning = FALSE
    /\ ssl = FALSE /\ socket = FALSE /\ context = FALSE
    /\ receiveThread = "none" /\ sendMutex = "free"
    /\ opc = "idle"
    /\ rpc = "none" /\ part = "length" /\ buffer = <<>> /\ totalLength = 0
    /\ spc = "idle" /\ written = 0
    /\ stream = <<>> /\ answered = FALSE /\ peerUp = FALSE /\ arrived = 0 /\ consumed = 0 /\ window = 0
    /\ delivered = <<>> /\ connects = 0 /\ sends = 0

-----------------------------------------------------------------------------
(* The owner.  Every failure of connectToServer() ends in disconnect().     *)

InitSslContext ==
    /\ opc = "idle" /\ receiveThread = "none" /\ connects < MaxConnects
    /\ context' = TRUE
    /\ opc' = "socket"
    /\ connects' = connects + 1
    /\ OwnerFrame
    /\ UNCHANGED <<connected, recvRunning, ssl, socket, receiveThread, sendMutex,
                   receiverVars, peerUp, arrived, consumed, delivered>>

\* The server accepts, or is unreachable.
CreateSocketAndConnect ==
    /\ opc = "socket"
    /\ \/ /\ socket' = TRUE /\ peerUp' = TRUE
          /\ stream' \in Streams /\ answered' = FALSE
          /\ arrived' = 0 /\ consumed' = 0 /\ window' = 0 /\ delivered' = <<>>
          /\ opc' = "handshake"
       \/ /\ opc' = "flags"
          /\ UNCHANGED <<socket, networkVars, delivered>>
    /\ UNCHANGED <<senderVars, sends, connected, recvRunning, ssl, context, receiveThread, sendMutex,
                   receiverVars, connects>>

\* SSL_new and SSL_connect; the receive timeout of the socket makes a slow
\* handshake fail too.
SslConnect ==
    /\ opc = "handshake"
    /\ ssl' = TRUE
    /\ \/ peerUp /\ opc' = "id"
       \/ opc' = "flags"
    /\ OwnerFrame
    /\ UNCHANGED <<connected, recvRunning, socket, context, receiveThread, sendMutex,
                   receiverVars, peerUp, arrived, consumed, delivered, connects>>


\* receiveClientId() reads until the eight bytes are there; they come before the
\* first frame and are not part of the stream.  Only an error ends it otherwise: a
\* read that times out is retried for ever.
ReceiveClientId ==
    /\ opc = "id"
    /\ \/ answered /\ opc' = "connected"
       \/ ~answered /\ ~peerUp /\ opc' = "flags"
    /\ OwnerFrame
    /\ UNCHANGED <<memberVars, receiverVars, peerUp, arrived, consumed, delivered, connects>>

SetConnected ==
    /\ opc = "connected"
    /\ connected' = TRUE
    /\ opc' = "start"
    /\ OwnerFrame
    /\ UNCHANGED <<recvRunning, ssl, socket, context, receiveThread, sendMutex,
                   receiverVars, peerUp, arrived, consumed, delivered, connects>>

StartReceiveLoop ==
    /\ opc = "start"
    /\ IF recvRunning
       THEN UNCHANGED <<recvRunning, receiveThread, rpc>>
       ELSE recvRunning' = TRUE /\ receiveThread' = "running" /\ rpc' = "loop"
    /\ opc' = "idle"
    /\ OwnerFrame
    /\ UNCHANGED <<connected, ssl, socket, context, sendMutex, part, buffer, totalLength,
                   peerUp, arrived, consumed, delivered, connects>>

\* disconnect() by the owner, at any time it is not in connectToServer().
Disconnect ==
    /\ opc = "idle"
    /\ context \/ receiveThread # "none"
    /\ opc' = "flags"
    /\ OwnerFrame
    /\ UNCHANGED <<memberVars, receiverVars, peerUp, arrived, consumed, delivered, connects>>

\* Faulty variant: connected_ and recvRunning_ keep their values.
DisconnectKeepsFlags ==
    /\ opc = "flags"
    /\ opc' = "join"
    /\ OwnerFrame
    /\ UNCHANGED <<memberVars, receiverVars, peerUp, arrived, consumed, delivered, connects>>

DisconnectFlags ==
    /\ opc = "flags"
    /\ connected' = FALSE /\ recvRunning' = FALSE
    /\ opc' = "join"
    /\ OwnerFrame
    /\ UNCHANGED <<ssl, socket, context, receiveThread, sendMutex, receiverVars, peerUp,
                   arrived, consumed, delivered, connects>>

DisconnectJoin ==
    /\ opc = "join" /\ receiveThread # "running"
    /\ receiveThread' = "none" /\ rpc' = "none"
    /\ opc' = "lock"
    /\ OwnerFrame
    /\ UNCHANGED <<connected, recvRunning, ssl, socket, context, sendMutex, part, buffer,
                   totalLength, peerUp, arrived, consumed, delivered, connects>>

\* Faulty variant: the connection is freed without sendMutex_.
DisconnectWithoutLock ==
    /\ opc = "lock"
    /\ opc' = "free"
    /\ OwnerFrame
    /\ UNCHANGED <<memberVars, receiverVars, peerUp, arrived, consumed, delivered, connects>>

DisconnectLock ==
    /\ opc = "lock" /\ sendMutex = "free"
    /\ sendMutex' = "owner"
    /\ opc' = "free"
    /\ OwnerFrame
    /\ UNCHANGED <<connected, recvRunning, ssl, socket, context, receiveThread,
                   receiverVars, peerUp, arrived, consumed, delivered, connects>>

DisconnectFree ==
    /\ opc = "free"
    /\ ssl' = FALSE /\ socket' = FALSE /\ context' = FALSE /\ peerUp' = FALSE
    /\ sendMutex' = "free"
    /\ opc' = "idle"
    /\ OwnerFrame
    /\ UNCHANGED <<connected, recvRunning, receiveThread, receiverVars, arrived, consumed,
                   delivered, connects>>

OwnerStep ==
    \/ CreateSocketAndConnect
    \/ SslConnect
    \/ ReceiveClientId
    \/ SetConnected
    \/ StartReceiveLoop
    \/ DisconnectFlags
    \/ DisconnectJoin
    \/ DisconnectLock
    \/ DisconnectFree

-----------------------------------------------------------------------------
(* The receive thread.                                                      *)

Wanted == IF part = "length" THEN 1 ELSE totalLength

\* The loops of receiveLoop (between frames) and of readExact (within a part) test
\* both flags.
ReceiveLoopTest ==
    /\ rpc = "loop"
    /\ IF recvRunning /\ connected
       THEN rpc' = "test" /\ part' = "length" /\ buffer' = <<>> /\ UNCHANGED receiveThread
       ELSE rpc' = "ended" /\ receiveThread' = "ended" /\ UNCHANGED <<part, buffer>>
    /\ ReceiverFrame
    /\ UNCHANGED <<connected, recvRunning, totalLength, consumed, delivered>>

\* readExact is done when the part is there, whatever the flags say by then.
ReadExactTest ==
    /\ rpc = "test"
    /\ IF Len(buffer) = Wanted
       THEN rpc' = "parse" /\ UNCHANGED receiveThread
       ELSE IF recvRunning /\ connected
            THEN rpc' = "read" /\ UNCHANGED receiveThread
            ELSE rpc' = "ended" /\ receiveThread' = "ended"
    /\ ReceiverFrame
    /\ UNCHANGED <<connected, recvRunning, part, buffer, totalLength, consumed, delivered>>

\* Faulty variant: a read that returns too little starts the part again.
AppendedOrRestarted(bytes) == IF Len(bytes) = Wanted THEN bytes ELSE <<>>

Appended(bytes) == buffer \o bytes

\* SSL_read returns some of what is there.
SslRead ==
    /\ rpc = "read"
    /\ \E n \in 1 .. Wanted - Len(buffer) :
         /\ consumed + n <= arrived
         /\ buffer' = Appended(SubSeq(Wire, consumed + 1, consumed + n))
         /\ consumed' = consumed + n
    /\ rpc' = "test"
    /\ ReceiverFrame
    /\ UNCHANGED <<connected, recvRunning, receiveThread, part, totalLength, delivered>>

\* The receive timeout of 100 ms: SSL_ERROR_WANT_READ.
SslReadTimeout ==
    /\ rpc = "read" /\ consumed = arrived /\ peerUp
    /\ rpc' = "test"
    /\ ReceiverFrame
    /\ UNCHANGED <<connected, recvRunning, receiveThread, part, buffer, totalLength,
                   consumed, delivered>>

\* The receive thread gives the connection up.
EndOfConnection ==
    /\ connected' = FALSE /\ recvRunning' = FALSE
    /\ rpc' = "ended" /\ receiveThread' = "ended"

\* End of stream or an error.
SslReadFails ==
    /\ rpc = "read" /\ ~peerUp
    /\ EndOfConnection
    /\ ReceiverFrame
    /\ UNCHANGED <<part, buffer, totalLength, consumed, delivered>>

ParseLength ==
    /\ rpc = "parse" /\ part = "length"
    /\ IF LengthAccepted(buffer[1])
       THEN /\ part' = "frame" /\ buffer' = <<>>
            /\ totalLength' = Announced(buffer[1])
            /\ rpc' = "test"
            /\ UNCHANGED <<connected, recvRunning, receiveThread>>
       ELSE EndOfConnection /\ UNCHANGED <<part, buffer, totalLength>>
    /\ ReceiverFrame
    /\ UNCHANGED <<consumed, delivered>>

\* A frame that passes the tests reaches the callback.
ParseFrame ==
    /\ rpc = "parse" /\ part = "frame"
    /\ IF FrameAccepted(buffer)
       THEN /\ delivered' = Append(delivered, buffer)
            /\ rpc' = "callback"
            /\ UNCHANGED <<connected, recvRunning, receiveThread>>
       ELSE EndOfConnection /\ UNCHANGED delivered
    /\ ReceiverFrame
    /\ UNCHANGED <<part, buffer, totalLength, consumed>>

CallbackReturns ==
    /\ rpc = "callback"
    /\ rpc' = "loop" /\ buffer' = <<>>
    /\ ReceiverFrame
    /\ UNCHANGED <<connected, recvRunning, receiveThread, part, totalLength, consumed, delivered>>

ReceiverStep ==
    \/ ReceiveLoopTest
    \/ ReadExactTest
    \/ SslRead
    \/ SslReadTimeout
    \/ SslReadFails
    \/ ParseLength
    \/ ParseFrame
    \/ CallbackReturns

-----------------------------------------------------------------------------
(* The sender.                                                              *)

SendMidiMessage ==
    /\ spc = "idle" /\ connected /\ sends < MaxSends
    /\ spc' = "lock"
    /\ sends' = sends + 1
    /\ SenderFrame /\ UNCHANGED <<connected, sendMutex, written, window>>

SendLock ==
    /\ spc = "lock" /\ sendMutex = "free"
    /\ sendMutex' = "sender"
    /\ spc' = "test" /\ written' = 0
    /\ SenderFrame /\ UNCHANGED <<connected, window, sends>>

\* Faulty variant: off by one.
MoreToWriteOrDone == written <= MessageSize

MoreToWrite == written < MessageSize

WriteAllTest ==
    /\ spc = "test"
    /\ IF connected /\ MoreToWrite
       THEN spc' = "write" /\ UNCHANGED <<sendMutex, written>>
       ELSE spc' = "idle" /\ sendMutex' = "free" /\ written' = 0
    /\ SenderFrame /\ UNCHANGED <<connected, window, sends>>

\* SSL_write blocks while the window is full.
SslWrite ==
    /\ spc = "write" /\ peerUp /\ window < Window
    /\ window' = window + 1 /\ written' = written + 1
    /\ spc' = "test"
    /\ SenderFrame /\ UNCHANGED <<connected, sendMutex, sends>>

SslWriteFails ==
    /\ spc = "write" /\ ~peerUp
    /\ connected' = FALSE
    /\ spc' = "idle" /\ sendMutex' = "free" /\ written' = 0
    /\ SenderFrame /\ UNCHANGED <<window, sends>>

SenderStep ==
    \/ SendLock
    \/ WriteAllTest
    \/ SslWrite
    \/ SslWriteFails

-----------------------------------------------------------------------------
(* The network and the server.                                              *)

\* The server registers the client and sends its id; a silent one never does.
ServerAnswers ==
    /\ peerUp /\ opc = "id" /\ ~answered
    /\ answered' = TRUE
    /\ UNCHANGED <<memberVars, opc, receiverVars, senderVars, stream, peerUp, arrived,
                   consumed, window, historyVars>>

BytesArrive ==
    /\ peerUp /\ answered /\ arrived < Len(Wire)
    /\ arrived' = arrived + 1
    /\ UNCHANGED <<memberVars, opc, receiverVars, senderVars, serverVars, peerUp, consumed,
                   window, historyVars>>

ServerReads ==
    /\ window > 0
    /\ window' = window - 1
    /\ UNCHANGED <<memberVars, opc, receiverVars, senderVars, serverVars, peerUp, arrived,
                   consumed, historyVars>>

PeerCloses ==
    /\ peerUp
    /\ peerUp' = FALSE
    /\ UNCHANGED <<memberVars, opc, receiverVars, senderVars, serverVars, arrived, consumed,
                   window, historyVars>>

-----------------------------------------------------------------------------
Next ==
    \/ InitSslContext
    \/ Disconnect
    \/ OwnerStep
    \/ ReceiverStep
    \/ SendMidiMessage
    \/ SenderStep
    \/ ServerAnswers
    \/ BytesArrive
    \/ ServerReads
    \/ PeerCloses

Spec == Init /\ [][Next]_vars

\* The threads run.  The server need not send anything, not even the client id, nor read
\* what it is sent; no message need be sent to it, and the connection need not fail.
FairSpec ==
    /\ Spec
    /\ WF_vars(OwnerStep)
    /\ WF_vars(ReceiverStep)
    /\ WF_vars(SenderStep)

-----------------------------------------------------------------------------
(* Properties.                                                              *)

\* The type of every variable: each thread is at one of its steps and the mutex
\* has at most one holder; no thread reads or writes past what is there
\* (transportClient.h:55-68, transportClient.cpp:437, 477).
TypeOK ==
    /\ connected \in BOOLEAN /\ recvRunning \in BOOLEAN
    /\ ssl \in BOOLEAN /\ socket \in BOOLEAN /\ context \in BOOLEAN
    /\ receiveThread \in {"none", "running", "ended"}
    /\ sendMutex \in {"free", "owner", "sender"}
    /\ opc \in {"idle", "socket", "handshake", "id", "connected", "start",
                "flags", "join", "lock", "free"}
    /\ rpc \in {"none", "loop", "test", "read", "parse", "callback", "ended"}
    /\ part \in {"length", "frame"} /\ totalLength \in Nat
    /\ buffer \in Seq(Nat \X Nat)
    /\ spc \in {"idle", "lock", "test", "write"} /\ written \in 0 .. MessageSize
    /\ stream \in Streams \cup {<<>>} /\ answered \in BOOLEAN /\ peerUp \in BOOLEAN
    /\ arrived \in 0 .. Len(Wire) /\ consumed \in 0 .. arrived /\ window \in 0 .. Window
    /\ connects \in 0 .. MaxConnects /\ sends \in 0 .. MaxSends

\* disconnect() frees the TLS session only when neither the receive thread is in
\* SSL_read nor a sender in SSL_write: it waits for the one by joining it and for
\* the other with sendMutex_.
SessionAliveWhileUsed ==
    /\ rpc = "read" => ssl
    /\ spc = "write" => ssl

\* However the stream is cut into reads and whenever they time out, the callback
\* gets whole frames, in order, none twice, and none from a broken frame on.
FramesWholeAndInOrder ==
    \A i \in 1 .. Len(delivered) :
        /\ delivered[i] = FrameBytes(i)
        /\ \A j \in 1 .. i : stream[j].kind = "good"

\* A server that accepts the connection and never sends the client id.
WaitsForId == opc = "id" /\ peerUp /\ ~answered

\* A server that stops reading: a sender holds the mutex in SSL_write.
WaitsForSender == opc = "lock" /\ spc = "write" /\ peerUp /\ window = Window


\* The frames before the first broken one.
GoodFrames == {n \in 1 .. Len(stream) : \A j \in 1 .. n : stream[j].kind = "good"}

\* When the whole stream has arrived on a connection that stays up, every frame up
\* to the first broken one is delivered.
ArrivedFramesDelivered ==
    connected /\ arrived = Len(Wire)
        ~> ~connected \/ \A n \in GoodFrames : Len(delivered) >= n

-----------------------------------------------------------------------------
(* Refinement.                                                              *)

Connection == INSTANCE ClientConnection
                WITH thread <- IF rpc = "callback" THEN rpc ELSE receiveThread

\* Seen from its owner, the object is a connection with one receive thread, which is
\* started once, ends before it is joined and is joined before the next connection:
\* neither a failed attempt nor a sender that gives up leaves a flag or a thread
\* behind (transportClient.cpp:140-253).
ImplementsConnection == Connection!ConnectionSpec
=============================================================================
