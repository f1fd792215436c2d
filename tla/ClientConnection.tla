-------------------------- MODULE ClientConnection --------------------------
(***************************************************************************)
(* What one TransportClient object promises to the one who owns it: the    *)
(* life of its connection and of its receive thread.  TransportClient.tla   *)
(* implements it with a socket, a TLS session and three threads, and       *)
(* AppController.tla, which has many objects, uses it for each of them.     *)
(***************************************************************************)

VARIABLES
    connected, recvRunning,  \* the two flags
    thread                   \* the receive thread; "callback" while it is in the callback

connectionVars == <<connected, recvRunning, thread>>

Init == connected = FALSE /\ recvRunning = FALSE /\ thread = "none"

\* connectToServer() on an object that is new or cleaned up.
Connect ==
    /\ thread = "none" /\ ~recvRunning
    /\ connected' = TRUE
    /\ UNCHANGED <<recvRunning, thread>>

\* The one receive thread of the connection.
StartLoop ==
    /\ thread = "none" /\ ~recvRunning
    /\ recvRunning' = TRUE /\ thread' = "running"
    /\ UNCHANGED connected

\* The callback gets a frame.
Receive ==
    /\ thread = "running"
    /\ thread' = "callback"
    /\ UNCHANGED <<connected, recvRunning>>

\* The loop goes on, or ends because a flag is cleared.
Return ==
    /\ thread = "callback"
    /\ thread' = "running" \/ (~(connected /\ recvRunning) /\ thread' = "ended")
    /\ UNCHANGED <<connected, recvRunning>>

LoopEnds ==
    /\ thread = "running" /\ ~(connected /\ recvRunning)
    /\ thread' = "ended"
    /\ UNCHANGED <<connected, recvRunning>>

\* The receive thread gives the connection up.
ReceiveFails ==
    /\ thread = "running"
    /\ connected' = FALSE /\ recvRunning' = FALSE /\ thread' = "ended"

\* A sender gives the connection up; the receive thread is left to find out.
SendFails ==
    /\ connected' = FALSE
    /\ UNCHANGED <<recvRunning, thread>>

\* disconnect(), first the flags, then the join.
ClearFlags ==
    /\ connected' = FALSE /\ recvRunning' = FALSE
    /\ UNCHANGED thread

Join ==
    /\ thread = "ended" /\ ~connected /\ ~recvRunning
    /\ thread' = "none"
    /\ UNCHANGED <<connected, recvRunning>>

Next ==
    \/ Connect
    \/ StartLoop
    \/ Receive
    \/ Return
    \/ LoopEnds
    \/ ReceiveFails
    \/ SendFails
    \/ ClearFlags
    \/ Join

ConnectionSpec == Init /\ [][Next]_connectionVars
=============================================================================
