---------------------------- MODULE AppController ----------------------------
(***************************************************************************)
(* The whole client as AppController.cpp puts it together: which object is *)
(* alive, connected, open, wired and running while the user works the      *)
(* window of GuiApp.cpp and the connection breaks when it will.            *)
(*                                                                         *)
(*   GUI thread        one handler at a time: Connect, Disconnect, Start,  *)
(*                     Stop, and shutdown() after the window is closed;    *)
(*   receive threads   one per TransportClient object that has one;        *)
(*   MIDI input        the callback thread of libremidi;                   *)
(*   worker            the thread of ReceiveScheduler, as far as stop()    *)
(*                     depends on it.                                      *)
(*                                                                         *)
(* setServerConfig() replaces the TransportClient object, so objects are    *)
(* numbered in the order of their construction, and transportClient_ is     *)
(* the number of one of them.  TransportClient.tla models the inside of one, *)
(* ReceiveScheduler.tla that of the worker and of enqueue(): here a receive *)
(* callback, a callback of the MIDI input and a session of the worker last  *)
(* from one step to another, whatever they do.                              *)
(***************************************************************************)
EXTENDS Integers, Sequences, SequencesExt

CONSTANTS MaxObjects   \* bound on TransportClient objects

ASSUME ControllerConstants == MaxObjects \in Nat \ {0}

VARIABLES
    \* the TransportClient objects, and transportClient_ (0 is the null pointer)
    object, client,
    \* the other members of AppController; a port is in selected when its
    \* hasSelected flag is set
    streaming, callbacksWired, selected,
    \* the components shutdown() has not destroyed, in the order it will
    built,
    \* the handlers' open_ flags, their callbacks, and the worker: in its loop while
    \* running_ is set, then ending, or asleep because it missed that it should end
    open, inputCallbacks, outputCallback, worker,
    \* GUI thread: where it is, the function that called disconnect() or
    \* stopStreaming(), and the object that disconnect() works on
    gpc, caller, target,
    \* MIDI input thread: where it is, and the object it sends on
    midi, midiObject,
    \* history: the objects whose connection broke, and whether one broke between
    \* the two tests of a Connect
    lost, raced

controllerVars == <<client, streaming, callbacksWired, selected, built>>
handlerVars    == <<open, inputCallbacks, outputCallback, worker>>
guiVars        == <<gpc, caller, target>>
midiVars       == <<midi, midiObject>>
historyVars    == <<lost, raced>>
vars == <<object, controllerVars, handlerVars, guiVars, midiVars, historyVars>>

\* What no step of a thread changes.
GuiFrame     == UNCHANGED <<midiVars, lost, raced>>
ReceiveFrame == UNCHANGED <<controllerVars, handlerVars, guiVars, midiVars>>
MidiFrame    == UNCHANGED <<controllerVars, handlerVars, guiVars>>
WorkerFrame  == UNCHANGED <<object, controllerVars, open, inputCallbacks, outputCallback,
                            guiVars, midiVars, historyVars>>

Objects == 1 .. MaxObjects
Ports   == {"input", "output"}

\* A TransportClient object: thread is its receive thread, which takes a copy of
\* receiveCallback_ for each frame; an object that is not constructed yet, or
\* destroyed, is not alive.
ObjectType ==
    [alive : BOOLEAN, connected : BOOLEAN, recvRunning : BOOLEAN, callback : BOOLEAN,
     thread : {"none", "running", "callback", "ended"}]

NewObject == [alive |-> TRUE, connected |-> FALSE, recvRunning |-> FALSE,
              callback |-> FALSE, thread |-> "none"]

\* The order of shutdown().
DestructionOrder == <<"observer", "clockState", "midiInput", "midiOutput", "scheduler",
                      "timeSync", "transportClient">>

Connected == client # 0 /\ object[client].connected

-----------------------------------------------------------------------------
\* After initialize().
Init ==
    /\ object = [g \in Objects |-> [NewObject EXCEPT !.alive = g = 1]] /\ client = 1
    /\ streaming = FALSE /\ callbacksWired = FALSE /\ selected = {}
    /\ built = DestructionOrder
    /\ open = {} /\ inputCallbacks = FALSE
    /\ outputCallback = FALSE /\ worker = "none"
    /\ gpc = "idle" /\ caller = "none" /\ target = 1
    /\ midi = "idle" /\ midiObject = 1
    /\ lost = {} /\ raced = FALSE

-----------------------------------------------------------------------------
(* The Connect button: setServerConfig(), then connect().                   *)

\* Faulty variant: the object is replaced whether it is connected or not.
SetServerConfigAnyway ==
    /\ gpc = "idle" /\ client < MaxObjects
    /\ client' = client + 1
    /\ object' = [object EXCEPT ![client + 1] = NewObject]
    /\ target' = client /\ caller' = "setServerConfig" /\ gpc' = "flags"
    /\ GuiFrame
    /\ UNCHANGED <<streaming, callbacksWired, selected, built, handlerVars>>

\* Faulty variant: the object is never replaced.
SetServerConfigNever ==
    /\ gpc = "idle"
    /\ gpc' = "connect"
    /\ GuiFrame
    /\ UNCHANGED <<object, controllerVars, handlerVars, caller, target>>

\* A connected object is kept.  Another one is replaced: transportClient_ points to
\* the new object before the destructor of the old one calls disconnect().
SetServerConfig ==
    /\ gpc = "idle"
    /\ IF Connected
       THEN gpc' = "connect" /\ UNCHANGED <<object, client, caller, target>>
       ELSE /\ client < MaxObjects
            /\ client' = client + 1
            /\ object' = [object EXCEPT ![client + 1] = NewObject]
            /\ target' = client /\ caller' = "setServerConfig" /\ gpc' = "flags"
    /\ GuiFrame
    /\ UNCHANGED <<streaming, callbacksWired, selected, built, handlerVars>>

Connect ==
    /\ gpc = "connect"
    /\ gpc' = IF Connected THEN "idle" ELSE "connecting"
    /\ GuiFrame
    /\ UNCHANGED <<object, controllerVars, handlerVars, caller, target>>

\* The server answers, or refuses, or stays silent for ever.  The client id of a
\* connection that succeeds is never empty, so getClientId() does not fail.
ConnectToServer ==
    /\ gpc = "connecting"
    /\ \/ /\ object' = [object EXCEPT ![client].connected = TRUE]
          /\ gpc' = "startLoop"
          /\ UNCHANGED <<caller, target>>
       \/ /\ gpc' = "flags" /\ caller' = "connectToServer" /\ target' = client
          /\ UNCHANGED object
    /\ GuiFrame
    /\ UNCHANGED <<controllerVars, handlerVars>>

\* To assign to a std::thread that has not been joined ends the program; the other
\* threads may run on for a moment.
StartReceiveLoop ==
    /\ gpc = "startLoop"
    /\ IF object[client].recvRunning
       THEN gpc' = "idle" /\ UNCHANGED object
       ELSE /\ object' = [object EXCEPT ![client].recvRunning = TRUE,
                                        ![client].thread = "running"]
            /\ gpc' = IF object[client].thread = "none" THEN "idle" ELSE "terminated"
    /\ GuiFrame
    /\ UNCHANGED <<controllerVars, handlerVars, caller, target>>

-----------------------------------------------------------------------------
(* TransportClient::disconnect() on the object target.                      *)

\* Faulty variant: recvRunning_ and connected_ keep their values.
DisconnectKeepsFlags ==
    /\ gpc = "flags"
    /\ gpc' = "join"
    /\ GuiFrame
    /\ UNCHANGED <<object, controllerVars, handlerVars, caller, target>>

DisconnectFlags ==
    /\ gpc = "flags"
    /\ object' = [object EXCEPT ![target].connected = FALSE, ![target].recvRunning = FALSE]
    /\ gpc' = "join"
    /\ GuiFrame
    /\ UNCHANGED <<controllerVars, handlerVars, caller, target>>

\* Faulty variant: the receive thread is detached.
DisconnectDetach ==
    /\ gpc = "join"
    /\ gpc' = "free"
    /\ GuiFrame
    /\ UNCHANGED <<object, controllerVars, handlerVars, caller, target>>

DisconnectJoin ==
    /\ gpc = "join" /\ object[target].thread \notin {"running", "callback"}
    /\ object' = [object EXCEPT ![target].thread = "none"]
    /\ gpc' = "free"
    /\ GuiFrame
    /\ UNCHANGED <<controllerVars, handlerVars, caller, target>>

\* Faulty variant: an object does not survive a failed connectToServer().
SurvivesDisconnectOnly == caller \in {"disconnect", "shutdown"}

\* disconnect() is called by the destructor or by a method.
SurvivesDisconnect == caller # "setServerConfig"

\* The connection is freed under sendMutex_; then disconnect() returns to its
\* caller, ~TransportClient() when setServerConfig() replaced the object.
DisconnectFree ==
    /\ gpc = "free" /\ ~(midi = "writing" /\ midiObject = target)
    /\ object' = [object EXCEPT ![target].alive = SurvivesDisconnect]
    /\ callbacksWired' = (callbacksWired /\ caller # "disconnect")
    /\ gpc' = CASE caller = "setServerConfig" -> "connect"
                [] caller = "shutdown"        -> "destroy"
                [] OTHER                      -> "idle"
    /\ GuiFrame
    /\ UNCHANGED <<client, streaming, selected, built, handlerVars, caller, target>>

-----------------------------------------------------------------------------
(* The port lists and the Start button.                                     *)

SelectPort ==
    /\ gpc = "idle"
    /\ \E port \in Ports : selected' = selected \cup {port}
    /\ GuiFrame
    /\ UNCHANGED <<object, client, streaming, callbacksWired, built, handlerVars, guiVars>>

StartStreaming ==
    /\ gpc = "idle" /\ Connected /\ ~streaming /\ selected = Ports
    /\ gpc' = "openInput"
    /\ GuiFrame
    /\ UNCHANGED <<object, controllerVars, handlerVars, caller, target>>

\* A port opens, or its device is gone.
OpenInput ==
    /\ gpc = "openInput"
    /\ \/ open' = open \cup {"input"} /\ gpc' = "openOutput"
       \/ gpc' = "idle" /\ UNCHANGED open
    /\ GuiFrame
    /\ UNCHANGED <<object, controllerVars, inputCallbacks, outputCallback, worker,
                   caller, target>>

\* Faulty variant: the input stays open when the output does not open.
OpenOutputOrGiveUp ==
    /\ gpc = "openOutput"
    /\ \/ open' = open \cup {"output"} /\ gpc' = "wire"
       \/ gpc' = "idle" /\ UNCHANGED open
    /\ GuiFrame
    /\ UNCHANGED <<object, controllerVars, inputCallbacks, outputCallback, worker,
                   caller, target>>

OpenOutput ==
    /\ gpc = "openOutput"
    /\ \/ open' = open \cup {"output"} /\ gpc' = "wire"
       \/ gpc' = "closeAgain" /\ UNCHANGED open
    /\ GuiFrame
    /\ UNCHANGED <<object, controllerVars, inputCallbacks, outputCallback, worker,
                   caller, target>>

\* libremidi closes a port when its callback has returned.
CloseInputAgain ==
    /\ gpc = "closeAgain" /\ midi = "idle"
    /\ open' = open \ {"input"}
    /\ gpc' = "idle"
    /\ GuiFrame
    /\ UNCHANGED <<object, controllerVars, inputCallbacks, outputCallback, worker,
                   caller, target>>

WireCallbacks ==
    /\ gpc = "wire"
    /\ IF callbacksWired
       THEN UNCHANGED <<object, inputCallbacks, outputCallback, callbacksWired>>
       ELSE /\ object' = [object EXCEPT ![client].callback = TRUE]
            /\ inputCallbacks' = TRUE /\ outputCallback' = TRUE
            /\ callbacksWired' = TRUE
    /\ gpc' = "startScheduler"
    /\ GuiFrame
    /\ UNCHANGED <<client, streaming, selected, built, open, worker, caller, target>>

StartScheduler ==
    /\ gpc = "startScheduler"
    /\ worker' = "session" /\ streaming' = TRUE
    /\ gpc' = "idle"
    /\ GuiFrame
    /\ UNCHANGED <<object, client, callbacksWired, selected, built, open, inputCallbacks,
                   outputCallback, caller, target>>

-----------------------------------------------------------------------------
(* stopStreaming(), which the Stop and Disconnect buttons and shutdown() call. *)

StopStreaming ==
    /\ gpc = "idle"
    /\ caller' \in {"stop", "disconnect", "shutdown"}
    /\ gpc' = "clearReceive"
    /\ GuiFrame
    /\ UNCHANGED <<object, controllerVars, handlerVars, target>>

ClearReceiveCallback ==
    /\ gpc = "clearReceive"
    /\ object' = [object EXCEPT ![client].callback = FALSE]
    /\ gpc' = "stopScheduler"
    /\ GuiFrame
    /\ UNCHANGED <<controllerVars, handlerVars, caller, target>>


\* stop() clears running_ and notifies without mutex_.  Only a worker between the test
\* of its predicate and its wait misses both (wpc = "blocking" in ReceiveScheduler).
StopScheduler ==
    /\ gpc = "stopScheduler"
    /\ worker' \in IF worker = "session" THEN {"ending", "missed"} ELSE {worker}
    /\ gpc' = "joinWorker"
    /\ GuiFrame
    /\ UNCHANGED <<object, controllerVars, open, inputCallbacks, outputCallback, caller, target>>

\* The join, if the worker was started, and setOutputCallback(nullptr).
JoinWorker ==
    /\ gpc = "joinWorker" /\ worker = "none"
    /\ outputCallback' = FALSE
    /\ gpc' = "clearInput"
    /\ GuiFrame
    /\ UNCHANGED <<object, controllerVars, open, inputCallbacks, worker, caller, target>>

ClearInputCallbacks ==
    /\ gpc = "clearInput"
    /\ inputCallbacks' = FALSE
    /\ gpc' = "closeInput"
    /\ GuiFrame
    /\ UNCHANGED <<object, controllerVars, open, outputCallback, worker, caller,
                   target>>

\* Faulty variant: the input port is closed under a running callback.
CloseInputAtOnce ==
    /\ gpc = "closeInput"
    /\ open' = open \ {"input"}
    /\ gpc' = "closeOutput"
    /\ GuiFrame
    /\ UNCHANGED <<object, controllerVars, inputCallbacks, outputCallback, worker,
                   caller, target>>

CloseInput ==
    /\ gpc = "closeInput" /\ midi = "idle"
    /\ open' = open \ {"input"}
    /\ gpc' = "closeOutput"
    /\ GuiFrame
    /\ UNCHANGED <<object, controllerVars, inputCallbacks, outputCallback, worker,
                   caller, target>>

\* disconnect() and shutdown() go on to TransportClient::disconnect().
CloseOutput ==
    /\ gpc = "closeOutput"
    /\ open' = open \ {"output"}
    /\ streaming' = FALSE /\ callbacksWired' = FALSE
    /\ target' = client
    /\ gpc' = IF caller = "stop" THEN "idle" ELSE "flags"
    /\ GuiFrame
    /\ UNCHANGED <<object, client, selected, built, inputCallbacks, outputCallback,
                   worker, caller>>

\* The rest of shutdown(), one member after the other.
Destroy ==
    /\ gpc = "destroy"
    /\ built' = Tail(built)
    /\ IF Head(built) = "transportClient"
       THEN /\ object' = [object EXCEPT ![client].alive = FALSE]
            /\ client' = 0 /\ selected' = {} /\ gpc' = "exit"
       ELSE UNCHANGED <<object, client, selected, gpc>>
    /\ GuiFrame
    /\ UNCHANGED <<streaming, callbacksWired, handlerVars, caller, target>>

GuiStep ==
    \/ Connect
    \/ StartReceiveLoop
    \/ DisconnectFlags
    \/ DisconnectJoin
    \/ DisconnectFree
    \/ OpenInput
    \/ OpenOutput
    \/ CloseInputAgain
    \/ WireCallbacks
    \/ StartScheduler
    \/ ClearReceiveCallback
    \/ StopScheduler
    \/ JoinWorker
    \/ ClearInputCallbacks
    \/ CloseInput
    \/ CloseOutput
    \/ Destroy

-----------------------------------------------------------------------------
(* The receive thread of an object.                                         *)

\* The thread takes the callback there is when the frame is complete, whatever the
\* flags say by then.
ReceiveFrameOf(g) ==
    /\ object[g].thread = "running" /\ object[g].callback
    /\ object' = [object EXCEPT ![g].thread = "callback"]
    /\ ReceiveFrame /\ UNCHANGED <<lost, raced>>

ReceiveCallbackReturns(g) ==
    /\ object[g].thread = "callback"
    /\ object' = [object EXCEPT ![g].thread =
                     IF object[g].connected /\ object[g].recvRunning THEN "running" ELSE "ended"]
    /\ ReceiveFrame /\ UNCHANGED <<lost, raced>>

\* The flags are tested before each frame and while one is read, at least every
\* 100 ms, the receive timeout.
ReceiveLoopEnds(g) ==
    /\ object[g].thread = "running" /\ ~(object[g].connected /\ object[g].recvRunning)
    /\ object' = [object EXCEPT ![g].thread = "ended"]
    /\ ReceiveFrame /\ UNCHANGED <<lost, raced>>

\* History: a connection that was up broke.
RecordLoss(g) ==
    /\ lost' = IF object[g].connected THEN lost \cup {g} ELSE lost
    /\ raced' = (raced \/ (object[g].connected /\ gpc = "connect" /\ g = client))

\* The stream ends, or a frame is broken.
ReadFails(g) ==
    /\ object[g].thread = "running"
    /\ object' = [object EXCEPT ![g].connected = FALSE, ![g].recvRunning = FALSE,
                                ![g].thread = "ended"]
    /\ RecordLoss(g)
    /\ ReceiveFrame

-----------------------------------------------------------------------------
(* The callback of the MIDI input.                                          *)

MidiMessage ==
    /\ midi = "idle" /\ "input" \in open /\ inputCallbacks
    /\ midi' = "handling"
    /\ MidiFrame /\ UNCHANGED <<object, midiObject, lost, raced>>

\* The lambda of wireCallbacks reads transportClient_ once to test the connection
\* and once more to send.
MidiTest ==
    /\ midi = "handling"
    /\ midi' = IF inputCallbacks /\ Connected THEN "tested" ELSE "idle"
    /\ MidiFrame /\ UNCHANGED <<object, midiObject, lost, raced>>

MidiSend ==
    /\ midi = "tested"
    /\ midiObject' = client
    /\ midi' = IF Connected THEN "sending" ELSE "idle"
    /\ MidiFrame /\ UNCHANGED <<object, lost, raced>>

MidiWrite ==
    /\ midi = "sending"
    /\ midi' = IF object[midiObject].connected THEN "writing" ELSE "idle"
    /\ MidiFrame /\ UNCHANGED <<object, midiObject, lost, raced>>

MidiWritten ==
    /\ midi = "writing"
    /\ midi' = "idle"
    /\ \/ UNCHANGED <<object, lost, raced>>
       \/ /\ object' = [object EXCEPT ![midiObject].connected = FALSE]
          /\ RecordLoss(midiObject)
    /\ MidiFrame /\ UNCHANGED midiObject

MidiStep ==
    \/ MidiTest
    \/ MidiSend
    \/ MidiWrite

-----------------------------------------------------------------------------
(* The worker of the scheduler.                                             *)

WorkerEnds ==
    /\ worker = "ending"
    /\ worker' = "none"
    /\ WorkerFrame

\* A receive callback that was on its way enqueues and notifies, or the wait ends by
\* itself; nothing makes either happen.
WorkerWakes ==
    /\ worker = "missed"
    /\ worker' = "ending"
    /\ WorkerFrame

-----------------------------------------------------------------------------
ReceiveStep(g) ==
    \/ ReceiveCallbackReturns(g)
    \/ ReceiveLoopEnds(g)

Next ==
    \/ SetServerConfig
    \/ SelectPort
    \/ StartStreaming
    \/ StopStreaming
    \/ ConnectToServer
    \/ GuiStep
    \/ \E g \in Objects : ReceiveFrameOf(g) \/ ReceiveStep(g) \/ ReadFails(g)
    \/ MidiMessage
    \/ MidiStep
    \/ MidiWritten
    \/ WorkerEnds
    \/ WorkerWakes

Spec == Init /\ [][Next]_vars

\* The threads run, and the callbacks of the receive threads return; nothing makes the
\* server answer an attempt to connect or read what SSL_write waits to write, and nothing
\* wakes a worker that was not notified.
FairSpec ==
    /\ Spec
    /\ WF_vars(GuiStep)
    /\ \A g \in Objects : WF_vars(ReceiveStep(g))
    /\ WF_vars(MidiStep)
    /\ WF_vars(WorkerEnds)

-----------------------------------------------------------------------------
(* Properties.                                                              *)

\* Every variable has its type, and transportClient_ is null only after shutdown()
\* and otherwise points to a living object.
TypeOK ==
    /\ object \in [Objects -> ObjectType]
    /\ client \in 0 .. MaxObjects
    /\ IF gpc = "exit" THEN client = 0 ELSE client # 0 /\ object[client].alive
    /\ streaming \in BOOLEAN /\ callbacksWired \in BOOLEAN /\ selected \subseteq Ports
    /\ IsSuffix(built, DestructionOrder)
    /\ open \subseteq Ports /\ inputCallbacks \in BOOLEAN
    /\ outputCallback \in BOOLEAN /\ worker \in {"none", "session", "ending", "missed"}
    /\ gpc \in {"idle", "connect", "connecting", "startLoop", "flags", "join", "free",
                "openInput", "openOutput", "closeAgain", "wire", "startScheduler",
                "clearReceive", "stopScheduler", "joinWorker", "clearInput", "closeInput",
                "closeOutput", "destroy", "exit", "terminated"}
    /\ caller \in {"none", "setServerConfig", "connectToServer", "stop", "disconnect",
                   "shutdown"}
    /\ target \in Objects
    /\ midi \in {"idle", "handling", "tested", "sending", "writing"} /\ midiObject \in Objects
    /\ lost \subseteq Objects /\ raced \in BOOLEAN

\* Between two handlers the parts agree with the status that the window shows:
\* while streaming both ports are open, the callbacks in place and the scheduler
\* runs, and otherwise nothing of that is left, however a Start failed
\* (AppController.cpp:172-205, 299-360).
StreamingIsConsistent ==
    gpc = "idle" =>
        /\ open = (IF streaming THEN Ports ELSE {})
        /\ worker = (IF streaming THEN "session" ELSE "none") /\ callbacksWired = streaming
        /\ inputCallbacks = streaming /\ outputCallback = streaming
        /\ ~streaming => \A g \in Objects : object[g].alive => ~object[g].callback

\* setServerConfig() destroys no object that a MIDI callback sends on, unless the
\* connection broke while the callback ran: the only case in which the object it
\* tested as connected is replaced before the ports are closed
\* (AppController.cpp:57-62, 213-222).
CallbackUsesLiveObject ==
    midi \in {"sending", "writing"} => object[midiObject].alive \/ midiObject \in lost

\* A connection has its receive loop, and no thread object is overwritten, unless
\* the connection broke between the test of setServerConfig() and that of
\* connect(), when connectToServer() runs on an object that was not cleaned up
\* (AppController.cpp:57, 71; transportClient.cpp:235, 242).
ConnectionHasItsLoop ==
    ~raced => /\ gpc # "terminated"
              /\ gpc = "idle" /\ Connected => object[client].thread \in {"running", "callback"}

\* The components that a thread uses while it is in a callback or session.
UsedByReceiveThread == {"timeSync", "scheduler", "clockState", "transportClient"}
UsedByWorker        == {"scheduler", "timeSync", "clockState", "midiOutput"}
UsedByMidiInput     == {"midiInput", "clockState", "transportClient"}

\* shutdown() destroys no component that a thread still uses
\* (AppController.cpp:421-446).
ThreadsGoneBeforeTheirObjects ==
    LET exists == ToSet(built) IN
    /\ (\E g \in Objects : object[g].thread = "callback") => UsedByReceiveThread \subseteq exists
    /\ worker # "none" => UsedByWorker \subseteq exists
    /\ midi # "idle" => UsedByMidiInput \subseteq exists

\* stop() joins a worker that its notification missed, and nothing else wakes it.
WorkerMissedStop == gpc = "joinWorker" /\ worker = "missed"

\* disconnect() waits for the mutex of a sender, or the input port for its callback,
\* and SSL_write for the server.
WriteBlocks ==
    midi = "writing" /\ (gpc = "closeInput" \/ (gpc = "free" /\ midiObject = target))


Object(g) == INSTANCE ClientConnection
               WITH connected <- object[g].connected, recvRunning <- object[g].recvRunning,
                    thread <- object[g].thread

\* Each object is used as ClientConnection says, which TransportClient implements:
\* connected only when it is new or cleaned up, its one thread started once and
\* joined before the next connection, unless a connection broke between the two
\* tests of a Connect (AppController.cpp:57, 71; transportClient.cpp:140-253).
ObjectsAreConnections ==
    [][raced' \/ \A g \in Objects : [Object(g)!Next]_(Object(g)!connectionVars)]_vars

\* README.md lines 213-219 and 140-146: a client that is connected and has started
\* streaming schedules what the server sends.  Between two handlers, a connected
\* object of a streaming client has a receive callback.
StreamingClientReceives ==
    gpc = "idle" /\ streaming /\ Connected => object[client].callback
=============================================================================
