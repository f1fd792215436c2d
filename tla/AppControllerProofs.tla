------------------------- MODULE AppControllerProofs -------------------------
(***************************************************************************)
(* Theorems about the client as a whole, for any number of reconnects:     *)
(* what is alive while it is used, and what is open, wired and running     *)
(* while the program says that it streams.                                 *)
(***************************************************************************)
EXTENDS AppController, TLAPS

Disconnecting == gpc \in {"flags", "join", "free"}
Replacing     == Disconnecting /\ caller = "setServerConfig"

\* The types that the other parts need; built is left to BuiltInv.
TypeInv ==
    /\ object \in [Objects -> ObjectType]
    /\ IF gpc = "exit" THEN client = 0 ELSE client \in Objects
    /\ target \in Objects /\ midiObject \in Objects
    /\ open \subseteq Ports
    /\ streaming \in BOOLEAN /\ callbacksWired \in BOOLEAN
    /\ inputCallbacks \in BOOLEAN /\ outputCallback \in BOOLEAN
    /\ worker \in {"none", "session", "ending", "missed"} /\ raced \in BOOLEAN

\* One object is alive, and while setServerConfig() replaces it, its predecessor;
\* what is not alive has neither a connection nor a thread.
LifeInv ==
    /\ \A g \in Objects : object[g].alive => g = client \/ (Replacing /\ g = target)
    /\ gpc # "exit" => object[client].alive
    /\ \A g \in Objects : ~object[g].alive => ~object[g].connected /\ object[g].thread = "none"

\* Who called the function that the GUI thread is in, and how far disconnect() has
\* come with its object.
DisconnectInv ==
    /\ gpc \in {"clearReceive", "stopScheduler", "joinWorker", "clearInput", "closeInput",
                "closeOutput"} =>
          caller \in {"stop", "disconnect", "shutdown"}
    /\ gpc = "connecting" => ~object[client].connected
    /\ Disconnecting =>
          /\ object[target].alive
          /\ caller \in {"setServerConfig", "connectToServer", "disconnect", "shutdown"}
          /\ IF caller = "setServerConfig" THEN target # client ELSE target = client
    /\ gpc \in {"join", "free"} => ~object[target].connected
    /\ gpc = "flags" /\ caller \in {"setServerConfig", "connectToServer"} =>
          ~object[target].connected
    /\ gpc = "free" => object[target].thread = "none"
    /\ gpc = "destroy" => ~object[client].connected /\ object[client].thread = "none"

NoReceiveCallback == \A g \in Objects : object[g].alive => ~object[g].callback

\* Nothing of streaming is left, or all of it is there, in the places where the GUI
\* thread is in neither startStreaming() nor stopStreaming().
Stopped ==
    /\ ~streaming /\ ~callbacksWired /\ ~inputCallbacks /\ ~outputCallback /\ worker = "none"
    /\ NoReceiveCallback
AllRunning ==
    /\ open = Ports
    /\ streaming /\ callbacksWired /\ inputCallbacks /\ outputCallback /\ worker = "session"

\* How far startStreaming() and stopStreaming() have come.
StreamingInv ==
    /\ gpc \in {"idle", "connect", "connecting", "startLoop", "clearReceive", "terminated",
                "flags", "join", "free"} =>
          (Stopped /\ open = {}) \/ AllRunning
    /\ Disconnecting /\ caller \in {"disconnect", "shutdown"} => Stopped /\ open = {}
    /\ gpc \in {"destroy", "exit", "openInput"} => Stopped /\ open = {}
    /\ gpc \in {"openOutput", "closeAgain"} => Stopped /\ open = {"input"}
    /\ gpc = "wire" => Stopped /\ open = Ports
    /\ gpc = "startScheduler" =>
          /\ open = Ports /\ ~streaming /\ worker = "none"
          /\ callbacksWired /\ inputCallbacks /\ outputCallback
    /\ gpc \in {"stopScheduler", "joinWorker", "clearInput", "closeInput", "closeOutput"} =>
          NoReceiveCallback
    /\ worker \in {"ending", "missed"} => gpc = "joinWorker"
    /\ gpc \in {"clearInput", "closeInput", "closeOutput"} => worker = "none" /\ ~outputCallback
    /\ gpc \in {"closeInput", "closeOutput"} => ~inputCallbacks
    /\ gpc = "closeOutput" => open \subseteq {"output"}

\* A callback of the MIDI input runs while the input is open, and sends on an object
\* that was connected when it asked.
MidiInv ==
    /\ midi # "idle" => "input" \in open
    /\ midi \in {"sending", "writing"} => object[midiObject].connected \/ midiObject \in lost

\* Without a race, connectToServer() works on an object that has never been used.
Fresh(g) == object[g].thread = "none" /\ ~object[g].recvRunning

LoopInv ==
    ~raced =>
        /\ gpc # "terminated"
        /\ Replacing => Fresh(client)
        /\ gpc = "connect" => object[client].connected \/ Fresh(client)
        /\ gpc \in {"connecting", "startLoop"} => Fresh(client)
        /\ gpc \notin {"startLoop", "exit"} /\ object[client].connected =>
              object[client].recvRunning /\ object[client].thread \in {"running", "callback"}

\* shutdown() begins to destroy when disconnect() has returned.
BuiltInv == gpc \notin {"destroy", "exit"} => built = DestructionOrder

Inv == TypeInv /\ LifeInv /\ DisconnectInv /\ StreamingInv /\ MidiInv /\ LoopInv /\ BuiltInv

\* What the assignments of the code do to an object leaves it an object.
LEMMA ObjectUpdates ==
    ASSUME NEW o \in [Objects -> ObjectType], NEW g \in Objects,
           NEW b \in BOOLEAN, NEW c \in BOOLEAN,
           NEW t \in {"none", "running", "callback", "ended"}
    PROVE  /\ [o EXCEPT ![g] = NewObject] \in [Objects -> ObjectType]
           /\ [o EXCEPT ![g].alive = b] \in [Objects -> ObjectType]
           /\ [o EXCEPT ![g].callback = b] \in [Objects -> ObjectType]
           /\ [o EXCEPT ![g].connected = b] \in [Objects -> ObjectType]
           /\ [o EXCEPT ![g].thread = t] \in [Objects -> ObjectType]
           /\ [o EXCEPT ![g].recvRunning = b, ![g].thread = t] \in [Objects -> ObjectType]
           /\ [o EXCEPT ![g].connected = b, ![g].recvRunning = c] \in [Objects -> ObjectType]
           /\ [o EXCEPT ![g].connected = b, ![g].recvRunning = c, ![g].thread = t]
                 \in [Objects -> ObjectType]
  <1>1. o[g] \in ObjectType
    OBVIOUS
  <1>2. NewObject \in ObjectType
    BY DEF NewObject, ObjectType
  <1>3. ASSUME NEW r \in ObjectType
        PROVE  /\ [r EXCEPT !.alive = b] \in ObjectType
               /\ [r EXCEPT !.callback = b] \in ObjectType
               /\ [r EXCEPT !.connected = b] \in ObjectType
               /\ [r EXCEPT !.recvRunning = b] \in ObjectType
               /\ [r EXCEPT !.thread = t] \in ObjectType
    BY DEF ObjectType
  <1>4. ASSUME NEW p \in [Objects -> ObjectType], NEW r \in ObjectType
        PROVE  [p EXCEPT ![g] = r] \in [Objects -> ObjectType]
    OBVIOUS
  <1>5. /\ [o EXCEPT ![g] = NewObject] \in [Objects -> ObjectType]
        /\ [o EXCEPT ![g].alive = b] \in [Objects -> ObjectType]
        /\ [o EXCEPT ![g].callback = b] \in [Objects -> ObjectType]
        /\ [o EXCEPT ![g].connected = b] \in [Objects -> ObjectType]
        /\ [o EXCEPT ![g].thread = t] \in [Objects -> ObjectType]
    BY <1>1, <1>2, <1>3
  <1>6. [o EXCEPT ![g].recvRunning = b, ![g].thread = t] \in [Objects -> ObjectType]
    BY DEF ObjectType
  <1>7. [o EXCEPT ![g].connected = b, ![g].recvRunning = c] \in [Objects -> ObjectType]
    BY DEF ObjectType
  <1>8. [o EXCEPT ![g].connected = b, ![g].recvRunning = c, ![g].thread = t]
           \in [Objects -> ObjectType]
    <2> DEFINE p == [o EXCEPT ![g].connected = b, ![g].recvRunning = c]
    <2>1. p[g] \in ObjectType /\ p \in [Objects -> ObjectType]
      BY <1>7
    <2>2. [p EXCEPT ![g] = [p[g] EXCEPT !.thread = t]] \in [Objects -> ObjectType]
      BY <2>1, <1>3, <1>4
    <2> QED
      BY <2>2
  <1> QED
    BY <1>5, <1>6, <1>7, <1>8

\* Every step keeps the types.
LEMMA StepKeepsTypes ==
    ASSUME Inv, [Next]_vars
    PROVE  TypeInv'
  <1> TypeInv
    BY DEF Inv
  <1> USE ControllerConstants
      DEF TypeInv, GuiFrame, ReceiveFrame, MidiFrame, controllerVars, handlerVars, guiVars,
          midiVars
  <1>1. CASE SetServerConfig
    <2>1. CASE Connected
      BY <1>1, <2>1 DEF SetServerConfig
    <2>2. CASE ~Connected
      <3>1. client + 1 \in Objects
        BY <1>1, <2>2 DEF SetServerConfig, Objects
      <3>2. [object EXCEPT ![client + 1] = NewObject] \in [Objects -> ObjectType]
        BY <3>1, ObjectUpdates
      <3> QED
        BY <1>1, <2>2, <3>1, <3>2 DEF SetServerConfig
    <2> QED
      BY <2>1, <2>2
  <1>2. CASE Connect
    BY <1>2 DEF Connect
  <1>3. CASE ConnectToServer
    <2>1. client \in Objects
      BY <1>3 DEF ConnectToServer
    <2>2. object' = object \/ object' = [object EXCEPT ![client].connected = TRUE]
      BY <1>3 DEF ConnectToServer
    <2>3. [object EXCEPT ![client].connected = TRUE] \in [Objects -> ObjectType]
      BY ObjectUpdates, <2>1
    <2> QED
      BY <1>3, <2>2, <2>3 DEF ConnectToServer
  <1>4. CASE StartReceiveLoop
    <2>1. client \in Objects
      BY <1>4 DEF StartReceiveLoop
    <2>2. object' = object
            \/ object' = [object EXCEPT ![client].recvRunning = TRUE,
                                         ![client].thread = "running"]
      BY <1>4 DEF StartReceiveLoop
    <2>3. [object EXCEPT ![client].recvRunning = TRUE, ![client].thread = "running"]
             \in [Objects -> ObjectType]
      BY ObjectUpdates, <2>1
    <2> QED
      BY <1>4, <2>2, <2>3 DEF StartReceiveLoop
  <1>5. CASE DisconnectFlags
    BY ObjectUpdates, <1>5 DEF DisconnectFlags
  <1>6. CASE DisconnectJoin
    BY ObjectUpdates, <1>6 DEF DisconnectJoin
  <1>7. CASE DisconnectFree
    <2>1. SurvivesDisconnect \in BOOLEAN
      BY DEF SurvivesDisconnect
    <2>2. [object EXCEPT ![target].alive = SurvivesDisconnect] \in [Objects -> ObjectType]
      BY ObjectUpdates, <2>1
    <2>3. gpc # "exit" /\ callbacksWired' \in BOOLEAN
      BY <1>7 DEF DisconnectFree
    <2> QED
      BY <1>7, <2>2, <2>3 DEF DisconnectFree
  <1>8. CASE Destroy
    <2>1. client \in Objects
      BY <1>8 DEF Destroy
    <2>2. object' = object \/ object' = [object EXCEPT ![client].alive = FALSE]
      BY <1>8 DEF Destroy
    <2>3. [object EXCEPT ![client].alive = FALSE] \in [Objects -> ObjectType]
      BY ObjectUpdates, <2>1
    <2> QED
      BY <1>8, <2>2, <2>3 DEF Destroy
  <1>9. CASE SelectPort
    BY <1>9 DEF SelectPort, Objects
  <1>10. CASE StartStreaming
    BY <1>10 DEF StartStreaming
  <1>11. CASE OpenInput
    BY <1>11 DEF OpenInput, Ports
  <1>12. CASE OpenOutput
    BY <1>12 DEF OpenOutput, Ports
  <1>13. CASE CloseInputAgain
    BY <1>13 DEF CloseInputAgain
  <1>14. CASE WireCallbacks
    <2>1. client \in Objects
      BY <1>14 DEF WireCallbacks
    <2>2. object' = object \/ object' = [object EXCEPT ![client].callback = TRUE]
      BY <1>14 DEF WireCallbacks
    <2>3. [object EXCEPT ![client].callback = TRUE] \in [Objects -> ObjectType]
      BY ObjectUpdates, <2>1
    <2> QED
      BY <1>14, <2>2, <2>3 DEF WireCallbacks
  <1>15. CASE StartScheduler
    BY <1>15 DEF StartScheduler
  <1>16. CASE StopStreaming
    BY <1>16 DEF StopStreaming
  <1>17. CASE ClearReceiveCallback
    BY ObjectUpdates, <1>17 DEF ClearReceiveCallback
  <1>18. CASE StopScheduler
    BY <1>18 DEF StopScheduler
  <1>19. CASE ClearInputCallbacks
    BY <1>19 DEF ClearInputCallbacks
  <1>20. CASE CloseInput
    BY <1>20 DEF CloseInput
  <1>21. CASE CloseOutput
    BY <1>21 DEF CloseOutput
  <1>22. ASSUME NEW g \in Objects, ReceiveFrameOf(g) PROVE TypeInv'
    BY ObjectUpdates, <1>22 DEF ReceiveFrameOf
  <1>23. ASSUME NEW g \in Objects, ReceiveCallbackReturns(g) PROVE TypeInv'
    <2>1. /\ [object EXCEPT ![g].thread = "running"] \in [Objects -> ObjectType]
          /\ [object EXCEPT ![g].thread = "ended"] \in [Objects -> ObjectType]
      BY ObjectUpdates
    <2>2. \/ object' = [object EXCEPT ![g].thread = "running"]
          \/ object' = [object EXCEPT ![g].thread = "ended"]
      BY <1>23 DEF ReceiveCallbackReturns
    <2>3. object' \in [Objects -> ObjectType]
      BY <2>1, <2>2
    <2> QED
      BY <1>23, <2>3 DEF ReceiveCallbackReturns
  <1>24. ASSUME NEW g \in Objects, ReceiveLoopEnds(g) PROVE TypeInv'
    BY ObjectUpdates, <1>24 DEF ReceiveLoopEnds
  <1>25. ASSUME NEW g \in Objects, ReadFails(g) PROVE TypeInv'
    BY ObjectUpdates, <1>25 DEF ReadFails, RecordLoss
  <1>26. CASE MidiMessage
    BY <1>26 DEF MidiMessage
  <1>27. CASE MidiTest
    BY <1>27 DEF MidiTest
  <1>28. CASE MidiSend
    BY <1>28 DEF MidiSend, Inv, MidiInv, StreamingInv, Stopped
  <1>29. CASE MidiWrite
    BY <1>29 DEF MidiWrite
  <1>30. CASE MidiWritten
    <2>1. midiObject \in Objects
      BY <1>30 DEF MidiWritten, RecordLoss
    <2>2. object' = object \/ object' = [object EXCEPT ![midiObject].connected = FALSE]
      BY <1>30 DEF MidiWritten, RecordLoss
    <2>3. [object EXCEPT ![midiObject].connected = FALSE] \in [Objects -> ObjectType]
      BY ObjectUpdates, <2>1
    <2> QED
      BY <1>30, <2>2, <2>3 DEF MidiWritten, RecordLoss
  <1>31. CASE JoinWorker
    BY <1>31 DEF JoinWorker
  <1>32. CASE WorkerEnds \/ WorkerWakes
    BY <1>32 DEF WorkerEnds, WorkerWakes, WorkerFrame, historyVars
  <1>33. CASE UNCHANGED vars
    BY <1>33 DEF vars, historyVars
  <1> QED
    BY <1>1, <1>2, <1>3, <1>4, <1>5, <1>6, <1>7, <1>8, <1>9, <1>10, <1>11, <1>12, <1>13,
       <1>14, <1>15, <1>16, <1>17, <1>18, <1>19, <1>20, <1>21, <1>22, <1>23, <1>24, <1>25,
       <1>26, <1>27, <1>28, <1>29, <1>30, <1>31, <1>32, <1>33
    DEF Next, GuiStep, ReceiveStep, MidiStep

\* One lemma for each part of the program that moves, and one step for each of its
\* actions; the types come from StepKeepsTypes.
USE ControllerConstants
    DEF Inv, TypeInv, LifeInv, DisconnectInv, StreamingInv, MidiInv, LoopInv, BuiltInv,
        Disconnecting, Replacing, Stopped, AllRunning, NoReceiveCallback, Fresh, GuiFrame,
        ReceiveFrame, MidiFrame, controllerVars, handlerVars, guiVars, midiVars, Connected,
        Objects, Ports, NewObject, ObjectType

\* setServerConfig() and connect(): the new object is fresh, and its predecessor has
\* lost its connection before.
LEMMA ConnectKeepsInv ==
    ASSUME Inv, TypeInv', SetServerConfig \/ Connect \/ ConnectToServer \/
           StartReceiveLoop
    PROVE  Inv'
  <1>1. CASE SetServerConfig
    <2>1. LifeInv'
      BY <1>1, SMTT(60) DEF SetServerConfig
    <2>2. DisconnectInv'
      BY <1>1, SMTT(60) DEF SetServerConfig
    <2>3. StreamingInv'
      BY <1>1, SMTT(60) DEF SetServerConfig
    <2>4. MidiInv'
      BY <1>1, SMTT(60) DEF SetServerConfig
    <2>5. LoopInv'
      BY <1>1, SMTT(60) DEF SetServerConfig
    <2>6. BuiltInv'
      BY <1>1, SMTT(60) DEF SetServerConfig
    <2> QED
      BY <2>1, <2>2, <2>3, <2>4, <2>5, <2>6 DEF Inv
  <1>2. CASE Connect
    BY <1>2, SMTT(60) DEF Connect
  <1>3. CASE ConnectToServer
    <2>1. LifeInv'
      BY <1>3, SMTT(60) DEF ConnectToServer
    <2>2. DisconnectInv'
      BY <1>3, SMTT(60) DEF ConnectToServer
    <2>3. StreamingInv'
      BY <1>3, SMTT(60) DEF ConnectToServer
    <2>4. MidiInv'
      BY <1>3, SMTT(60) DEF ConnectToServer
    <2>5. LoopInv'
      BY <1>3, SMTT(60) DEF ConnectToServer
    <2>6. BuiltInv'
      BY <1>3, SMTT(60) DEF ConnectToServer
    <2> QED
      BY <2>1, <2>2, <2>3, <2>4, <2>5, <2>6 DEF Inv
  <1>4. CASE StartReceiveLoop
    BY <1>4, SMTT(60) DEF StartReceiveLoop
  <1> QED
    BY <1>1, <1>2, <1>3, <1>4

\* disconnect() of an object, and the destruction that follows it in shutdown().
LEMMA DisconnectKeepsInv ==
    ASSUME Inv, TypeInv', DisconnectFlags \/ DisconnectJoin \/ DisconnectFree \/ Destroy
    PROVE  Inv'
  <1>1. CASE DisconnectFlags
    BY <1>1, SMTT(60) DEF DisconnectFlags
  <1>2. CASE DisconnectJoin
    BY <1>2, SMTT(60) DEF DisconnectJoin
  <1>3. CASE DisconnectFree
    BY <1>3, SMTT(60) DEF DisconnectFree, SurvivesDisconnect
  <1>4. CASE Destroy
    <2>1. LifeInv'
      <3>1. CASE Head(built) = "transportClient"
        BY <1>4, <3>1, SMTT(60) DEF Destroy
      <3>2. CASE Head(built) # "transportClient"
        BY <1>4, <3>2, SMTT(60) DEF Destroy
      <3> QED
        BY <3>1, <3>2
    <2>2. DisconnectInv'
      BY <1>4, SMTT(60) DEF Destroy
    <2>3. StreamingInv'
      BY <1>4, SMTT(60) DEF Destroy
    <2>4. MidiInv'
      BY <1>4, SMTT(60) DEF Destroy
    <2>5. LoopInv'
      BY <1>4, SMTT(60) DEF Destroy
    <2>6. BuiltInv'
      BY <1>4, SMTT(60) DEF Destroy
    <2> QED
      BY <2>1, <2>2, <2>3, <2>4, <2>5, <2>6 DEF Inv
  <1> QED
    BY <1>1, <1>2, <1>3, <1>4

\* startStreaming(), which gives up only where nothing is wired yet.
LEMMA StartKeepsInv ==
    ASSUME Inv, TypeInv', SelectPort \/ StartStreaming \/ OpenInput \/ OpenOutput \/
           CloseInputAgain \/ WireCallbacks \/ StartScheduler
    PROVE  Inv'
  <1>1. CASE SelectPort
    BY <1>1, SMTT(60) DEF SelectPort
  <1>2. CASE StartStreaming
    BY <1>2, SMTT(60) DEF StartStreaming
  <1>3. CASE OpenInput
    <2>1. open = {}
      BY <1>3 DEF OpenInput
    <2>2. open \cup {"input"} = {"input"}
      BY <2>1
    <2> QED
      BY <1>3, <2>2, SMTT(60) DEF OpenInput
  <1>4. CASE OpenOutput
    BY <1>4, SMTT(60) DEF OpenOutput
  <1>5. CASE CloseInputAgain
    BY <1>5, SMTT(60) DEF CloseInputAgain
  <1>6. CASE WireCallbacks
    <2>1. LifeInv'
      BY <1>6, SMTT(60) DEF WireCallbacks
    <2>2. DisconnectInv'
      BY <1>6, SMTT(60) DEF WireCallbacks
    <2>3. StreamingInv'
      BY <1>6, SMTT(60) DEF WireCallbacks
    <2>4. MidiInv'
      BY <1>6, SMTT(60) DEF WireCallbacks
    <2>5. LoopInv'
      BY <1>6, SMTT(60) DEF WireCallbacks
    <2>6. BuiltInv'
      BY <1>6, SMTT(60) DEF WireCallbacks
    <2> QED
      BY <2>1, <2>2, <2>3, <2>4, <2>5, <2>6 DEF Inv
  <1>7. CASE StartScheduler
    BY <1>7, SMTT(60) DEF StartScheduler
  <1> QED
    BY <1>1, <1>2, <1>3, <1>4, <1>5, <1>6, <1>7

\* stopStreaming(), which takes away what startStreaming() put in place.
LEMMA StopKeepsInv ==
    ASSUME Inv, TypeInv', StopStreaming \/ ClearReceiveCallback \/ StopScheduler \/
           JoinWorker \/ ClearInputCallbacks \/ CloseInput \/ CloseOutput
    PROVE  Inv'
  <1>1. CASE StopStreaming
    BY <1>1, SMTT(60) DEF StopStreaming
  <1>2. CASE ClearReceiveCallback
    BY <1>2, SMTT(60) DEF ClearReceiveCallback
  <1>3. CASE StopScheduler
    BY <1>3, SMTT(60) DEF StopScheduler
  <1>4. CASE ClearInputCallbacks
    BY <1>4, SMTT(60) DEF ClearInputCallbacks
  <1>5. CASE CloseInput
    BY <1>5, SMTT(60) DEF CloseInput
  <1>6. CASE CloseOutput
    BY <1>6, SMTT(60) DEF CloseOutput
  <1>7. CASE JoinWorker
    BY <1>7, SMTT(60) DEF JoinWorker
  <1> QED
    BY <1>1, <1>2, <1>3, <1>4, <1>5, <1>6, <1>7

\* A receive thread ends with its connection; it never gets one back.
LEMMA ReceiverKeepsInv ==
    ASSUME Inv, TypeInv', NEW g \in Objects, ReceiveFrameOf(g) \/
           ReceiveCallbackReturns(g) \/ ReceiveLoopEnds(g) \/ ReadFails(g)
    PROVE  Inv'
  <1>1. CASE ReceiveFrameOf(g)
    BY <1>1, SMTT(60) DEF ReceiveFrameOf
  <1>2. CASE ReceiveCallbackReturns(g)
    BY <1>2, SMTT(60) DEF ReceiveCallbackReturns
  <1>3. CASE ReceiveLoopEnds(g)
    BY <1>3, SMTT(60) DEF ReceiveLoopEnds
  <1>4. CASE ReadFails(g)
    BY <1>4, SMTT(60) DEF ReadFails, RecordLoss
  <1> QED
    BY <1>1, <1>2, <1>3, <1>4

\* The MIDI callback runs under an open input, and remembers a connection it loses.
LEMMA MidiKeepsInv ==
    ASSUME Inv, TypeInv', MidiMessage \/ MidiTest \/ MidiSend \/ MidiWrite \/ MidiWritten
    PROVE  Inv'
  <1>1. CASE MidiMessage
    BY <1>1, SMTT(60) DEF MidiMessage
  <1>2. CASE MidiTest
    BY <1>2, SMTT(60) DEF MidiTest
  <1>3. CASE MidiSend
    BY <1>3, SMTT(60) DEF MidiSend
  <1>4. CASE MidiWrite
    BY <1>4, SMTT(60) DEF MidiWrite
  <1>5. CASE MidiWritten
    BY <1>5, SMTT(60) DEF MidiWritten, RecordLoss
  <1> QED
    BY <1>1, <1>2, <1>3, <1>4, <1>5

\* The worker ends while stop() joins it.
LEMMA WorkerKeepsInv ==
    ASSUME Inv, TypeInv', WorkerEnds \/ WorkerWakes
    PROVE  Inv'
  <1> USE DEF WorkerFrame, historyVars
  <1>1. CASE WorkerEnds
    BY <1>1, SMTT(60) DEF WorkerEnds
  <1>2. CASE WorkerWakes
    BY <1>2, SMTT(60) DEF WorkerWakes
  <1> QED
    BY <1>1, <1>2

HIDE DEF Inv, TypeInv, LifeInv, DisconnectInv, StreamingInv, MidiInv, LoopInv, BuiltInv,
         Disconnecting, Replacing, Stopped, AllRunning, NoReceiveCallback, Fresh, GuiFrame,
         ReceiveFrame, MidiFrame, controllerVars, handlerVars, guiVars, midiVars, Connected,
         Objects, Ports, NewObject, ObjectType

\* After initialize() nothing is connected, open or wired.
LEMMA InitInv == Init => Inv
  <1> SUFFICES ASSUME Init PROVE Inv
    OBVIOUS
  <1> USE ControllerConstants DEF Init, Objects
  <1>1. TypeInv
    <2>1. ASSUME NEW g \in Objects PROVE [NewObject EXCEPT !.alive = (g = 1)] \in ObjectType
      BY DEF NewObject, ObjectType
    <2> HIDE DEF Objects
    <2>2. object \in [Objects -> ObjectType]
      BY <2>1
    <2>3. 1 \in Objects
      BY DEF Objects
    <2> QED
      BY <2>2, <2>3 DEF TypeInv
  <1>2. LifeInv
    <2>1. ASSUME NEW g \in Objects
          PROVE  object[g].alive = (g = 1) /\ ~object[g].connected /\ object[g].thread = "none"
      BY DEF NewObject
    <2>2. 1 \in Objects
      OBVIOUS
    <2> HIDE DEF Objects
    <2> QED
      BY <2>1, <2>2 DEF LifeInv
  <1>3. DisconnectInv
    BY DEF DisconnectInv, Disconnecting
  <1>4. StreamingInv
    BY DEF StreamingInv, Stopped, NoReceiveCallback, Disconnecting, NewObject
  <1>5. MidiInv /\ BuiltInv
    BY DEF MidiInv, BuiltInv
  <1>6. LoopInv
    BY DEF LoopInv, NewObject, Replacing, Disconnecting
  <1> QED
    BY <1>1, <1>2, <1>3, <1>4, <1>5, <1>6 DEF Inv

\* Every step of every thread keeps the invariant.
LEMMA NextKeepsInv == Inv /\ [Next]_vars => Inv'
  <1> SUFFICES ASSUME Inv, [Next]_vars PROVE Inv'
    OBVIOUS
  <1>1. TypeInv'
    BY StepKeepsTypes
  <1>2. ASSUME NEW g \in Objects, ReceiveFrameOf(g) \/ ReceiveStep(g) \/ ReadFails(g)
        PROVE  Inv'
    BY <1>1, <1>2, ReceiverKeepsInv DEF ReceiveStep
  <1>3. CASE SetServerConfig \/ Connect \/ ConnectToServer \/ StartReceiveLoop
    BY <1>1, <1>3, ConnectKeepsInv
  <1>4. CASE DisconnectFlags \/ DisconnectJoin \/ DisconnectFree \/ Destroy
    BY <1>1, <1>4, DisconnectKeepsInv
  <1>5. CASE SelectPort \/ StartStreaming \/ OpenInput \/ OpenOutput \/ CloseInputAgain
               \/ WireCallbacks \/ StartScheduler
    BY <1>1, <1>5, StartKeepsInv
  <1>6. CASE StopStreaming \/ ClearReceiveCallback \/ StopScheduler \/ JoinWorker
               \/ ClearInputCallbacks \/ CloseInput \/ CloseOutput
    BY <1>1, <1>6, StopKeepsInv
  <1>7. CASE MidiMessage \/ MidiStep \/ MidiWritten
    BY <1>1, <1>7, MidiKeepsInv DEF MidiStep
  <1>8. CASE WorkerEnds \/ WorkerWakes
    BY <1>1, <1>8, WorkerKeepsInv
  <1>9. CASE UNCHANGED vars
    BY <1>9 DEF Inv, TypeInv, LifeInv, DisconnectInv, StreamingInv, MidiInv, LoopInv, BuiltInv,
                Disconnecting, Replacing, Stopped, AllRunning, NoReceiveCallback, Fresh,
                vars, controllerVars, handlerVars, guiVars, midiVars, historyVars
  <1> QED
    BY <1>2, <1>3, <1>4, <1>5, <1>6, <1>7, <1>8, <1>9 DEF Next, GuiStep

\* The invariant holds in every reachable state.
LEMMA InvAlways == Spec => []Inv
  <1>1. Init => Inv
    BY InitInv
  <1>2. Inv /\ [Next]_vars => Inv'
    BY NextKeepsInv
  <1> QED
    BY <1>1, <1>2, PTL DEF Spec

\* Between two handlers the ports, callbacks and scheduler agree with streaming_,
\* however often the user connects, starts and stops and whichever port does not open
\* (startStreaming(), stopStreaming(), wireCallbacks()).
THEOREM StreamingConsistent == Spec => []StreamingIsConsistent
  <1>1. Inv => StreamingIsConsistent
    BY DEF Inv, TypeInv, StreamingInv, Stopped, AllRunning, NoReceiveCallback,
           StreamingIsConsistent
  <1> QED
    BY <1>1, InvAlways, PTL

\* setServerConfig() and shutdown() destroy no TransportClient that a MIDI callback
\* sends on, unless its connection broke under the callback.
THEOREM CallbackObjectLives == Spec => []CallbackUsesLiveObject
  <1>1. Inv => CallbackUsesLiveObject
    BY DEF Inv, TypeInv, LifeInv, MidiInv, CallbackUsesLiveObject
  <1> QED
    BY <1>1, InvAlways, PTL

\* Without a connection lost between the two tests of a Connect, every connection has
\* its receive loop and no std::thread is overwritten.
THEOREM LoopOfConnection == Spec => []ConnectionHasItsLoop
  <1>1. Inv => ConnectionHasItsLoop
    BY DEF Inv, LoopInv, ConnectionHasItsLoop, Connected
  <1> QED
    BY <1>1, InvAlways, PTL

\* shutdown() destroys no component that a thread still uses.
THEOREM ThreadsGone == Spec => []ThreadsGoneBeforeTheirObjects
  <1>1. ASSUME Inv PROVE ThreadsGoneBeforeTheirObjects
    <2>1. CASE gpc \notin {"destroy", "exit"}
      <3>1. ToSet(built) = {"observer", "clockState", "midiInput", "midiOutput", "scheduler",
                            "timeSync", "transportClient"}
        BY <1>1, <2>1 DEF Inv, BuiltInv, ToSet, DestructionOrder
      <3> QED
        BY <3>1 DEF ThreadsGoneBeforeTheirObjects, UsedByReceiveThread, UsedByWorker,
                    UsedByMidiInput
    <2>2. CASE gpc \in {"destroy", "exit"}
      <3>1. worker = "none" /\ midi = "idle"
        BY <1>1, <2>2 DEF Inv, StreamingInv, MidiInv, Stopped
      <3>2. ASSUME NEW g \in Objects PROVE object[g].thread = "none"
        BY <1>1, <2>2 DEF Inv, TypeInv, LifeInv, DisconnectInv, Disconnecting, Replacing, Objects
      <3> QED
        BY <3>1, <3>2 DEF ThreadsGoneBeforeTheirObjects
    <2> QED
      BY <2>1, <2>2
  <1> QED
    BY <1>1, InvAlways, PTL

-----------------------------------------------------------------------------
(* The objects as ClientConnection sees them.                               *)

\* An object is done with its receive loop when it is destroyed, and while
\* disconnect() joins its thread.
ClearedInv ==
    /\ \A g \in Objects : ~object[g].alive => ~object[g].recvRunning
    /\ gpc \in {"join", "free"} => ~object[target].recvRunning
    /\ gpc = "destroy" => ~object[client].recvRunning

USE ControllerConstants
    DEF Inv, TypeInv, LifeInv, DisconnectInv, LoopInv, ClearedInv, Disconnecting, Replacing, Fresh,
        GuiFrame, ReceiveFrame, MidiFrame, controllerVars, handlerVars, guiVars, midiVars,
        Connected, Objects, NewObject, ObjectType

\* Only startReceiveLoop() sets recvRunning_, on an object that is alive.
LEMMA StepKeepsCleared == Inv /\ ClearedInv /\ [Next]_vars => ClearedInv'
  <1> SUFFICES ASSUME Inv, ClearedInv, [Next]_vars PROVE ClearedInv'
    OBVIOUS
  <1>1. ASSUME NEW g \in Objects, ReceiveFrameOf(g) \/ ReceiveStep(g) \/ ReadFails(g)
        PROVE  ClearedInv'
    <2>1. CASE ReceiveFrameOf(g)
      BY <2>1, SMTT(60) DEF ReceiveFrameOf
    <2>2. CASE ReceiveCallbackReturns(g)
      BY <2>2, SMTT(60) DEF ReceiveCallbackReturns
    <2>3. CASE ReceiveLoopEnds(g)
      BY <2>3, SMTT(60) DEF ReceiveLoopEnds
    <2>4. CASE ReadFails(g)
      BY <2>4, SMTT(60) DEF ReadFails
    <2> QED
      BY <1>1, <2>1, <2>2, <2>3, <2>4 DEF ReceiveStep
  <1>2. CASE SetServerConfig
    BY <1>2, SMTT(60) DEF SetServerConfig
  <1>3. CASE Connect \/ ConnectToServer
    BY <1>3, SMTT(60) DEF Connect, ConnectToServer
  <1>4. CASE StartReceiveLoop
    BY <1>4, SMTT(60) DEF StartReceiveLoop
  <1>5. CASE DisconnectFlags
    BY <1>5, SMTT(60) DEF DisconnectFlags
  <1>6. CASE DisconnectJoin
    BY <1>6, SMTT(60) DEF DisconnectJoin
  <1>7. CASE DisconnectFree
    BY <1>7, SMTT(60) DEF DisconnectFree, SurvivesDisconnect
  <1>8. CASE Destroy
    BY <1>8, SMTT(60) DEF Destroy
  <1>9. CASE SelectPort \/ StartStreaming \/ OpenInput \/ OpenOutput \/ CloseInputAgain
               \/ WireCallbacks \/ StartScheduler
    BY <1>9, SMTT(60) DEF SelectPort, StartStreaming, OpenInput, OpenOutput, CloseInputAgain,
                          WireCallbacks, StartScheduler
  <1>10. CASE StopStreaming \/ ClearReceiveCallback \/ StopScheduler \/ JoinWorker
                \/ ClearInputCallbacks \/ CloseInput \/ CloseOutput
    BY <1>10, SMTT(60) DEF StopStreaming, ClearReceiveCallback, StopScheduler,
                           JoinWorker, ClearInputCallbacks, CloseInput, CloseOutput
  <1>11. CASE MidiMessage \/ MidiStep \/ MidiWritten
    BY <1>11, SMTT(60) DEF MidiMessage, MidiStep, MidiTest, MidiSend, MidiWrite, MidiWritten
  <1>12. CASE WorkerEnds \/ WorkerWakes
    BY <1>12, SMTT(60) DEF WorkerEnds, WorkerWakes, WorkerFrame
  <1>13. CASE UNCHANGED vars
    BY <1>13 DEF vars
  <1> QED
    BY <1>1, <1>2, <1>3, <1>4, <1>5, <1>6, <1>7, <1>8, <1>9, <1>10, <1>11, <1>12, <1>13
    DEF Next, GuiStep

\* Without a race, every step is for every object one of its connection or not seen
\* by it.
LEMMA StepOfObject ==
    ASSUME Inv, ClearedInv, [Next]_vars, ~raced', NEW h \in Objects
    PROVE  [Object(h)!Next]_(Object(h)!connectionVars)
  <1> USE DEF Object!connectionVars, Object!Next
  <1>1. ASSUME NEW g \in Objects, ReceiveFrameOf(g)
        PROVE  [Object(h)!Next]_(Object(h)!connectionVars)
    BY <1>1, SMTT(60) DEF ReceiveFrameOf, Object!Receive
  <1>2. ASSUME NEW g \in Objects, ReceiveCallbackReturns(g)
        PROVE  [Object(h)!Next]_(Object(h)!connectionVars)
    BY <1>2, SMTT(60) DEF ReceiveCallbackReturns, Object!Return
  <1>3. ASSUME NEW g \in Objects, ReceiveLoopEnds(g)
        PROVE  [Object(h)!Next]_(Object(h)!connectionVars)
    BY <1>3, SMTT(60) DEF ReceiveLoopEnds, Object!LoopEnds
  <1>4. ASSUME NEW g \in Objects, ReadFails(g)
        PROVE  [Object(h)!Next]_(Object(h)!connectionVars)
    BY <1>4, SMTT(60) DEF ReadFails, Object!ReceiveFails
  <1>5. CASE SetServerConfig
    <2>1. CASE ~Connected /\ h = client + 1
      <3>1. ~object[h].connected /\ ~object[h].recvRunning /\ object[h].thread = "none"
        BY <1>5, <2>1 DEF SetServerConfig
      <3>2. object[h].connected = FALSE /\ object[h].recvRunning = FALSE
        BY <3>1
      <3>3. object'[h] = NewObject
        BY <1>5, <2>1 DEF SetServerConfig
      <3>4. /\ object'[h].connected = FALSE /\ object'[h].recvRunning = FALSE
            /\ object'[h].thread = "none"
        BY <3>3
      <3> QED
        BY <3>1, <3>2, <3>4
    <2>2. CASE Connected \/ h # client + 1
      <3>1. object'[h] = object[h]
        BY <1>5, <2>2 DEF SetServerConfig
      <3> QED
        BY <3>1
    <2> QED
      BY <2>1, <2>2
  <1>6. CASE ConnectToServer
    BY <1>6, SMTT(60) DEF ConnectToServer, Object!Connect
  <1>7. CASE StartReceiveLoop
    BY <1>7, SMTT(60) DEF StartReceiveLoop, Object!StartLoop
  <1>8. CASE DisconnectFlags
    <2>1. CASE h = target
      <3>1. ~object'[h].connected /\ ~object'[h].recvRunning
            /\ object'[h].thread = object[h].thread
        BY <1>8, <2>1 DEF DisconnectFlags
      <3> QED
        BY <3>1 DEF Object!ClearFlags
    <2>2. CASE h # target
      <3>1. object'[h] = object[h]
        BY <1>8, <2>2 DEF DisconnectFlags
      <3> QED
        BY <3>1
    <2> QED
      BY <2>1, <2>2
  <1>9. CASE DisconnectJoin
    BY <1>9, SMTT(60) DEF DisconnectJoin, Object!Join
  <1>10. CASE DisconnectFree \/ Destroy \/ WireCallbacks \/ ClearReceiveCallback
    BY <1>10, SMTT(60) DEF DisconnectFree, Destroy, WireCallbacks, ClearReceiveCallback
  <1>11. CASE MidiWritten
    BY <1>11, SMTT(60) DEF MidiWritten, Object!SendFails
  <1>12. ASSUME UNCHANGED object
         PROVE  [Object(h)!Next]_(Object(h)!connectionVars)
    BY <1>12
  <1>13. CASE Connect \/ SelectPort \/ StartStreaming \/ OpenInput \/ OpenOutput
                \/ CloseInputAgain \/ StartScheduler \/ StopStreaming \/ StopScheduler
                \/ JoinWorker \/ ClearInputCallbacks \/ CloseInput \/ CloseOutput
                \/ MidiMessage \/ MidiTest \/ MidiSend \/ MidiWrite \/ WorkerEnds
                \/ WorkerWakes \/ UNCHANGED vars
    BY <1>12, <1>13 DEF Connect, SelectPort, StartStreaming, OpenInput, OpenOutput,
       CloseInputAgain, StartScheduler, StopStreaming, StopScheduler, JoinWorker,
       ClearInputCallbacks, CloseInput, CloseOutput, MidiMessage, MidiTest, MidiSend, MidiWrite,
       WorkerEnds, WorkerWakes, WorkerFrame, vars
  <1> QED
    BY <1>1, <1>2, <1>3, <1>4, <1>5, <1>6, <1>7, <1>8, <1>9, <1>10, <1>11, <1>13
    DEF Next, GuiStep, ReceiveStep, MidiStep

HIDE DEF Inv, TypeInv, LifeInv, DisconnectInv, LoopInv, Objects

\* The client uses its TransportClient objects as TransportClient implements them,
\* however many it makes, unless a connection breaks between the two tests of a Connect.
THEOREM ObjectsAreUsedAsConnections == Spec => ObjectsAreConnections
  <1>1. Init => ClearedInv
    BY DEF Init
  <1>2. Inv /\ ClearedInv /\ [Next]_vars
          => raced' \/ \A g \in Objects : [Object(g)!Next]_(Object(g)!connectionVars)
    BY StepOfObject
  <1> HIDE DEF ClearedInv
  <1> QED
    BY <1>1, <1>2, StepKeepsCleared, InvAlways, PTL DEF Spec, ObjectsAreConnections
-----------------------------------------------------------------------------
(* Every variable has its type.                                             *)

\* What shutdown() has still to destroy is the end of the list of members that
\* begins with the k-th one.
RemainingFrom(k) == SubSeq(DestructionOrder, k, 7)

GuiPlaces   == {"idle", "connect", "connecting", "startLoop", "flags", "join", "free",
                "openInput", "openOutput", "closeAgain", "wire", "startScheduler",
                "clearReceive", "stopScheduler", "joinWorker", "clearInput", "closeInput",
                "closeOutput", "destroy", "exit", "terminated"}
DisconnectCallers == {"none", "setServerConfig", "connectToServer", "stop", "disconnect",
                      "shutdown"}
MidiPlaces  == {"idle", "handling", "tested", "sending", "writing"}

\* The types that Inv leaves out.
PlaceTypes ==
    /\ gpc \in GuiPlaces /\ caller \in DisconnectCallers /\ midi \in MidiPlaces
    /\ selected \subseteq Ports /\ lost \subseteq Objects

\* shutdown() leaves the loop of its destructions with the last member, so that it
\* never takes one from an empty list.
RemainingInv ==
    \E k \in 1 .. 8 : built = RemainingFrom(k) /\ (gpc = "destroy" => k # 8)

\* The list of members, from its k-th on.
LEMMA RemainingMembers ==
    ASSUME NEW k \in 1 .. 7
    PROVE  /\ Tail(RemainingFrom(k)) = RemainingFrom(k + 1)
           /\ Head(RemainingFrom(k)) = "transportClient" <=> k = 7
  BY SMTT(60) DEF RemainingFrom, DestructionOrder

LEMMA WholeListRemains == DestructionOrder = RemainingFrom(1)
  BY SMTT(60) DEF RemainingFrom, DestructionOrder

LEMMA RemainingIsSuffix ==
    ASSUME NEW k \in 1 .. 8
    PROVE  IsSuffix(RemainingFrom(k), DestructionOrder)
  BY SMTT(60) DEF RemainingFrom, DestructionOrder, IsSuffix, IsPrefix, Reverse

HIDE DEF ClearedInv, Disconnecting, Replacing, Fresh, Connected, NewObject, ObjectType

\* A step leads from one place of each thread to another one.
LEMMA StepKeepsPlaces == Inv /\ PlaceTypes /\ [Next]_vars => PlaceTypes'
  <1> SUFFICES ASSUME Inv, PlaceTypes, [Next]_vars PROVE PlaceTypes'
    OBVIOUS
  <1> USE DEF PlaceTypes, GuiPlaces, DisconnectCallers, MidiPlaces
  <1>1. ASSUME NEW g \in Objects, ReceiveFrameOf(g) \/ ReceiveStep(g) \/ ReadFails(g)
        PROVE  PlaceTypes'
    BY <1>1 DEF ReceiveFrameOf, ReceiveStep, ReceiveCallbackReturns, ReceiveLoopEnds, ReadFails,
                RecordLoss
  <1>2. CASE SetServerConfig \/ Connect \/ ConnectToServer \/ StartReceiveLoop
    BY <1>2 DEF SetServerConfig, Connect, ConnectToServer, StartReceiveLoop
  <1>3. CASE DisconnectFlags \/ DisconnectJoin \/ DisconnectFree \/ Destroy
    BY <1>3 DEF DisconnectFlags, DisconnectJoin, DisconnectFree, Destroy
  <1>4. CASE SelectPort \/ StartStreaming \/ OpenInput \/ OpenOutput \/ CloseInputAgain
               \/ WireCallbacks \/ StartScheduler
    BY <1>4 DEF SelectPort, StartStreaming, OpenInput, OpenOutput, CloseInputAgain,
                WireCallbacks, StartScheduler
  <1>5. CASE StopStreaming \/ ClearReceiveCallback \/ StopScheduler \/ JoinWorker
               \/ ClearInputCallbacks \/ CloseInput \/ CloseOutput
    BY <1>5 DEF StopStreaming, ClearReceiveCallback, StopScheduler, JoinWorker,
                ClearInputCallbacks, CloseInput, CloseOutput
  <1>6. CASE MidiMessage \/ MidiTest \/ MidiSend \/ MidiWrite
    BY <1>6 DEF MidiMessage, MidiTest, MidiSend, MidiWrite
  <1>7. CASE MidiWritten
    BY <1>7 DEF MidiWritten, RecordLoss, Inv, TypeInv
  <1>8. CASE WorkerEnds \/ WorkerWakes
    BY <1>8 DEF WorkerEnds, WorkerWakes, WorkerFrame, historyVars
  <1>9. CASE UNCHANGED vars
    BY <1>9 DEF vars, historyVars
  <1> QED
    BY <1>1, <1>2, <1>3, <1>4, <1>5, <1>6, <1>7, <1>8, <1>9 DEF Next, GuiStep, MidiStep

\* Only shutdown() shortens the list, by its first member, and the last one ends it.
LEMMA StepKeepsRemaining == Inv /\ RemainingInv /\ [Next]_vars => RemainingInv'
  <1> SUFFICES ASSUME Inv, RemainingInv, [Next]_vars PROVE RemainingInv'
    OBVIOUS
  <1> PICK k \in 1 .. 8 : built = RemainingFrom(k) /\ (gpc = "destroy" => k # 8)
    BY DEF RemainingInv
  <1>1. CASE Destroy
    <2>1. gpc = "destroy" /\ k \in 1 .. 7 /\ k + 1 \in 1 .. 8
      BY <1>1 DEF Destroy
    <2>2. built' = RemainingFrom(k + 1)
      BY <1>1, <2>1, RemainingMembers DEF Destroy
    <2>3. gpc' = "destroy" => k # 7
      BY <1>1, <2>1, RemainingMembers DEF Destroy
    <2> QED
      BY <2>1, <2>2, <2>3 DEF RemainingInv
  <1>2. ASSUME built' = built, gpc' # "destroy" \/ gpc' = gpc PROVE RemainingInv'
    BY <1>2 DEF RemainingInv
  <1>3. CASE DisconnectFree
    <2>1. built = DestructionOrder
      BY <1>3 DEF DisconnectFree, Inv, BuiltInv
    <2>2. built = RemainingFrom(1)
      BY <2>1, WholeListRemains
    <2> QED
      BY <1>3, <2>2 DEF DisconnectFree, RemainingInv
  <1>4. ASSUME NEW g \in Objects, ReceiveFrameOf(g) \/ ReceiveStep(g) \/ ReadFails(g)
        PROVE  built' = built /\ gpc' = gpc
    BY <1>4 DEF ReceiveFrameOf, ReceiveStep, ReceiveCallbackReturns, ReceiveLoopEnds, ReadFails
  <1>5. CASE SetServerConfig \/ Connect \/ ConnectToServer \/ StartReceiveLoop
               \/ DisconnectFlags \/ DisconnectJoin
    BY <1>2, <1>5 DEF SetServerConfig, Connect, ConnectToServer, StartReceiveLoop, DisconnectFlags,
                      DisconnectJoin
  <1>6. CASE SelectPort \/ StartStreaming \/ OpenInput \/ OpenOutput \/ CloseInputAgain
               \/ WireCallbacks \/ StartScheduler
    BY <1>2, <1>6 DEF SelectPort, StartStreaming, OpenInput, OpenOutput, CloseInputAgain,
                      WireCallbacks, StartScheduler
  <1>7. CASE StopStreaming \/ ClearReceiveCallback \/ StopScheduler \/ JoinWorker
               \/ ClearInputCallbacks \/ CloseInput \/ CloseOutput
    BY <1>2, <1>7 DEF StopStreaming, ClearReceiveCallback, StopScheduler, JoinWorker,
                      ClearInputCallbacks, CloseInput, CloseOutput
  <1>8. CASE MidiMessage \/ MidiStep \/ MidiWritten
    BY <1>2, <1>8 DEF MidiMessage, MidiStep, MidiTest, MidiSend, MidiWrite, MidiWritten
  <1>9. CASE WorkerEnds \/ WorkerWakes
    BY <1>2, <1>9 DEF WorkerEnds, WorkerWakes, WorkerFrame
  <1>10. CASE UNCHANGED vars
    BY <1>2, <1>10 DEF vars
  <1> QED
    BY <1>1, <1>2, <1>3, <1>4, <1>5, <1>6, <1>7, <1>8, <1>9, <1>10 DEF Next, GuiStep

\* Every variable has its type, for any number of objects: transportClient_ points to
\* a living object until shutdown() has destroyed the last of its members.
THEOREM ControllerTypes == Spec => []TypeOK
  <1>1. Init => PlaceTypes /\ RemainingInv
    <2>1. Init => RemainingInv
      BY WholeListRemains DEF Init, RemainingInv
    <2> QED
      BY <2>1 DEF Init, PlaceTypes, GuiPlaces, DisconnectCallers, MidiPlaces
  <1>2. Inv /\ PlaceTypes /\ RemainingInv => TypeOK
    <2> SUFFICES ASSUME Inv, PlaceTypes, RemainingInv PROVE TypeOK
      OBVIOUS
    <2>1. IsSuffix(built, DestructionOrder)
      BY RemainingIsSuffix DEF RemainingInv
    <2>2. /\ client \in 0 .. MaxObjects
          /\ IF gpc = "exit" THEN client = 0 ELSE client # 0 /\ object[client].alive
      BY DEF Inv, TypeInv, LifeInv, Objects
    <2> QED
      BY <2>1, <2>2 DEF TypeOK, Inv, TypeInv, PlaceTypes, GuiPlaces, DisconnectCallers, MidiPlaces
  <1> QED
    BY <1>1, <1>2, StepKeepsPlaces, StepKeepsRemaining, InvAlways, PTL DEF Spec
=============================================================================
