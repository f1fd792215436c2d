--------------------------- MODULE LocalMidiProofs ---------------------------
(***************************************************************************)
(* Theorems about LocalMidi for every set of devices, every length of the  *)
(* logs and any number of messages, changes and Starts.                    *)
(***************************************************************************)
EXTENDS LocalMidi, TLAPS

Opening == {"openInput", "openOutput", "closeAgain", "wire", "startScheduler"}

\* The functions have their domains.
Shape ==
    /\ DOMAIN plan = Threads /\ DOMAIN tested = Threads
    /\ DOMAIN index = Directions /\ DOMAIN selected = Directions
    /\ DOMAIN opened = Directions

\* A thread is in its callbacks only while its port is open, or while the scheduler's
\* worker has not been joined.
ThreadInv ==
    /\ \A t \in Threads : tested[t] => plan[t] # <<>>
    /\ gpc \in Opening => ~streaming
    /\ ~streaming /\ gpc \in {"idle", "openInput"} => opened.input = NoPort
    /\ gpc = "closeOutput" => opened.input = NoPort
    /\ plan.midi # <<>> => opened.input # NoPort
    /\ workerRunning => (gpc = "idle" /\ streaming) \/ gpc \in {"clearLogs", "terminated"}
    /\ plan.worker # <<>> =>
          (gpc = "idle" /\ streaming) \/ gpc \in {"clearLogs", "join", "terminated"}

\* Where members are cleared under a thread.
ClearingInv ==
    /\ gpc = "clearLogs" => closing
    /\ EmptyCallsOnlyWhileClearing

\* What Start has opened so far is what is selected.
PortInv ==
    /\ gpc \in {"openOutput", "wire", "startScheduler"} => opened.input = selected.input
    /\ gpc \in {"wire", "startScheduler"} => opened.output = selected.output
    /\ ShownPortIsUsed

LocalInv == Shape /\ ThreadInv /\ ClearingInv /\ PortInv

LEMMA InitLocal == Init => LocalInv
<1> SUFFICES ASSUME Init PROVE LocalInv
  OBVIOUS
<1>1. Shape
  BY DEF Init, Shape
<1>2. ThreadInv
  BY DEF Init, ThreadInv, Opening, Threads, Directions
<1>3. ClearingInv
  BY DEF Init, ClearingInv, EmptyCallsOnlyWhileClearing
<1>4. PortInv
  BY DEF Init, PortInv, ShownPortIsUsed
<1> QED BY <1>1, <1>2, <1>3, <1>4 DEF LocalInv

-----------------------------------------------------------------------------
(* The window's lists.                                                      *)

LEMMA SelectKeepsPorts ==
    ASSUME LocalInv, NEW d \in Directions, NEW i \in DOMAIN listed[d], SelectPort(d, i)
    PROVE  Shape' /\ PortInv'
<1> USE DEF LocalInv, Shape
<1>1. /\ gpc = "idle" /\ gpc' = gpc /\ i <= Len(listed[d]) /\ listed' = listed
      /\ opened' = opened /\ streaming' = streaming /\ plan' = plan /\ tested' = tested
  BY DEF SelectPort, GuiFrame, threadVars
<1>2. CASE ~(i <= Len(devices[d]))
  BY <1>1, <1>2 DEF SelectPort, PortInv, ShownPortIsUsed
<1>3. CASE i <= Len(devices[d])
  <2>1. /\ selected' = [selected EXCEPT ![d] = devices[d][i]]
        /\ index' = [index EXCEPT ![d] = i]
        /\ NoteSelection(d)
    BY <1>3 DEF SelectPort
  <2>2. ASSUME NEW e \in Directions
        PROVE  /\ <<e, "list">> \notin stale' /\ index'[e] # 0 =>
                     index'[e] <= Len(listed[e]) /\ listed[e][index'[e]] = selected'[e]
               /\ streaming /\ <<e, "choice">> \notin stale' => opened[e] = selected'[e]
    <3>1. CASE e = d
      BY <1>1, <2>1, <3>1 DEF NoteSelection
    <3>2. CASE e # d
      <4>1. index'[e] = index[e] /\ selected'[e] = selected[e]
        BY <2>1, <3>2
      <4>2. \A what : <<e, what>> \in stale => <<e, what>> \in stale'
        BY <2>1, <3>2 DEF NoteSelection
      <4> QED BY <1>1, <4>1, <4>2 DEF PortInv, ShownPortIsUsed
    <3> QED BY <3>1, <3>2
  <2> QED BY <1>1, <2>1, <2>2 DEF PortInv, ShownPortIsUsed
<1> QED BY <1>2, <1>3

LEMMA RefreshKeepsPorts ==
    ASSUME LocalInv, RefreshPorts
    PROVE  Shape' /\ PortInv'
<1> USE DEF LocalInv, Shape
<1>1. /\ gpc = "idle" /\ gpc' = gpc /\ listed' = devices /\ index' = index
      /\ selected' = selected /\ opened' = opened /\ streaming' = streaming
      /\ plan' = plan /\ tested' = tested
  BY DEF RefreshPorts, GuiFrame, threadVars
<1>2. ASSUME NEW d \in Directions, <<d, "list">> \notin stale', index[d] # 0
      PROVE  <<d, "list">> \notin stale /\ devices[d] = listed[d]
  BY <1>2 DEF RefreshPorts
<1>3. \A d \in Directions : <<d, "choice">> \notin stale' => <<d, "choice">> \notin stale
  BY DEF RefreshPorts
<1> QED BY <1>1, <1>2, <1>3 DEF PortInv, ShownPortIsUsed

\* The lists touch neither the threads nor the callbacks.
LEMMA ListsKeepThreads ==
    ASSUME LocalInv,
           \/ RefreshPorts
           \/ \E d \in Directions : \E i \in DOMAIN listed[d] : SelectPort(d, i)
    PROVE  ThreadInv' /\ ClearingInv'
<1>1. UNCHANGED <<gpc, streaming, opened, plan, tested, workerRunning, callbacks, closing>>
  BY DEF RefreshPorts, SelectPort, GuiFrame, ControlFrame, threadVars
<1> QED BY <1>1 DEF LocalInv, ThreadInv, ClearingInv, EmptyCallsOnlyWhileClearing

-----------------------------------------------------------------------------
(* Start and Stop.                                                          *)

LEMMA ButtonsKeepLocal ==
    ASSUME LocalInv,
           \/ StartStreaming \/ OpenInput \/ OpenOutput \/ WireCallback \/ StartScheduler
           \/ StopStreaming \/ WindowCloses \/ ClearGuiLogCallback \/ JoinWorker
           \/ ClearCallback \/ CloseInput \/ CloseOutput
    PROVE  LocalInv'
<1> USE DEF LocalInv, Shape, ThreadInv, ClearingInv, EmptyCallsOnlyWhileClearing, PortInv,
            ShownPortIsUsed, Opening, Threads, Directions, GuiFrame, PortFrame, ControlFrame,
            threadVars
<1>1. CASE StartStreaming
  BY <1>1 DEF StartStreaming
<1>2. CASE OpenInput
  BY <1>2 DEF OpenInput
<1>3. CASE OpenOutput
  BY <1>3 DEF OpenOutput
<1>4. CASE WireCallback
  BY <1>4 DEF WireCallback
<1>5. CASE StartScheduler
  BY <1>5 DEF StartScheduler
<1>6. CASE StopStreaming
  BY <1>6 DEF StopStreaming
<1>7. CASE WindowCloses
  BY <1>7 DEF WindowCloses
<1>8. CASE ClearGuiLogCallback
  BY <1>8 DEF ClearGuiLogCallback
<1>9. CASE JoinWorker
  BY <1>9 DEF JoinWorker
<1>10. CASE ClearCallback
  BY <1>10 DEF ClearCallback
<1>11. CASE CloseInput
  BY <1>11 DEF CloseInput
<1>12. CASE CloseOutput
  BY <1>12 DEF CloseOutput
<1> QED BY <1>1, <1>2, <1>3, <1>4, <1>5, <1>6, <1>7, <1>8, <1>9, <1>10, <1>11, <1>12

-----------------------------------------------------------------------------
(* The other threads.                                                       *)

LEMMA ThreadsKeepLocal ==
    ASSUME LocalInv,
           \/ MidiMessage \/ SendMessage
           \/ \E t \in Threads : TestCallback(t) \/ CallCallback(t) \/ EmptyCall(t)
    PROVE  LocalInv'
<1> USE DEF LocalInv, Shape, ThreadFrame, portVars
<1>0. PortInv'
  <2>1. ThreadFrame /\ (gpc' = gpc \/ gpc' = "terminated")
    BY DEF MidiMessage, SendMessage, TestCallback, CallCallback, EmptyCall
  <2> QED BY <2>1 DEF PortInv, ShownPortIsUsed
<1> USE DEF ThreadInv, ClearingInv, EmptyCallsOnlyWhileClearing, Opening, Threads
<1>1. CASE MidiMessage
  <2>1. PICK first \in ClockPart :
           plan' = [plan EXCEPT !.midi = first \o <<"input", "received">>]
    BY <1>1 DEF MidiMessage
  <2> QED BY <1>0, <1>1, <2>1 DEF MidiMessage, ClockPart
<1>2. CASE SendMessage
  BY <1>0, <1>2 DEF SendMessage
<1>3. ASSUME NEW t \in Threads, TestCallback(t) PROVE LocalInv'
  BY <1>0, <1>3 DEF TestCallback
<1>4. ASSUME NEW t \in Threads, CallCallback(t) PROVE LocalInv'
  <2>1. /\ tested' = [tested EXCEPT ![t] = FALSE] /\ tested[t] /\ gpc # "terminated"
        /\ \E new : plan' = [plan EXCEPT ![t] = new]
        /\ ThreadFrame /\ gpc' = gpc
    BY <1>4 DEF CallCallback
  <2> QED BY <1>0, <2>1
<1>5. ASSUME NEW t \in Threads, EmptyCall(t) PROVE LocalInv'
  BY <1>0, <1>5 DEF EmptyCall
<1> QED BY <1>1, <1>2, <1>3, <1>4, <1>5

LEMMA NextKeepsLocal == LocalInv /\ [Next]_vars => LocalInv'
<1> SUFFICES ASSUME LocalInv, [Next]_vars PROVE LocalInv'
  OBVIOUS
<1>1. CASE UNCHANGED <<portVars, opened, callbacks, gpc, closing, streaming,
                       workerRunning, threadVars, stale>>
  BY <1>1 DEF portVars, threadVars, LocalInv, Shape, ThreadInv, ClearingInv,
              EmptyCallsOnlyWhileClearing, PortInv, ShownPortIsUsed
<1>2. CASE UNCHANGED vars
  BY <1>1, <1>2 DEF vars
<1>3. CASE DevicesChange
  BY <1>3 DEF DevicesChange, threadVars, LocalInv, Shape, ThreadInv, ClearingInv,
              EmptyCallsOnlyWhileClearing, PortInv, ShownPortIsUsed
<1>4. CASE GuiStep
  <2>1. CASE RefreshPorts
    BY <2>1, RefreshKeepsPorts, ListsKeepThreads DEF LocalInv
  <2>2. CASE \E d \in Directions : \E i \in DOMAIN listed[d] : SelectPort(d, i)
    BY <2>2, SelectKeepsPorts, ListsKeepThreads DEF LocalInv
  <2> QED BY <1>4, <2>1, <2>2, ButtonsKeepLocal DEF GuiStep
<1> QED BY <1>2, <1>3, <1>4, ThreadsKeepLocal DEF Next

-----------------------------------------------------------------------------
\* Whatever fails to open and whatever is pressed, no other thread is in a callback
\* between two handlers of a client that does not stream.
THEOREM Quiet == Spec => []QuietWhenStopped
<1>1. LocalInv => QuietWhenStopped
  BY DEF LocalInv, ThreadInv, QuietWhenStopped, Threads
<1> QED BY <1>1, InitLocal, NextKeepsLocal, PTL DEF Spec

\* A member is cleared between a thread's test and its call in the two places that
\* EmptyCallsOnlyWhileClearing names and in no other.
THEOREM EmptyCalls == Spec => []EmptyCallsOnlyWhileClearing
<1>1. LocalInv => EmptyCallsOnlyWhileClearing
  BY DEF LocalInv, ClearingInv
<1> QED BY <1>1, InitLocal, NextKeepsLocal, PTL DEF Spec

\* The window shows the port that is used, up to the two ways of falling behind that
\* ShownPortIsUsed names, for any devices that come and go.
THEOREM ShownPorts == Spec => []ShownPortIsUsed
<1>1. LocalInv => ShownPortIsUsed
  BY DEF LocalInv, PortInv
<1> QED BY <1>1, InitLocal, NextKeepsLocal, PTL DEF Spec

-----------------------------------------------------------------------------
(* The logs.  What a message has still to call is tied to the members that *)
(* are set, and those to how far Start, Stop or the window's end has come: *)
(* a line is lost only where a member is gone.                             *)

\* What a thread may have still to call.
MidiPlans == {<<>>, <<"input", "received">>, <<"clock", "input", "received">>,
              <<"receivedLog", "input", "received">>, <<"received">>, <<"receivedLog">>}
WorkerPlans == {<<>>, <<"sent">>, <<"sentLog">>}

\* What the GUI thread may have still to assign.
OrderLeft == {<<"input", "clock", "received", "sent">>, <<"clock", "received", "sent">>,
              <<"received", "sent">>, <<"sent">>}
LogsLeft == {<<"sentLog", "receivedLog">>, <<"receivedLog">>}

PlanInv ==
    /\ plan.midi \in MidiPlans /\ plan.worker \in WorkerPlans
    /\ gpc \in {"wire", "unwire"} => todo \in OrderLeft
    /\ gpc = "clearLogs" => todo \in LogsLeft

\* Which members are set.
WiredInv ==
    /\ ~closing => ToSet(Logs) \subseteq callbacks
    /\ gpc = "wire" => ToSet(WireOrder) \ ToSet(todo) \subseteq callbacks
    /\ gpc = "startScheduler" \/ (streaming /\ gpc \in {"idle", "clearLogs", "join"})
         => ToSet(WireOrder) \subseteq callbacks
    /\ gpc = "unwire" /\ streaming => ToSet(todo) \subseteq callbacks
    /\ gpc = "unwire" => (ToSet(StopOrder) \ ToSet(todo)) \cap callbacks = {}
    /\ gpc = "closeInput" => ToSet(StopOrder) \cap callbacks = {}

\* Messages on their way belong to the session.
SessionInv ==
    /\ gpc = "exit" => closing
    /\ workerRunning => streaming
    /\ plan.worker # <<>> => streaming
    /\ plan.midi # <<>> /\ counted => streaming

\* The counters, and the logs.
SentInv ==
    /\ sends \in Nat /\ (plan.worker # <<>> => sends > 0)
    /\ SentLogIsExact

MissingInv ==
    /\ missing \in Nat /\ messages \in Nat /\ missing <= messages
    /\ plan.midi # <<>> => missing < messages

\* No message that is on its way, or may still come in, can be sent to the server any more.
CannotForward ==
    /\ "input" \notin callbacks
    /\ plan.midi # <<>> => ~forwarded /\ ~(tested.midi /\ Head(plan.midi) = "input")

\* A Stop loses one line at most.
LossInv ==
    /\ starts \in Nat
    /\ ~closing =>
         /\ missing <= starts
         /\ streaming /\ gpc \in {"idle", "join"} => missing < starts
         /\ streaming /\ gpc \in {"unwire", "closeInput"} => missing < starts \/ CannotForward

\* TypeOK, part by part.
PortTypes ==
    /\ DOMAIN devices = Directions
    /\ \A d \in Directions : devices[d] \in Lists[d] /\ listed[d] \in Lists[d]
                               /\ index[d] \in Nat

ControlTypes ==
    /\ callbacks \subseteq ToSet(Logs) \cup ToSet(WireOrder)
    /\ gpc \in {"idle", "openInput", "openOutput", "closeAgain", "wire", "startScheduler",
                "clearLogs", "join", "unwire", "closeInput", "closeOutput", "exit",
                "terminated"}

FlagTypes == {closing, streaming, workerRunning, counted, forwarded} \subseteq BOOLEAN

LogTypes ==
    /\ DOMAIN log = ToSet(Logs)
    /\ \A l \in ToSet(Logs) :
         log[l] \in Seq(Nat \cup {"line"}) /\ Len(log[l]) <= MaxLogEntries

MidiInv ==
    /\ LocalInv
    /\ PortTypes /\ ControlTypes /\ FlagTypes /\ LogTypes
    /\ PlanInv /\ WiredInv /\ SessionInv
    /\ SentInv /\ MissingInv /\ LossInv

LEMMA MidiInvTypes == MidiInv => TypeOK
  BY DEF MidiInv, LocalInv, ThreadInv, PortTypes, ControlTypes, FlagTypes, LogTypes, MissingInv,
         TypeOK

-----------------------------------------------------------------------------
(* The orders and the lines.                                               *)

\* The members in the orders, as sets.
LEMMA Members ==
    /\ ToSet(<<"input", "clock", "received", "sent">>) = {"input", "clock", "received", "sent"}
    /\ ToSet(<<"clock", "received", "sent">>) = {"clock", "received", "sent"}
    /\ ToSet(<<"received", "sent">>) = {"received", "sent"}
    /\ ToSet(<<"sent">>) = {"sent"}
    /\ ToSet(<<"sentLog", "receivedLog">>) = {"sentLog", "receivedLog"}
    /\ ToSet(<<"receivedLog">>) = {"receivedLog"}
    /\ ToSet(<<>>) = {}
  <1>1. \A a, b, c, d : ToSet(<<a, b, c, d>>) = {a, b, c, d}
    BY DEF ToSet
  <1>2. \A a, b, c : ToSet(<<a, b, c>>) = {a, b, c}
    BY DEF ToSet
  <1>3. \A a, b : ToSet(<<a, b>>) = {a, b}
    BY DEF ToSet
  <1>4. \A a : ToSet(<<a>>) = {a}
    BY DEF ToSet
  <1>5. ToSet(<<>>) = {}
    BY DEF ToSet
  <1> QED BY <1>1, <1>2, <1>3, <1>4, <1>5

\* The first of an order, and what is left of it.
LEMMA OrderStep ==
    ASSUME NEW s \in OrderLeft
    PROVE  /\ Head(s) \in ToSet(WireOrder)
           /\ ToSet(s) = {Head(s)} \cup ToSet(Tail(s)) /\ Head(s) \notin ToSet(Tail(s))
           /\ Tail(s) # <<>> => Tail(s) \in OrderLeft
  <1>1. CASE s = <<"input", "clock", "received", "sent">>
    <2>1. Head(s) = "input" /\ Tail(s) = <<"clock", "received", "sent">>
      BY <1>1
    <2> QED BY <1>1, <2>1, Members DEF OrderLeft, WireOrder
  <1>2. CASE s = <<"clock", "received", "sent">>
    <2>1. Head(s) = "clock" /\ Tail(s) = <<"received", "sent">>
      BY <1>2
    <2> QED BY <1>2, <2>1, Members DEF OrderLeft, WireOrder
  <1>3. CASE s = <<"received", "sent">>
    <2>1. Head(s) = "received" /\ Tail(s) = <<"sent">>
      BY <1>3
    <2> QED BY <1>3, <2>1, Members DEF OrderLeft, WireOrder
  <1>4. CASE s = <<"sent">>
    <2>1. Head(s) = "sent" /\ Tail(s) = <<>>
      BY <1>4
    <2> QED BY <1>4, <2>1, Members DEF OrderLeft, WireOrder
  <1> QED BY <1>1, <1>2, <1>3, <1>4 DEF OrderLeft

LEMMA LogsStep ==
    ASSUME NEW s \in LogsLeft
    PROVE  /\ Head(s) \in ToSet(Logs)
           /\ Tail(s) # <<>> => Tail(s) \in LogsLeft
  <1>1. CASE s = <<"sentLog", "receivedLog">>
    <2>1. Head(s) = "sentLog" /\ Tail(s) = <<"receivedLog">>
      BY <1>1
    <2> QED BY <1>1, <2>1, Members DEF LogsLeft, Logs
  <1>2. CASE s = <<"receivedLog">>
    <2>1. Head(s) = "receivedLog" /\ Tail(s) = <<>>
      BY <1>2
    <2> QED BY <1>2, <2>1, Members DEF LogsLeft, Logs
  <1> QED BY <1>1, <1>2 DEF LogsLeft

-----------------------------------------------------------------------------
(* The GUI thread and the devices.                                         *)

LEMMA InitMidi == Init => MidiInv
  <1> SUFFICES ASSUME Init PROVE MidiInv
    OBVIOUS
  <1> USE DEF Init
  <1>1. plan.midi = <<>> /\ plan.worker = <<>>
    BY DEF Threads
  <1>2. PortTypes
    BY DEF PortTypes
  <1>3. ControlTypes /\ FlagTypes
    BY DEF ControlTypes, FlagTypes
  <1>4. LogTypes
    <2>1. <<>> \in Seq(Nat \cup {"line"}) /\ Len(<<>>) <= MaxLogEntries
      BY LocalMidiConstants
    <2>2. DOMAIN log = ToSet(Logs) /\ \A l \in ToSet(Logs) : log[l] = <<>>
      OBVIOUS
    <2> QED BY <2>1, <2>2, Zenon DEF LogTypes
  <1>5. PlanInv /\ WiredInv /\ SessionInv
    BY <1>1 DEF PlanInv, WiredInv, SessionInv, MidiPlans, WorkerPlans
  <1>6. SentInv
    <2>1. log["sentLog"] = <<>>
      <3>1. "sentLog" \in ToSet(Logs)
        BY Members DEF Logs
      <3> QED BY <3>1
    <2>2. 0 - 0 = 0 /\ ~(0 > MaxLogEntries) /\ <<>> = [i \in 1 .. 0 |-> 0 + i]
      BY LocalMidiConstants
    <2> QED BY <1>1, <2>1, <2>2 DEF SentInv, SentLogIsExact
  <1>7. MissingInv /\ LossInv
    BY <1>1 DEF MissingInv, LossInv
  <1> QED BY <1>2, <1>3, <1>4, <1>5, <1>6, <1>7, InitLocal DEF MidiInv

\* The members that are set follow the button that assigns them.
LEMMA GuiKeepsMembers ==
    ASSUME MidiInv, GuiStep
    PROVE  PlanInv' /\ WiredInv' /\ SessionInv' /\ ControlTypes'
  <1> USE DEF MidiInv, PlanInv, WiredInv, SessionInv, ControlTypes, GuiFrame, PortFrame,
              ControlFrame, threadVars, messageVars
  <1>1. CASE RefreshPorts \/ \E d \in Directions : \E i \in DOMAIN listed[d] : SelectPort(d, i)
    <2>1. UNCHANGED <<gpc, streaming, plan, tested, workerRunning, callbacks, closing, todo,
                      messages, counted, forwarded, missing, sends, starts>>
      BY <1>1 DEF RefreshPorts, SelectPort
    <2> QED BY <2>1
  <1>2. CASE StartStreaming
    BY <1>2 DEF StartStreaming
  <1>3. CASE OpenInput
    <2>1. ~streaming
      BY <1>3 DEF OpenInput, LocalInv, ThreadInv, Opening
    <2> QED BY <1>3, <2>1 DEF OpenInput
  <1>4. CASE OpenOutput
    <2>1. WireOrder \in OrderLeft
      BY DEF WireOrder, OrderLeft
    <2> QED BY <1>4, <2>1 DEF OpenOutput
  <1>5. CASE WireCallback
    <2>1. /\ todo \in OrderLeft /\ callbacks' = callbacks \cup {Head(todo)}
          /\ todo' = Tail(todo) /\ gpc' = IF todo' = <<>> THEN "startScheduler" ELSE "wire"
          /\ UNCHANGED <<closing, streaming, workerRunning, plan, tested, counted>>
          /\ gpc = "wire"
      BY <1>5 DEF WireCallback
    <2>2. /\ Head(todo) \in ToSet(WireOrder)
          /\ ToSet(todo) = {Head(todo)} \cup ToSet(Tail(todo))
          /\ Tail(todo) # <<>> => Tail(todo) \in OrderLeft
      BY <2>1, OrderStep
    <2>3. ToSet(WireOrder) \ ToSet(todo') \subseteq callbacks'
      BY <2>1, <2>2
    <2>4. todo' = <<>> => ToSet(WireOrder) \subseteq callbacks'
      BY <2>3, Members
    <2>5. callbacks' \subseteq ToSet(Logs) \cup ToSet(WireOrder)
      BY <2>1, <2>2
    <2> HIDE DEF MidiInv
    <2>6. ~closing => ToSet(Logs) \subseteq callbacks'
      BY <2>1 DEF MidiInv
    <2>7. PlanInv'
      BY <2>1, <2>2 DEF MidiInv
    <2>8. ~streaming
      BY <2>1 DEF MidiInv, LocalInv, ThreadInv, Opening
    <2>9. WiredInv'
      BY <2>1, <2>3, <2>4, <2>6, <2>8
    <2>10. SessionInv' /\ ControlTypes'
      BY <2>1, <2>5 DEF MidiInv
    <2> QED BY <2>7, <2>9, <2>10
  <1>6. CASE StartScheduler
    BY <1>6 DEF StartScheduler
  <1>7. CASE StopStreaming
    BY <1>7 DEF StopStreaming
  <1>8. CASE WindowCloses
    <2>1. Logs \in LogsLeft
      BY DEF Logs, LogsLeft
    <2> QED BY <1>8, <2>1 DEF WindowCloses
  <1>9. CASE ClearGuiLogCallback
    <2>1. /\ todo \in LogsLeft /\ callbacks' = callbacks \ {Head(todo)}
          /\ todo' = Tail(todo) /\ gpc = "clearLogs"
          /\ \/ todo' = <<>> /\ gpc' = "join" /\ workerRunning' = FALSE
             \/ todo' # <<>> /\ UNCHANGED <<gpc, workerRunning>>
          /\ UNCHANGED <<closing, streaming, plan, tested, counted>>
      BY <1>9 DEF ClearGuiLogCallback
    <2>2. Head(todo) \in ToSet(Logs) /\ (Tail(todo) # <<>> => Tail(todo) \in LogsLeft)
      BY <2>1, LogsStep
    <2>3. ToSet(Logs) \cap ToSet(WireOrder) = {}
      BY Members DEF Logs, WireOrder
    <2>4. ToSet(WireOrder) \subseteq callbacks => ToSet(WireOrder) \subseteq callbacks'
      BY <2>1, <2>2, <2>3
    <2>5. closing
      BY <2>1 DEF LocalInv, ClearingInv
    <2> QED BY <2>1, <2>2, <2>4, <2>5
  <1>10. CASE JoinWorker
    <2>1. /\ StopOrder \in OrderLeft /\ StopOrder = WireOrder
      BY DEF StopOrder, WireOrder, OrderLeft
    <2> QED BY <1>10, <2>1 DEF JoinWorker
  <1>11. CASE ClearCallback
    <2>1. /\ todo \in OrderLeft /\ callbacks' = callbacks \ {Head(todo)}
          /\ todo' = Tail(todo) /\ gpc' = IF todo' = <<>> THEN "closeInput" ELSE "unwire"
          /\ UNCHANGED <<closing, streaming, workerRunning, plan, tested, counted>>
          /\ gpc = "unwire"
      BY <1>11 DEF ClearCallback
    <2>2. /\ Head(todo) \in ToSet(WireOrder)
          /\ ToSet(todo) = {Head(todo)} \cup ToSet(Tail(todo))
          /\ Head(todo) \notin ToSet(Tail(todo))
          /\ Tail(todo) # <<>> => Tail(todo) \in OrderLeft
      BY <2>1, OrderStep
    <2>3. ToSet(Logs) \cap ToSet(WireOrder) = {}
      BY Members DEF Logs, WireOrder
    <2>4. streaming => ToSet(todo') \subseteq callbacks'
      BY <2>1, <2>2
    <2>5. (ToSet(StopOrder) \ ToSet(todo')) \cap callbacks' = {}
      BY <2>1, <2>2
    <2>6. todo' = <<>> => ToSet(StopOrder) \cap callbacks' = {}
      BY <2>5, Members
    <2>7. ~closing => ToSet(Logs) \subseteq callbacks'
      BY <2>1, <2>2, <2>3
    <2>8. PlanInv' /\ SessionInv' /\ ControlTypes'
      BY <2>1, <2>2
    <2>9. WiredInv'
      BY <2>1, <2>4, <2>5, <2>6, <2>7
    <2> QED BY <2>8, <2>9
  <1>12. CASE CloseInput
    <2>1. gpc = "closeAgain" => ~streaming
      BY DEF LocalInv, ThreadInv, Opening
    <2> QED BY <1>12, <2>1 DEF CloseInput
  <1>13. CASE CloseOutput
    <2>1. plan.midi = <<>> /\ plan.worker = <<>> /\ ~workerRunning
      BY <1>13 DEF CloseOutput, LocalInv, ThreadInv
    <2> QED BY <1>13, <2>1 DEF CloseOutput
  <1> QED BY <1>1, <1>2, <1>3, <1>4, <1>5, <1>6, <1>7, <1>8, <1>9, <1>10, <1>11, <1>12, <1>13
          DEF GuiStep

\* The buttons log nothing and send nothing; a Stop leaves one message to be lost.
LEMMA GuiKeepsCounts ==
    ASSUME MidiInv, GuiStep
    PROVE  /\ PortTypes' /\ FlagTypes' /\ LogTypes'
           /\ SentInv' /\ MissingInv' /\ LossInv'
  <1> USE DEF GuiFrame, PortFrame, ControlFrame, threadVars, messageVars
  <1>1. /\ UNCHANGED <<plan, tested, log, messages, counted, forwarded, missing, sends, devices>>
        /\ closing => closing'
    BY DEF GuiStep, RefreshPorts, SelectPort, StartStreaming, OpenInput, OpenOutput, WireCallback,
           StartScheduler, StopStreaming, WindowCloses, ClearGuiLogCallback, JoinWorker,
           ClearCallback, CloseInput, CloseOutput
  <1>2. LogTypes' /\ MissingInv'
    BY <1>1 DEF MidiInv, LogTypes, MissingInv
  <1>3. SentInv'
    BY <1>1 DEF MidiInv, SentInv, SentLogIsExact
  <1>4. PortTypes'
    <2>1. CASE RefreshPorts
      BY <1>1, <2>1 DEF RefreshPorts, MidiInv, PortTypes
    <2>2. ASSUME NEW d \in Directions, NEW i \in DOMAIN listed[d], SelectPort(d, i)
          PROVE  PortTypes'
      <3>1. listed[d] \in Seq(STRING)
        BY LocalMidiConstants DEF MidiInv, PortTypes
      <3>2. i \in Nat
        BY <3>1
      <3>3. listed' = listed /\ (index' = index \/ index' = [index EXCEPT ![d] = i])
        BY <2>2 DEF SelectPort
      <3> QED BY <1>1, <3>2, <3>3 DEF MidiInv, PortTypes, LocalInv, Shape
    <2>3. CASE UNCHANGED <<listed, index>>
      BY <1>1, <2>3 DEF MidiInv, PortTypes
    <2> QED
      BY <2>1, <2>2, <2>3 DEF GuiStep, StartStreaming, OpenInput, OpenOutput, WireCallback,
         StartScheduler, StopStreaming, WindowCloses, ClearGuiLogCallback, JoinWorker,
         ClearCallback, CloseInput, CloseOutput
  <1>5. FlagTypes'
    BY <1>1, Zenon
    DEF MidiInv, FlagTypes, GuiStep, RefreshPorts, SelectPort, StartStreaming, OpenInput,
        OpenOutput, WireCallback, StartScheduler, StopStreaming, WindowCloses,
        ClearGuiLogCallback, JoinWorker, ClearCallback, CloseInput, CloseOutput
  <1>6. LossInv'
    <2> USE <1>1 DEF MidiInv, LossInv
    <2>1. CASE UNCHANGED <<gpc, streaming, callbacks, closing, starts>>
      BY <2>1 DEF CannotForward
    <2>2. CASE StartStreaming \/ OpenInput \/ OpenOutput
      BY <2>2 DEF StartStreaming, OpenInput, OpenOutput, LocalInv, ThreadInv, Opening
    <2>3. CASE WireCallback
      BY <2>3 DEF WireCallback, LocalInv, ThreadInv, Opening
    <2>4. CASE StartScheduler
      BY <2>4 DEF StartScheduler, MissingInv
    <2>5. CASE StopStreaming
      BY <2>5 DEF StopStreaming
    <2>6. CASE WindowCloses \/ ClearGuiLogCallback
      BY <2>6 DEF WindowCloses, ClearGuiLogCallback, LocalInv, ClearingInv
    <2>7. CASE JoinWorker
      BY <2>7 DEF JoinWorker
    <2>8. CASE ClearCallback
      <3>1. callbacks' \subseteq callbacks /\ gpc = "unwire" /\ gpc' \in {"unwire", "closeInput"}
            /\ UNCHANGED <<streaming, closing, starts>>
        BY <2>8 DEF ClearCallback
      <3>2. CannotForward => CannotForward'
        BY <3>1 DEF CannotForward
      <3> QED BY <3>1, <3>2
    <2>9. CASE CloseInput
      BY <2>9 DEF CloseInput, LocalInv, ThreadInv, Opening
    <2>10. CASE CloseOutput
      BY <2>10 DEF CloseOutput
    <2>11. CASE RefreshPorts \/ \E d \in Directions : \E i \in DOMAIN listed[d] : SelectPort(d, i)
      BY <2>1, <2>11 DEF RefreshPorts, SelectPort
    <2> QED BY <2>2, <2>3, <2>4, <2>5, <2>6, <2>7, <2>8, <2>9, <2>10, <2>11 DEF GuiStep
  <1> QED BY <1>2, <1>3, <1>4, <1>5, <1>6

\* The devices matter to nothing but the lists.
LEMMA DevicesKeepMidi ==
    ASSUME MidiInv, DevicesChange \/ UNCHANGED vars
    PROVE  /\ PlanInv' /\ WiredInv' /\ SessionInv' /\ ControlTypes'
           /\ PortTypes' /\ FlagTypes' /\ LogTypes'
           /\ SentInv' /\ MissingInv' /\ LossInv'
  <1>1. /\ UNCHANGED <<listed, index, callbacks, gpc, todo, closing, streaming, workerRunning,
                       plan, tested, log, messages, counted, forwarded, missing, sends, starts>>
        /\ \/ UNCHANGED devices
           \/ \E d \in Directions : \E list \in Lists[d] : devices' = [devices EXCEPT ![d] = list]
    BY DEF DevicesChange, vars, portVars, threadVars, messageVars, boundVars
  <1>2. PlanInv' /\ WiredInv' /\ SessionInv' /\ ControlTypes' /\ FlagTypes'
    BY <1>1 DEF MidiInv, PlanInv, WiredInv, SessionInv, ControlTypes, FlagTypes
  <1>3. SentInv' /\ MissingInv' /\ LossInv' /\ LogTypes'
    BY <1>1 DEF MidiInv, SentInv, SentLogIsExact, MissingInv, LossInv, CannotForward, LogTypes
  <1>4. PortTypes'
    BY <1>1 DEF MidiInv, PortTypes
  <1> QED BY <1>2, <1>3, <1>4

\* Sequences with the same elements are the same.
LEMMA SameElements ==
    ASSUME NEW T, NEW s \in Seq(T), NEW t \in Seq(T), Len(s) = Len(t),
           \A p \in 1 .. Len(s) : s[p] = t[p]
    PROVE  s = t
  OBVIOUS

LEMMA Joined ==
    /\ \A a, b, c : <<a>> \o <<b, c>> = <<a, b, c>>
    /\ \A a, b : <<>> \o <<a, b>> = <<a, b>>
    /\ \A a : <<>> \o <<a>> = <<a>> /\ <<a>> \o <<>> = <<a>>
    /\ <<>> \o <<>> = <<>>
  <1>1. ASSUME NEW a, NEW b, NEW c PROVE <<a>> \o <<b, c>> = <<a, b, c>>
    <2> DEFINE T == {a, b, c}
               s == <<a>> \o <<b, c>>
               t == <<a, b, c>>
    <2>1. s \in Seq(T) /\ Len(s) = 3 /\ s[1] = a /\ s[2] = b /\ s[3] = c
      OBVIOUS
    <2>2. t \in Seq(T) /\ Len(t) = 3 /\ t[1] = a /\ t[2] = b /\ t[3] = c
      OBVIOUS
    <2> HIDE DEF s, t, T
    <2>3. s = t
      BY <2>1, <2>2, SameElements
    <2> QED BY <2>3 DEF s, t
  <1>2. ASSUME NEW a, NEW b PROVE <<>> \o <<a, b>> = <<a, b>>
    OBVIOUS
  <1>3. ASSUME NEW a PROVE <<>> \o <<a>> = <<a>>
    OBVIOUS
  <1>4. ASSUME NEW a PROVE <<a>> \o <<>> = <<a>>
    OBVIOUS
  <1>5. <<>> \o <<>> = <<>>
    OBVIOUS
  <1> QED BY <1>1, <1>2, <1>3, <1>4, <1>5

\* What is left of a message when its first member is skipped, or called.
LEMMA MidiPlanStep ==
    ASSUME NEW p \in MidiPlans, p # <<>>
    PROVE  /\ Tail(p) \in MidiPlans /\ Calls(Head(p)) \o Tail(p) \in MidiPlans
           /\ Head(p) \in {"clock", "input", "received", "receivedLog"}
           /\ Len(p) = 1 => Tail(p) = <<>> /\ Head(p) \in {"received", "receivedLog"}
  <1>1. CASE p = <<"input", "received">>
    <2>1. Head(p) = "input" /\ Tail(p) = <<"received">> /\ Len(p) = 2
      BY <1>1
    <2>2. Calls("input") = <<>>
      BY DEF Calls
    <2>3. Calls(Head(p)) \o Tail(p) = <<"received">>
      BY <2>1, <2>2, Joined, Zenon
    <2>4. Tail(p) \in MidiPlans /\ <<"received">> \in MidiPlans
      BY <2>1, Zenon DEF MidiPlans
    <2>5. Len(p) # 1
      BY <2>1
    <2> QED BY <2>1, <2>3, <2>4, <2>5, Zenon
  <1>2. CASE p = <<"clock", "input", "received">>
    <2>1. Head(p) = "clock" /\ Tail(p) = <<"input", "received">> /\ Len(p) = 3
      BY <1>2
    <2>2. Calls("clock") = <<"receivedLog">>
      BY DEF Calls
    <2>3. Calls(Head(p)) \o Tail(p) = <<"receivedLog", "input", "received">>
      BY <2>1, <2>2, Joined, Zenon
    <2>4. Tail(p) \in MidiPlans /\ <<"receivedLog", "input", "received">> \in MidiPlans
      BY <2>1, Zenon DEF MidiPlans
    <2>5. Len(p) # 1
      BY <2>1
    <2> QED BY <2>1, <2>3, <2>4, <2>5, Zenon
  <1>3. CASE p = <<"receivedLog", "input", "received">>
    <2>1. Head(p) = "receivedLog" /\ Tail(p) = <<"input", "received">> /\ Len(p) = 3
      BY <1>3
    <2>2. Calls("receivedLog") = <<>>
      BY DEF Calls
    <2>3. Calls(Head(p)) \o Tail(p) = <<"input", "received">>
      BY <2>1, <2>2, Joined, Zenon
    <2>4. Tail(p) \in MidiPlans /\ <<"input", "received">> \in MidiPlans
      BY <2>1, Zenon DEF MidiPlans
    <2>5. Len(p) # 1
      BY <2>1
    <2> QED BY <2>1, <2>3, <2>4, <2>5, Zenon
  <1>4. CASE p = <<"received">>
    <2>1. Head(p) = "received" /\ Tail(p) = <<>> /\ Len(p) = 1
      BY <1>4
    <2>2. Calls("received") = <<"receivedLog">>
      BY DEF Calls
    <2>3. Calls(Head(p)) \o Tail(p) = <<"receivedLog">>
      BY <2>1, <2>2, Joined, Zenon
    <2>4. Tail(p) \in MidiPlans /\ <<"receivedLog">> \in MidiPlans
      BY <2>1, Zenon DEF MidiPlans
    <2> QED BY <2>1, <2>3, <2>4
  <1>5. CASE p = <<"receivedLog">>
    <2>1. Head(p) = "receivedLog" /\ Tail(p) = <<>> /\ Len(p) = 1
      BY <1>5
    <2>2. Calls("receivedLog") = <<>>
      BY DEF Calls
    <2>3. Calls(Head(p)) \o Tail(p) = <<>>
      BY <2>1, <2>2, Joined, Zenon
    <2>4. Tail(p) \in MidiPlans /\ <<>> \in MidiPlans
      BY <2>1, Zenon DEF MidiPlans
    <2> QED BY <2>1, <2>3, <2>4
  <1> QED BY <1>1, <1>2, <1>3, <1>4, <1>5 DEF MidiPlans

LEMMA WorkerPlanStep ==
    ASSUME NEW p \in WorkerPlans, p # <<>>
    PROVE  /\ Tail(p) = <<>> /\ Head(p) \in {"sent", "sentLog"}
           /\ Calls("sent") \o Tail(p) = <<"sentLog">> /\ Calls("sentLog") \o Tail(p) = <<>>
  <1>1. Calls("sent") = <<"sentLog">> /\ Calls("sentLog") = <<>>
    BY DEF Calls
  <1>2. Tail(p) = <<>> /\ Head(p) \in {"sent", "sentLog"}
    <2>1. CASE p = <<"sent">>
      BY <2>1
    <2>2. CASE p = <<"sentLog">>
      BY <2>2
    <2> QED BY <2>1, <2>2 DEF WorkerPlans
  <1>3. <<"sentLog">> \o <<>> = <<"sentLog">> /\ <<>> \o <<>> = <<>>
    BY Joined
  <1> QED BY <1>1, <1>2, <1>3, Zenon

\* A line is added at the end, and the first one goes when there are too many.
LEMMA AddLine ==
    ASSUME NEW T, NEW lines \in Seq(T), NEW line \in T, Len(lines) <= MaxLogEntries
    PROVE  /\ AddMidiMessage(lines, line) \in Seq(T)
           /\ Len(AddMidiMessage(lines, line)) <= MaxLogEntries
  <1>1. MaxLogEntries \in Nat
    BY LocalMidiConstants
  <1> DEFINE longer == Append(lines, line)
  <1>2. longer \in Seq(T) /\ Len(longer) = Len(lines) + 1 /\ Len(lines) \in Nat /\ longer # <<>>
    OBVIOUS
  <1> HIDE DEF longer
  <1>3. Tail(longer) \in Seq(T) /\ Len(Tail(longer)) = Len(lines)
    BY <1>2
  <1>4. AddMidiMessage(lines, line) = IF Len(longer) > MaxLogEntries THEN Tail(longer) ELSE longer
    BY DEF AddMidiMessage, longer
  <1> QED BY <1>1, <1>2, <1>3, <1>4

\* The log after so many messages, and after one more.
Gone(done) == IF done > MaxLogEntries THEN done - MaxLogEntries ELSE 0
LastLines(done) == [i \in 1 .. done - Gone(done) |-> Gone(done) + i]

LEMMA AddNumber ==
    ASSUME NEW done \in Nat
    PROVE  AddMidiMessage(LastLines(done), done + 1) = LastLines(done + 1)
  <1> DEFINE first == Gone(done)
             next == Gone(done + 1)
  <1>1. MaxLogEntries \in Nat
    BY LocalMidiConstants
  <1>2. first \in Nat /\ next \in Nat /\ done - first \in Nat /\ (done + 1) - next \in Nat
    BY <1>1 DEF Gone
  <1> DEFINE lines == [i \in 1 .. done - first |-> first + i]
             longer == Append(lines, done + 1)
             result == [i \in 1 .. (done + 1) - next |-> next + i]
  <1>3. lines \in Seq(Nat) /\ Len(lines) = done - first
    BY <1>2
  <1>4. \A i \in 1 .. done - first : lines[i] = first + i
    OBVIOUS
  <1>5. result \in Seq(Nat) /\ Len(result) = (done + 1) - next
    BY <1>2
  <1>6. \A i \in 1 .. (done + 1) - next : result[i] = next + i
    OBVIOUS
  <1>7. LastLines(done) = lines /\ LastLines(done + 1) = result
    BY DEF LastLines
  <1>8. /\ first = IF done > MaxLogEntries THEN done - MaxLogEntries ELSE 0
        /\ next = IF done + 1 > MaxLogEntries THEN (done + 1) - MaxLogEntries ELSE 0
    BY DEF Gone
  <1> HIDE DEF lines, result, first, next
  <1>9. longer \in Seq(Nat) /\ Len(longer) = done - first + 1
    BY <1>3
  <1>10. ASSUME NEW i \in 1 .. done - first + 1 PROVE longer[i] = first + i
    <2>1. CASE i = done - first + 1
      <3>1. longer[Len(lines) + 1] = done + 1
        BY <1>3
      <3>2. Len(lines) + 1 = i /\ first + i = done + 1
        BY <1>2, <1>3, <2>1
      <3> QED BY <3>1, <3>2, Zenon
    <2>2. CASE i # done - first + 1
      <3>1. i \in 1 .. done - first
        BY <1>2, <2>2
      <3> QED BY <1>3, <1>4, <3>1
    <2> QED BY <2>1, <2>2
  <1>11. AddMidiMessage(lines, done + 1)
          = IF Len(longer) > MaxLogEntries THEN Tail(longer) ELSE longer
    BY DEF AddMidiMessage
  <1> HIDE DEF longer
  <1>12. CASE Len(longer) > MaxLogEntries
    <2>1. done - first + 1 > MaxLogEntries /\ done + 1 > MaxLogEntries /\ next = first + 1
      BY <1>1, <1>2, <1>8, <1>9, <1>12
    <2>2. longer # <<>>
      BY <1>2, <1>9
    <2>3. /\ Tail(longer) \in Seq(Nat) /\ Len(Tail(longer)) = done - first
          /\ \A i \in 1 .. done - first : Tail(longer)[i] = longer[i + 1]
      BY <1>2, <1>9, <2>2
    <2>4. \A i \in 1 .. done - first : Tail(longer)[i] = next + i
      <3> SUFFICES ASSUME NEW i \in 1 .. done - first PROVE Tail(longer)[i] = next + i
        OBVIOUS
      <3>1. i + 1 \in 1 .. done - first + 1
        BY <1>2
      <3>2. Tail(longer)[i] = longer[i + 1] /\ longer[i + 1] = first + (i + 1)
        BY <1>10, <2>3, <3>1
      <3>3. first + (i + 1) = next + i
        BY <1>2, <2>1
      <3> QED BY <3>2, <3>3, Zenon
    <2>5. (done + 1) - next = done - first
      BY <1>2, <2>1
    <2>6. Tail(longer) = result
      <3> DEFINE rest == Tail(longer)
      <3>1. rest \in Seq(Nat) /\ result \in Seq(Nat) /\ Len(rest) = Len(result)
        BY <1>5, <2>3, <2>5
      <3>2. \A i \in 1 .. Len(rest) : rest[i] = result[i]
        BY <1>6, <2>3, <2>4, <2>5
      <3> HIDE DEF rest
      <3>3. rest = result
        BY <3>1, <3>2, SameElements
      <3> QED BY <3>3 DEF rest
    <2> QED BY <1>11, <1>12, <1>7, <2>6
  <1>13. CASE ~(Len(longer) > MaxLogEntries)
    <2>1. first = 0 /\ next = 0 /\ done - first + 1 = (done + 1) - next
      BY <1>1, <1>2, <1>8, <1>9, <1>13
    <2>2. longer = result
      BY <1>5, <1>6, <1>9, <1>10, <2>1
    <2> QED BY <1>11, <1>13, <1>7, <2>2
  <1> QED BY <1>12, <1>13

-----------------------------------------------------------------------------
(* The callback threads.                                                   *)

\* What every step of a callback thread leaves alone.
LEMMA ThreadsTouch ==
    ASSUME MidiInv,
           \/ MidiMessage \/ SendMessage
           \/ \E t \in Threads : TestCallback(t) \/ CallCallback(t) \/ EmptyCall(t)
    PROVE  /\ UNCHANGED <<devices, listed, index, callbacks, todo, closing, streaming,
                          workerRunning, starts>>
           /\ gpc' = gpc \/ gpc' = "terminated"
           /\ PortTypes' /\ ControlTypes' /\ WiredInv'
  <1>1. /\ UNCHANGED <<devices, listed, index, callbacks, todo, closing, streaming,
                       workerRunning, starts>>
        /\ gpc' = gpc \/ gpc' = "terminated"
    BY DEF MidiMessage, SendMessage, TestCallback, CallCallback, EmptyCall, ThreadFrame, portVars,
           boundVars
  <1> QED BY <1>1 DEF MidiInv, PortTypes, ControlTypes, WiredInv

\* What is left when the members, the ports and the window have been dealt with.
RestInv ==
    PlanInv /\ SessionInv /\ FlagTypes /\ LogTypes /\ SentInv /\ MissingInv /\ LossInv

\* A new message has not been sent to the server.
LEMMA MessageKeepsRest == ASSUME MidiInv, MidiMessage PROVE RestInv'
  <1> USE DEF MidiInv
  <1>1. /\ UNCHANGED <<callbacks, todo, closing, streaming, workerRunning, starts, gpc, tested, log,
                       missing, sends>>
        /\ plan.midi = <<>> /\ messages' = messages + 1 /\ counted' = streaming
        /\ forwarded' = FALSE
    BY DEF MidiMessage, ThreadFrame, portVars, boundVars
  <1>2. plan'.midi \in MidiPlans /\ plan'.worker = plan.worker
    <2>1. PICK first \in ClockPart : plan' = [plan EXCEPT !.midi = first \o <<"input", "received">>]
      BY DEF MidiMessage
    <2>2. /\ <<>> \o <<"input", "received">> \in MidiPlans
          /\ <<"clock">> \o <<"input", "received">> \in MidiPlans
      BY Joined, Zenon DEF MidiPlans
    <2> QED BY <2>1, <2>2 DEF LocalInv, Shape, Threads, ClockPart
  <1>3. PlanInv' /\ SessionInv'
    BY <1>1, <1>2 DEF PlanInv, SessionInv
  <1>4. FlagTypes'
    BY <1>1, Zenon DEF FlagTypes
  <1>5. LogTypes' /\ SentInv'
    BY <1>1, <1>2 DEF LogTypes, SentInv, SentLogIsExact
  <1>6. MissingInv'
    BY <1>1 DEF MissingInv
  <1>7. LossInv'
    <2>1. ~tested.midi
      BY <1>1 DEF LocalInv, ThreadInv, Threads
    <2>2. CannotForward => CannotForward'
      BY <1>1, <2>1 DEF CannotForward
    <2> QED BY <1>1, <2>2 DEF LossInv
  <1> QED BY <1>3, <1>4, <1>5, <1>6, <1>7 DEF RestInv

\* A message to the device has no line yet.
LEMMA SendKeepsRest == ASSUME MidiInv, SendMessage PROVE RestInv'
  <1> USE DEF MidiInv
  <1>1. /\ UNCHANGED <<callbacks, todo, closing, streaming, workerRunning, starts, gpc, tested, log,
                       messages, counted, forwarded, missing>>
        /\ plan.worker = <<>> /\ workerRunning /\ sends' = sends + 1
        /\ plan' = [plan EXCEPT !.worker = <<"sent">>]
    BY DEF SendMessage, ThreadFrame, portVars, boundVars
  <1>2. plan'.midi = plan.midi /\ plan'.worker = <<"sent">>
    BY <1>1 DEF LocalInv, Shape, Threads
  <1>3. PlanInv' /\ SessionInv' /\ MissingInv' /\ LossInv'
    BY <1>1, <1>2 DEF PlanInv, SessionInv, WorkerPlans, MissingInv, LossInv, CannotForward
  <1>4. FlagTypes' /\ LogTypes'
    BY <1>1 DEF FlagTypes, LogTypes
  <1>5. SentInv'
    <2>1. sends \in Nat /\ (sends + 1) - 1 = sends /\ <<"sent">> # <<>>
      BY DEF SentInv
    <2>2. sends' \in Nat /\ sends' > 0
      BY <1>1, <2>1
    <2>3. ~closing => log["sentLog"] = LastLines(sends)
      BY <1>1 DEF SentInv, SentLogIsExact, LastLines, Gone
    <2>4. sends' - 1 = sends /\ plan'.worker # <<>>
      BY <1>1, <1>2, <2>1
    <2>5. SentLogIsExact'
      BY <1>1, <2>3, <2>4, Zenon DEF SentLogIsExact, LastLines, Gone
    <2> QED BY <2>2, <2>5 DEF SentInv
  <1> QED BY <1>3, <1>4, <1>5 DEF RestInv

\* A message that loses its line: the member that logs it has been cleared, so the one
\* that sends it had been.
LEMMA LineLost ==
    ASSUME MidiInv, TestCallback("midi"), Head(plan.midi) \notin callbacks, Len(plan.midi) = 1,
           counted, forwarded, ~closing
    PROVE  missing < starts /\ gpc \in {"unwire", "closeInput"} /\ "input" \notin callbacks
  <1> USE DEF MidiInv
  <1>1. plan.midi \in MidiPlans /\ plan.midi # <<>> /\ gpc # "terminated" /\ streaming
    BY DEF TestCallback, PlanInv, SessionInv
  <1>2. Head(plan.midi) \in {"received", "receivedLog"}
    BY <1>1, MidiPlanStep
  <1>3. /\ "receivedLog" \in callbacks /\ "received" \notin callbacks
        /\ "received" \in ToSet(WireOrder) /\ "input" \in ToSet(WireOrder)
    BY <1>2, Members DEF WiredInv, Logs, WireOrder
  <1>4. gpc \in {"unwire", "closeInput"}
    BY <1>1, <1>3 DEF ControlTypes, WiredInv, LocalInv, ThreadInv, Opening, ClearingInv, SessionInv
  <1>5. "input" \notin callbacks
    <2>1. CASE gpc = "closeInput"
      BY <1>3, <2>1 DEF WiredInv, StopOrder, WireOrder
    <2>2. CASE gpc = "unwire"
      <3>1. todo \in OrderLeft /\ "received" \notin ToSet(todo)
        BY <1>1, <1>3, <2>2 DEF WiredInv, PlanInv
      <3>2. "input" \notin ToSet(todo)
        BY <3>1, Members DEF OrderLeft
      <3> QED BY <1>3, <2>2, <3>2 DEF WiredInv, StopOrder, WireOrder
    <2> QED BY <1>4, <2>1, <2>2
  <1> QED BY <1>1, <1>4, <1>5 DEF LossInv, CannotForward

\* A member that is skipped: only a Stop, or the window's end, has cleared it.
LEMMA TestKeepsRest == ASSUME MidiInv, NEW t \in Threads, TestCallback(t) PROVE RestInv'
  <1> USE DEF MidiInv
  <1>1. /\ UNCHANGED <<callbacks, todo, closing, streaming, workerRunning, starts, gpc, log,
                       messages, counted, forwarded, sends>>
        /\ plan[t] # <<>> /\ ~tested[t] /\ gpc # "terminated"
    BY DEF TestCallback, ThreadFrame, portVars, boundVars
  <1>2. FlagTypes' /\ LogTypes'
    BY <1>1 DEF FlagTypes, LogTypes
  <1>3. plan.midi \in MidiPlans /\ plan.worker \in WorkerPlans
    BY DEF PlanInv
  <1>4. CASE Head(plan[t]) \in callbacks
    <2>1. /\ UNCHANGED <<plan, missing>> /\ tested' = [tested EXCEPT ![t] = TRUE]
      BY <1>4 DEF TestCallback
    <2>2. PlanInv' /\ SessionInv' /\ SentInv' /\ MissingInv'
      BY <1>1, <2>1 DEF PlanInv, SessionInv, SentInv, SentLogIsExact, MissingInv
    <2>3. CannotForward => CannotForward'
      <3>1. tested'.midi => tested.midi \/ t = "midi"
        BY <2>1 DEF LocalInv, Shape, Threads
      <3> QED BY <1>1, <1>4, <2>1, <3>1 DEF CannotForward
    <2>4. LossInv'
      BY <1>1, <2>1, <2>3 DEF LossInv
    <2> QED BY <1>2, <2>2, <2>4 DEF RestInv
  <1>5. CASE Head(plan[t]) \notin callbacks /\ t = "worker"
    <2>1. UNCHANGED <<missing, tested>> /\ plan' = [plan EXCEPT !.worker = Tail(plan.worker)]
      BY <1>5 DEF TestCallback
    <2>2. Tail(plan.worker) = <<>> /\ Head(plan.worker) \in {"sent", "sentLog"}
      BY <1>1, <1>3, <1>5, WorkerPlanStep
    <2>3. plan'.worker = <<>> /\ plan'.midi = plan.midi
      BY <2>1, <2>2 DEF LocalInv, Shape, Threads
    <2>4. closing
      <3>1. streaming /\ (gpc = "idle" \/ gpc \in {"clearLogs", "join", "terminated"})
        BY <1>1, <1>5 DEF LocalInv, ThreadInv, SessionInv
      <3>2. {"sent", "sentLog"} \subseteq ToSet(Logs) \cup ToSet(WireOrder)
        BY Members DEF Logs, WireOrder
      <3> QED BY <1>1, <1>5, <2>2, <3>1, <3>2 DEF WiredInv
    <2>5. PlanInv' /\ SessionInv' /\ MissingInv' /\ LossInv'
      BY <1>1, <2>1, <2>3, <2>4 DEF PlanInv, WorkerPlans, SessionInv, MissingInv, LossInv
    <2>6. SentInv'
      BY <1>1, <2>3, <2>4 DEF SentInv, SentLogIsExact
    <2> QED BY <1>2, <2>5, <2>6 DEF RestInv
  <1>6. CASE Head(plan[t]) \notin callbacks /\ t = "midi"
    <2>1. /\ UNCHANGED tested /\ plan' = [plan EXCEPT !.midi = Tail(plan.midi)]
          /\ missing' = IF Len(plan.midi) = 1 /\ counted /\ forwarded THEN missing + 1 ELSE missing
      BY <1>6 DEF TestCallback
    <2>2. /\ Tail(plan.midi) \in MidiPlans
          /\ Len(plan.midi) = 1 => Tail(plan.midi) = <<>>
      BY <1>1, <1>3, <1>6, MidiPlanStep
    <2>3. plan'.midi = Tail(plan.midi) /\ plan'.worker = plan.worker
      BY <2>1 DEF LocalInv, Shape, Threads
    <2>4. PlanInv' /\ SessionInv'
      BY <1>1, <1>6, <2>2, <2>3 DEF PlanInv, SessionInv
    <2>5. SentInv'
      BY <1>1, <2>3 DEF SentInv, SentLogIsExact
    <2>6. MissingInv'
      BY <1>1, <1>6, <2>1, <2>2, <2>3 DEF MissingInv
    <2>7. LossInv'
      <3>1. CASE Len(plan.midi) = 1 /\ counted /\ forwarded /\ ~closing
        <4>1. missing < starts /\ gpc \in {"unwire", "closeInput"} /\ "input" \notin callbacks
          BY <1>6, <3>1, LineLost
        <4>2. missing' = missing + 1
          BY <2>1, <3>1
        <4>3. CannotForward'
          BY <1>1, <2>2, <2>3, <3>1, <4>1 DEF CannotForward
        <4> QED BY <1>1, <4>1, <4>2, <4>3 DEF LossInv, MissingInv
      <3>2. CASE ~(Len(plan.midi) = 1 /\ counted /\ forwarded) /\ ~closing
        <4>1. missing' = missing
          BY <2>1, <3>2
        <4>2. CannotForward => CannotForward'
          BY <1>1, <1>6, <2>1, <2>3 DEF CannotForward
        <4> QED BY <1>1, <4>1, <4>2 DEF LossInv
      <3>3. CASE closing
        BY <1>1, <3>3 DEF LossInv
      <3> QED BY <3>1, <3>2, <3>3
    <2> QED BY <1>2, <2>4, <2>5, <2>6, <2>7 DEF RestInv
  <1> QED BY <1>4, <1>5, <1>6 DEF Threads

\* A member that is called: the worker's last one adds the line that is missing.
LEMMA CallKeepsRest == ASSUME MidiInv, NEW t \in Threads, CallCallback(t) PROVE RestInv'
  <1> USE DEF MidiInv
  <1> DEFINE f == Head(plan[t])
  <1>1. /\ UNCHANGED <<callbacks, todo, closing, streaming, workerRunning, starts, gpc, messages,
                       counted, missing, sends>>
        /\ tested[t] /\ gpc # "terminated"
        /\ tested' = [tested EXCEPT ![t] = FALSE]
        /\ plan' = [plan EXCEPT ![t] = Calls(f) \o Tail(plan[t])]
        /\ f # "input" => UNCHANGED forwarded
    BY DEF CallCallback, ThreadFrame, portVars, boundVars
  <1>2. plan.midi \in MidiPlans /\ plan.worker \in WorkerPlans /\ plan[t] # <<>>
    BY <1>1 DEF PlanInv, LocalInv, ThreadInv
  <1>3. FlagTypes'
    <2>1. forwarded' \in BOOLEAN
      BY Zenon DEF CallCallback, FlagTypes
    <2> QED BY <1>1, <2>1, Zenon DEF FlagTypes
  <1>4. CASE t = "midi"
    <2>1. /\ f \in {"clock", "input", "received", "receivedLog"}
          /\ Calls(f) \o Tail(plan.midi) \in MidiPlans
      BY <1>2, <1>4, MidiPlanStep
    <2>2. plan'.midi = Calls(f) \o Tail(plan.midi) /\ plan'.worker = plan.worker /\ ~tested'.midi
      BY <1>1, <1>4 DEF LocalInv, Shape, Threads
    <2>3. \/ log' = log
          \/ f = "receivedLog"
               /\ log' = [log EXCEPT !["receivedLog"] = AddMidiMessage(log["receivedLog"], "line")]
      BY <2>1 DEF CallCallback
    <2>4. {"sentLog", "receivedLog"} = ToSet(Logs)
      BY Members DEF Logs
    <2>5. LogTypes'
      <3>1. CASE log' = log
        BY <3>1 DEF LogTypes
      <3>2. CASE log' = [log EXCEPT !["receivedLog"] = AddMidiMessage(log["receivedLog"], "line")]
        <4>1. /\ log["receivedLog"] \in Seq(Nat \cup {"line"})
              /\ Len(log["receivedLog"]) <= MaxLogEntries
              /\ "line" \in Nat \cup {"line"}
          BY <2>4 DEF LogTypes
        <4> DEFINE new == AddMidiMessage(log["receivedLog"], "line")
        <4>2. new \in Seq(Nat \cup {"line"}) /\ Len(new) <= MaxLogEntries
          BY <4>1, AddLine
        <4> HIDE DEF new
        <4>3. log' = [log EXCEPT !["receivedLog"] = new]
          BY <3>2 DEF new
        <4> QED BY <2>4, <4>2, <4>3 DEF LogTypes
      <3> QED BY <2>3, <3>1, <3>2
    <2>6. log'["sentLog"] = log["sentLog"]
      BY <2>3, <2>4 DEF LogTypes
    <2>7. PlanInv' /\ SessionInv' /\ MissingInv'
      BY <1>1, <1>2, <1>4, <2>1, <2>2 DEF PlanInv, SessionInv, MissingInv
    <2>8. SentInv'
      BY <1>1, <2>2, <2>6 DEF SentInv, SentLogIsExact
    <2>9. LossInv'
      <3>1. CannotForward => CannotForward'
        BY <1>1, <1>2, <1>4, <2>2 DEF CannotForward
      <3> QED BY <1>1, <3>1 DEF LossInv
    <2> QED BY <1>3, <2>5, <2>7, <2>8, <2>9 DEF RestInv
  <1>5. CASE t = "worker"
    <2>1. /\ f \in {"sent", "sentLog"} /\ Tail(plan.worker) = <<>>
          /\ f = "sent" => Calls(f) \o Tail(plan.worker) = <<"sentLog">>
          /\ f = "sentLog" => Calls(f) \o Tail(plan.worker) = <<>>
      BY <1>2, <1>5, WorkerPlanStep
    <2>2. /\ plan'.worker = Calls(f) \o Tail(plan.worker) /\ plan'.midi = plan.midi
          /\ (tested'.midi <=> tested.midi)
      BY <1>1, <1>5 DEF LocalInv, Shape, Threads
    <2>3. UNCHANGED forwarded /\ sends \in Nat /\ sends > 0
      BY <1>1, <1>2, <1>5, <2>1 DEF SentInv
    <2>4. MissingInv' /\ LossInv'
      BY <1>1, <2>2, <2>3 DEF MissingInv, LossInv, CannotForward
    <2>5. CASE f = "sent"
      <3>1. log' = log /\ plan'.worker = <<"sentLog">> /\ <<"sentLog">> # <<>>
        BY <2>1, <2>2, <2>5 DEF CallCallback
      <3>2. PlanInv' /\ SessionInv'
        BY <1>1, <1>2, <1>5, <2>2, <3>1 DEF PlanInv, WorkerPlans, SessionInv
      <3>3. LogTypes' /\ SentInv'
        BY <1>1, <1>2, <1>5, <3>1 DEF LogTypes, SentInv, SentLogIsExact
      <3> QED BY <1>3, <2>4, <3>2, <3>3 DEF RestInv
    <2>6. CASE f = "sentLog"
      <3>1. plan'.worker = <<>>
        BY <2>1, <2>2, <2>6
      <3>2. log' = [log EXCEPT !["sentLog"] = AddMidiMessage(log["sentLog"], sends)]
        BY <2>6 DEF CallCallback
      <3>3. {"sentLog", "receivedLog"} = ToSet(Logs)
        BY Members DEF Logs
      <3> DEFINE new == AddMidiMessage(log["sentLog"], sends)
      <3>4. new \in Seq(Nat \cup {"line"}) /\ Len(new) <= MaxLogEntries
        <4>1. /\ log["sentLog"] \in Seq(Nat \cup {"line"}) /\ Len(log["sentLog"]) <= MaxLogEntries
              /\ sends \in Nat \cup {"line"}
          BY <2>3, <3>3 DEF LogTypes
        <4> QED BY <4>1, AddLine
      <3>5. ~closing => new = LastLines(sends)
        <4>1. ~closing => log["sentLog"] = LastLines(sends - 1)
          BY <1>2, <1>5 DEF SentInv, SentLogIsExact, LastLines, Gone
        <4>2. sends - 1 \in Nat /\ (sends - 1) + 1 = sends
          BY <2>3
        <4>3. AddMidiMessage(LastLines(sends - 1), sends) = LastLines(sends)
          BY <4>2, AddNumber
        <4> QED BY <4>1, <4>3
      <3> HIDE DEF new
      <3>6. log' = [log EXCEPT !["sentLog"] = new]
        BY <3>2 DEF new
      <3>7. LogTypes' /\ log'["sentLog"] = new
        BY <3>3, <3>4, <3>6 DEF LogTypes
      <3>8. SentLogIsExact'
        BY <1>1, <3>1, <3>5, <3>7, Zenon DEF SentLogIsExact, LastLines, Gone
      <3>9. SentInv'
        BY <1>1, <2>3, <3>1, <3>8 DEF SentInv
      <3>10. PlanInv' /\ SessionInv'
        BY <1>1, <1>2, <2>2, <3>1 DEF PlanInv, WorkerPlans, SessionInv
      <3> QED BY <1>3, <2>4, <3>7, <3>9, <3>10 DEF RestInv
    <2> QED BY <2>1, <2>5, <2>6
  <1> QED BY <1>4, <1>5 DEF Threads

\* A member that is gone when it is called.
LEMMA EmptyKeepsRest == ASSUME MidiInv, NEW t \in Threads, EmptyCall(t) PROVE RestInv'
  <1> USE DEF MidiInv
  <1>1. /\ UNCHANGED <<callbacks, todo, closing, streaming, workerRunning, starts, log, messages,
                       counted, forwarded, missing, sends>>
        /\ tested[t] /\ Head(plan[t]) \notin callbacks /\ gpc # "terminated"
        /\ tested' = [tested EXCEPT ![t] = FALSE]
        /\ plan' = [plan EXCEPT ![t] = <<>>]
        /\ gpc' = IF t = "midi" THEN "terminated" ELSE gpc
    BY DEF EmptyCall, ThreadFrame, portVars, boundVars, messageVars
  <1>2. FlagTypes' /\ LogTypes'
    BY <1>1 DEF FlagTypes, LogTypes
  <1>3. CASE t = "midi"
    <2>1. plan'.midi = <<>> /\ plan'.worker = plan.worker /\ gpc' = "terminated"
      BY <1>1, <1>3 DEF LocalInv, Shape, Threads
    <2>2. PlanInv' /\ SessionInv' /\ MissingInv' /\ LossInv'
      BY <1>1, <2>1 DEF PlanInv, MidiPlans, SessionInv, MissingInv, LossInv
    <2>3. SentInv'
      BY <1>1, <2>1 DEF SentInv, SentLogIsExact
    <2> QED BY <1>2, <2>2, <2>3 DEF RestInv
  <1>4. CASE t = "worker"
    <2>1. plan'.worker = <<>> /\ plan'.midi = plan.midi /\ gpc' = gpc
      BY <1>1, <1>4 DEF LocalInv, Shape, Threads
    <2>2. closing
      BY <1>1, <1>4 DEF LocalInv, ClearingInv, EmptyCallsOnlyWhileClearing
    <2>3. PlanInv' /\ SessionInv' /\ MissingInv' /\ LossInv'
      BY <1>1, <2>1, <2>2 DEF PlanInv, WorkerPlans, SessionInv, MissingInv, LossInv
    <2>4. SentInv'
      BY <1>1, <2>1, <2>2 DEF SentInv, SentLogIsExact
    <2> QED BY <1>2, <2>3, <2>4 DEF RestInv
  <1> QED BY <1>3, <1>4 DEF Threads

\* All of it together is inductive.
LEMMA MidiInvHolds == Spec => []MidiInv
  <1>1. MidiInv /\ [Next]_vars => MidiInv'
    <2> SUFFICES ASSUME MidiInv, [Next]_vars PROVE MidiInv'
      OBVIOUS
    <2>1. LocalInv'
      BY NextKeepsLocal DEF MidiInv
    <2>2. CASE DevicesChange \/ UNCHANGED vars
      BY <2>1, <2>2, DevicesKeepMidi DEF MidiInv
    <2>3. CASE GuiStep
      BY <2>1, <2>3, GuiKeepsMembers, GuiKeepsCounts DEF MidiInv
    <2>4. CASE MidiMessage \/ SendMessage
                 \/ \E t \in Threads : TestCallback(t) \/ CallCallback(t) \/ EmptyCall(t)
      <3>1. RestInv'
        BY <2>4, MessageKeepsRest, SendKeepsRest, TestKeepsRest, CallKeepsRest, EmptyKeepsRest
      <3>2. PortTypes' /\ ControlTypes' /\ WiredInv'
        BY <2>4, ThreadsTouch
      <3> QED BY <2>1, <3>1, <3>2 DEF RestInv, MidiInv
    <2> QED BY <2>2, <2>3, <2>4 DEF Next
  <1> QED BY <1>1, InitMidi, PTL DEF Spec

\* Every variable keeps its type: the logs never outgrow their limit, and no thread is
\* between a test and a call it has not got (GuiApp.cpp:140-152).
THEOREM LocalTypes == Spec => []TypeOK
<1> QED BY MidiInvHolds, MidiInvTypes, PTL

\* Until the window closes, the log of the output is the last lines of what was sent, for
\* any limit and however often Stop comes (midiOutputHandler.cpp:87-91, GuiApp.cpp:140-152).
THEOREM SentLog == Spec => []SentLogIsExact
<1>1. MidiInv => SentLogIsExact
  BY DEF MidiInv, SentInv
<1> QED BY <1>1, MidiInvHolds, PTL

\* A Stop costs the other log one line of what went to the server, and never two,
\* however many messages come in while the members are cleared
\* (AppController.cpp:343-347, midiInputHandler.cpp:24-37).
THEOREM OneLinePerStop == Spec => []ForwardedIsLogged
<1>1. MidiInv => ForwardedIsLogged
  <2> SUFFICES ASSUME MidiInv PROVE ForwardedIsLogged
    OBVIOUS
  <2>1. missing \in Nat /\ starts \in Nat
    BY DEF MidiInv, MissingInv, LossInv
  <2> QED BY <2>1 DEF MidiInv, LossInv, ForwardedIsLogged
<1> QED BY <1>1, MidiInvHolds, PTL
=============================================================================
