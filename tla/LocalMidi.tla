------------------------------ MODULE LocalMidi ------------------------------
(***************************************************************************)
(* The local side of the client: the port lists of the window (GuiApp.cpp), *)
(* the ports that AppController opens, and the callbacks that carry a      *)
(* message from MidiInputHandler to the server and to the window's log, and *)
(* from MidiOutputHandler to its other log.                                *)
(*                                                                         *)
(*   GUI thread   the buttons and lists, and main() after the window;      *)
(*   midi         the callback thread of libremidi;                        *)
(*   worker       the thread of ReceiveScheduler, which sends to a device. *)
(*                                                                         *)
(* A callback is a std::function member that the GUI thread assigns without *)
(* a lock, and that the two other threads test and then call.  The server  *)
(* is connected or not, as it likes, and ReceiveScheduler.tla says what the *)
(* worker sends when.                                                      *)
(***************************************************************************)
EXTENDS Integers, Sequences, SequencesExt

CONSTANTS
    Lists,          \* the device lists there may be, a set for each direction
    MaxLogEntries,  \* maxMidiLogEntries_
    MaxChanges,     \* bound on changes of the devices
    MaxMessages,    \* bound on messages of the MIDI input
    MaxSends,       \* bound on messages to the MIDI output
    MaxStarts       \* bound on successful Starts

Directions == {"input", "output"}
Threads    == {"midi", "worker"}
NoPort     == "none"

ASSUME LocalMidiConstants ==
    /\ \A d \in Directions :
         /\ Lists[d] # {}
         /\ \A list \in Lists[d] : list \in Seq(STRING) /\ IsInjective(list)
    /\ {MaxLogEntries, MaxChanges, MaxMessages, MaxSends, MaxStarts} \subseteq Nat

VARIABLES
    \* what the observer sees, the window's copy, the index it has selected in it
    \* (0 is none), the port selected, and the one open
    devices, listed, index, selected, opened,
    \* the std::function members that are set
    callbacks,
    \* GUI thread: where it is, the members it has still to assign, and whether the
    \* window is closed; streaming_ and running_ of the scheduler
    gpc, todo, closing, streaming, workerRunning,
    \* the other threads: the members they have still to test and call, and whether
    \* the first one has been tested
    plan, tested,
    \* the window's logs
    log,
    \* history: messages so far, whether the one at hand began while streaming and
    \* whether it was sent to the server; the ones sent without a line in the log; the
    \* ways in which the window may be out of date
    messages, counted, forwarded, missing, sends, starts, changes, stale

portVars    == <<devices, listed, index, selected>>
threadVars  == <<plan, tested>>
messageVars == <<messages, counted, forwarded, missing, sends>>
boundVars   == <<starts, changes>>
vars == <<portVars, opened, callbacks, gpc, todo, closing, streaming, workerRunning,
          threadVars, log, messageVars, boundVars, stale>>

\* What no step of a thread changes.
GuiFrame     == UNCHANGED <<threadVars, log, messageVars, changes, devices>>
PortFrame    == UNCHANGED <<listed, index, selected, stale>>
ControlFrame == UNCHANGED <<callbacks, todo, closing>>
ThreadFrame  == UNCHANGED <<portVars, opened, callbacks, todo, closing, streaming,
                            workerRunning, boundVars, stale>>

Logs == <<"sentLog", "receivedLog">>

\* Faulty variant: the log's callback goes first.
StopOrderLogFirst == <<"received", "input", "clock", "sent">>

\* The order of wireCallbacks(), and that of stopStreaming().
WireOrder == <<"input", "clock", "received", "sent">>
StopOrder == <<"input", "clock", "received", "sent">>

-----------------------------------------------------------------------------
\* After GuiApp::initialize().
Init ==
    /\ devices \in [Directions -> UNION {Lists[d] : d \in Directions}]
    /\ \A d \in Directions : devices[d] \in Lists[d]
    /\ listed = devices /\ index = [d \in Directions |-> 0]
    /\ selected = [d \in Directions |-> NoPort] /\ opened = selected
    /\ callbacks = ToSet(Logs)
    /\ gpc = "idle" /\ todo = <<>> /\ closing = FALSE
    /\ streaming = FALSE /\ workerRunning = FALSE
    /\ plan = [t \in Threads |-> <<>>] /\ tested = [t \in Threads |-> FALSE]
    /\ log = [l \in ToSet(Logs) |-> <<>>]
    /\ messages = 0 /\ counted = FALSE /\ forwarded = FALSE /\ missing = 0 /\ sends = 0
    /\ starts = 0 /\ changes = 0 /\ stale = {}

-----------------------------------------------------------------------------
(* The port lists.                                                          *)

\* The observer tracks the devices that come and go; nobody tells the window.  The
\* lists are read between two handlers, so a change during one comes after it here.
DevicesChange ==
    /\ changes < MaxChanges /\ gpc = "idle"
    /\ \E d \in Directions : \E list \in Lists[d] \ {devices[d]} :
         devices' = [devices EXCEPT ![d] = list]
    /\ changes' = changes + 1
    /\ UNCHANGED <<listed, index, selected, opened, callbacks, gpc, todo, closing, streaming,
                   workerRunning, threadVars, log, messageVars, starts, stale>>

\* Refresh Ports copies the lists and leaves the indices.
RefreshPorts ==
    /\ gpc = "idle"
    /\ listed' = devices
    /\ stale' = stale \cup {<<d, "list">> : d \in {e \in Directions :
                                index[e] # 0 /\ devices[e] # listed[e]}}
    /\ GuiFrame /\ ControlFrame
    /\ UNCHANGED <<index, selected, opened, gpc, streaming, workerRunning, starts>>

\* History: the ways in which the window may now say something else than what is used.
NoteSelection(d) ==
    stale' = (stale \ {<<d, "list">>})
                \cup (IF listed[d] # devices[d] THEN {<<d, "list">>} ELSE {})
                \cup (IF streaming THEN {<<d, "choice">>} ELSE {})

\* Faulty variant: the window does not look whether the selection failed.
SelectPortAnyway(d, i) ==
    /\ gpc = "idle" /\ i <= Len(listed[d])
    /\ index' = [index EXCEPT ![d] = i]
    /\ IF i <= Len(devices[d])
       THEN selected' = [selected EXCEPT ![d] = devices[d][i]] /\ NoteSelection(d)
       ELSE UNCHANGED <<selected, stale>>
    /\ GuiFrame /\ ControlFrame
    /\ UNCHANGED <<listed, opened, gpc, streaming, workerRunning, starts>>

\* The index the user chose in the window's list is used in the list of now.
SelectPort(d, i) ==
    /\ gpc = "idle" /\ i <= Len(listed[d])
    /\ IF i <= Len(devices[d])
       THEN /\ selected' = [selected EXCEPT ![d] = devices[d][i]]
            /\ index' = [index EXCEPT ![d] = i]
            /\ NoteSelection(d)
       ELSE UNCHANGED <<selected, index, stale>>
    /\ GuiFrame /\ ControlFrame
    /\ UNCHANGED <<listed, opened, gpc, streaming, workerRunning, starts>>

-----------------------------------------------------------------------------
(* The Start button.  A port may fail to open.                              *)

StartStreaming ==
    /\ gpc = "idle" /\ ~streaming /\ starts < MaxStarts
    /\ \A d \in Directions : selected[d] # NoPort
    /\ gpc' = "openInput"
    /\ GuiFrame /\ PortFrame /\ ControlFrame
    /\ UNCHANGED <<opened, streaming, workerRunning, starts>>

OpenInput ==
    /\ gpc = "openInput"
    /\ \/ opened' = [opened EXCEPT !.input = selected.input] /\ gpc' = "openOutput"
       \/ gpc' = "idle" /\ UNCHANGED opened
    /\ GuiFrame /\ PortFrame /\ ControlFrame
    /\ UNCHANGED <<streaming, workerRunning, starts>>

OpenOutput ==
    /\ gpc = "openOutput"
    /\ \/ /\ opened' = [opened EXCEPT !.output = selected.output]
          /\ gpc' = "wire" /\ todo' = WireOrder
       \/ gpc' = "closeAgain" /\ UNCHANGED <<opened, todo>>
    /\ GuiFrame /\ PortFrame
    /\ UNCHANGED <<callbacks, closing, streaming, workerRunning, starts>>

WireCallback ==
    /\ gpc = "wire"
    /\ callbacks' = callbacks \cup {Head(todo)} /\ todo' = Tail(todo)
    /\ gpc' = IF todo' = <<>> THEN "startScheduler" ELSE "wire"
    /\ GuiFrame /\ PortFrame
    /\ UNCHANGED <<opened, closing, streaming, workerRunning, starts>>

StartScheduler ==
    /\ gpc = "startScheduler"
    /\ workerRunning' = TRUE /\ streaming' = TRUE /\ starts' = starts + 1
    /\ stale' = {s \in stale : s[2] = "list"}
    /\ gpc' = "idle"
    /\ GuiFrame /\ ControlFrame
    /\ UNCHANGED <<listed, index, selected, opened>>

-----------------------------------------------------------------------------
(* The Stop button, and the end of main().                                  *)

\* stopStreaming() tells the worker to end.
StopStreaming ==
    /\ gpc = "idle"
    /\ workerRunning' = FALSE /\ gpc' = "join"
    /\ GuiFrame /\ PortFrame /\ ControlFrame
    /\ UNCHANGED <<opened, streaming, starts>>

\* main() clears the two callbacks of the logs before it calls shutdown().
WindowCloses ==
    /\ gpc = "idle"
    /\ closing' = TRUE /\ gpc' = "clearLogs" /\ todo' = Logs
    /\ GuiFrame /\ PortFrame
    /\ UNCHANGED <<opened, callbacks, streaming, workerRunning, starts>>

ClearGuiLogCallback ==
    /\ gpc = "clearLogs"
    /\ callbacks' = callbacks \ {Head(todo)} /\ todo' = Tail(todo)
    /\ IF todo' = <<>> THEN gpc' = "join" /\ workerRunning' = FALSE
                       ELSE UNCHANGED <<gpc, workerRunning>>
    /\ GuiFrame /\ PortFrame
    /\ UNCHANGED <<opened, closing, streaming, starts>>

\* Faulty variant: the worker is not joined.
StopWithoutJoin ==
    /\ gpc = "join"
    /\ gpc' = "unwire" /\ todo' = StopOrder
    /\ GuiFrame /\ PortFrame
    /\ UNCHANGED <<opened, callbacks, closing, streaming, workerRunning, starts>>

JoinWorker ==
    /\ gpc = "join" /\ plan.worker = <<>>
    /\ gpc' = "unwire" /\ todo' = StopOrder
    /\ GuiFrame /\ PortFrame
    /\ UNCHANGED <<opened, callbacks, closing, streaming, workerRunning, starts>>

ClearCallback ==
    /\ gpc = "unwire"
    /\ callbacks' = callbacks \ {Head(todo)} /\ todo' = Tail(todo)
    /\ gpc' = IF todo' = <<>> THEN "closeInput" ELSE "unwire"
    /\ GuiFrame /\ PortFrame
    /\ UNCHANGED <<opened, closing, streaming, workerRunning, starts>>

\* Faulty variant: the input port is closed under a running callback.
CloseInputAtOnce ==
    /\ gpc \in {"closeInput", "closeAgain"}
    /\ opened' = [opened EXCEPT !.input = NoPort]
    /\ gpc' = IF gpc = "closeAgain" THEN "idle" ELSE "closeOutput"
    /\ GuiFrame /\ PortFrame /\ ControlFrame
    /\ UNCHANGED <<streaming, workerRunning, starts>>

\* libremidi closes a port when its callback has returned, for stopStreaming() or
\* for a Start whose output did not open.
CloseInput ==
    /\ gpc \in {"closeInput", "closeAgain"} /\ plan.midi = <<>>
    /\ opened' = [opened EXCEPT !.input = NoPort]
    /\ gpc' = IF gpc = "closeAgain" THEN "idle" ELSE "closeOutput"
    /\ GuiFrame /\ PortFrame /\ ControlFrame
    /\ UNCHANGED <<streaming, workerRunning, starts>>

CloseOutput ==
    /\ gpc = "closeOutput"
    /\ opened' = [opened EXCEPT !.output = NoPort] /\ streaming' = FALSE
    /\ gpc' = IF closing THEN "exit" ELSE "idle"
    /\ GuiFrame /\ PortFrame /\ ControlFrame
    /\ UNCHANGED <<workerRunning, starts>>

GuiStep ==
    \/ RefreshPorts
    \/ \E d \in Directions : \E i \in DOMAIN listed[d] : SelectPort(d, i)
    \/ StartStreaming
    \/ OpenInput
    \/ OpenOutput
    \/ WireCallback
    \/ StartScheduler
    \/ StopStreaming
    \/ WindowCloses
    \/ ClearGuiLogCallback
    \/ JoinWorker
    \/ ClearCallback
    \/ CloseInput
    \/ CloseOutput

-----------------------------------------------------------------------------
(* The callbacks.                                                           *)

\* isClockRelatedMessage(): a message is about the clock or not.
ClockPart == {<<>>, <<"clock">>}

\* A message of the device; one that is about the clock goes to the clock as well.
MidiMessage ==
    /\ gpc \notin {"exit", "terminated"} /\ messages < MaxMessages
    /\ opened.input # NoPort /\ plan.midi = <<>>
    /\ \E first \in ClockPart :
         plan' = [plan EXCEPT !.midi = first \o <<"input", "received">>]
    /\ messages' = messages + 1 /\ counted' = streaming /\ forwarded' = FALSE
    /\ ThreadFrame /\ UNCHANGED <<gpc, tested, log, missing, sends>>

\* sendMessage() of a message that the scheduler releases.
SendMessage ==
    /\ gpc \notin {"exit", "terminated"} /\ sends < MaxSends
    /\ workerRunning /\ plan.worker = <<>> /\ opened.output # NoPort
    /\ plan' = [plan EXCEPT !.worker = <<"sent">>]
    /\ sends' = sends + 1
    /\ ThreadFrame /\ UNCHANGED <<gpc, tested, log, messages, counted, forwarded, missing>>

\* A member that is not set is skipped.  The last one of the MIDI thread is the one
\* that brings the message to the log.
TestCallback(t) ==
    /\ gpc # "terminated" /\ plan[t] # <<>> /\ ~tested[t]
    /\ IF Head(plan[t]) \in callbacks
       THEN tested' = [tested EXCEPT ![t] = TRUE] /\ UNCHANGED <<plan, missing>>
       ELSE /\ plan' = [plan EXCEPT ![t] = Tail(@)]
            /\ missing' = IF t = "midi" /\ Len(plan[t]) = 1 /\ counted /\ forwarded
                          THEN missing + 1 ELSE missing
            /\ UNCHANGED tested
    /\ ThreadFrame /\ UNCHANGED <<gpc, log, messages, counted, forwarded, sends>>

\* The lambdas of wireCallbacks() test and call one of the two that main() has set.
Calls(f) ==
    CASE f \in {"clock", "received"} -> <<"receivedLog">>
      [] f = "sent"                  -> <<"sentLog">>
      [] OTHER                       -> <<>>

\* Faulty variant: the size is compared before the line is added.
AddOneMoreLine(lines, line) ==
    IF Len(lines) > MaxLogEntries THEN Append(Tail(lines), line) ELSE Append(lines, line)

\* Faulty variant: the last line is erased.
AddAndEraseLast(lines, line) ==
    IF Len(lines) < MaxLogEntries THEN Append(lines, line) ELSE lines

AddMidiMessage(lines, line) ==
    LET longer == Append(lines, line)
    IN  IF Len(longer) > MaxLogEntries THEN Tail(longer) ELSE longer

CallCallback(t) ==
    LET f == Head(plan[t]) IN
    /\ gpc # "terminated" /\ tested[t]
    /\ tested' = [tested EXCEPT ![t] = FALSE]
    /\ plan' = [plan EXCEPT ![t] = Calls(f) \o Tail(@)]
    /\ log' = CASE f = "sentLog"     -> [log EXCEPT ![f] = AddMidiMessage(@, sends)]
                [] f = "receivedLog" -> [log EXCEPT ![f] = AddMidiMessage(@, "line")]
                [] OTHER             -> log
    /\ IF f = "input" THEN forwarded' \in BOOLEAN ELSE UNCHANGED forwarded
    /\ ThreadFrame /\ UNCHANGED <<gpc, messages, counted, missing, sends>>

\* A member that has been cleared since the test may still be called, or it throws:
\* sendMessage() catches that, nothing does on the MIDI thread.
EmptyCall(t) ==
    /\ gpc # "terminated" /\ tested[t] /\ Head(plan[t]) \notin callbacks
    /\ tested' = [tested EXCEPT ![t] = FALSE]
    /\ plan' = [plan EXCEPT ![t] = <<>>]
    /\ gpc' = IF t = "midi" THEN "terminated" ELSE gpc
    /\ ThreadFrame /\ UNCHANGED <<log, messageVars>>

-----------------------------------------------------------------------------
Next ==
    \/ DevicesChange
    \/ GuiStep
    \/ MidiMessage
    \/ SendMessage
    \/ \E t \in Threads : TestCallback(t) \/ CallCallback(t) \/ EmptyCall(t)

Spec == Init /\ [][Next]_vars

-----------------------------------------------------------------------------
(* Properties.                                                              *)

\* Every variable has its type, and no log outgrows its limit (GuiApp.cpp:140-152).
TypeOK ==
    /\ \A d \in Directions : devices[d] \in Lists[d] /\ listed[d] \in Lists[d]
    /\ \A d \in Directions : index[d] \in Nat
    /\ callbacks \subseteq ToSet(Logs) \cup ToSet(WireOrder)
    /\ gpc \in {"idle", "openInput", "openOutput", "closeAgain", "wire", "startScheduler",
                "clearLogs", "join", "unwire", "closeInput", "closeOutput", "exit",
                "terminated"}
    /\ {closing, streaming, workerRunning, counted, forwarded} \subseteq BOOLEAN
    /\ \A t \in Threads : tested[t] => plan[t] # <<>>
    /\ \A l \in ToSet(Logs) : Len(log[l]) <= MaxLogEntries
    /\ missing \in 0 .. messages

\* Between two handlers of a client that does not stream, no other thread is in a
\* callback: only while it streams are the logs changed under the window that draws
\* them (GuiApp.cpp:140-152, 262-274), and the members assigned at the next Start are
\* not in use.
QuietWhenStopped ==
    gpc = "idle" /\ ~streaming => \A t \in Threads : plan[t] = <<>>

\* A member that a thread has tested is there when it calls it, but for the ones that
\* stopStreaming() clears before it closes the input, and the ones of the logs that
\* main() clears while both threads run (midiInputHandler.cpp:26-36,
\* midiOutputHandler.cpp:89-91, AppController.cpp:343-351, main.cpp:27).
EmptyCallsOnlyWhileClearing ==
    \A t \in Threads :
        tested[t] /\ Head(plan[t]) \notin callbacks =>
            closing \/ (t = "midi" /\ gpc \in {"unwire", "closeInput"})

\* Until the window closes, the log of the output has a line for every message that
\* went to the device, the last MaxLogEntries of them, whenever Stop comes; the one
\* in sendMessage() may have no line yet (midiOutputHandler.cpp:87-91).
SentLogIsExact ==
    ~closing =>
        LET done  == IF plan.worker = <<>> THEN sends ELSE sends - 1
            first == IF done > MaxLogEntries THEN done - MaxLogEntries ELSE 0
        IN  log["sentLog"] = [i \in 1 .. done - first |-> first + i]

\* A message that came in while streaming and was sent to the server has its line in
\* the other log, but for one per Stop: the one that was on its way when the members
\* were cleared, the one that sends before the one that logs (AppController.cpp:343-347).
ForwardedIsLogged ==
    ~closing => missing <= (IF streaming /\ gpc = "idle" THEN starts - 1 ELSE starts)

\* The window shows the port that is selected, unless the devices changed between the
\* last Refresh and the selection, or since and Refresh was pressed; and a streaming
\* client uses the selected ports, unless one was selected after Start
\* (GuiApp.cpp:184-201, AppController.cpp:140-170).
ShownPortIsUsed ==
    \A d \in Directions :
        /\ <<d, "list">> \notin stale /\ index[d] # 0 =>
              index[d] <= Len(listed[d]) /\ listed[d][index[d]] = selected[d]
        /\ streaming /\ gpc = "idle" /\ <<d, "choice">> \notin stale => opened[d] = selected[d]
=============================================================================
