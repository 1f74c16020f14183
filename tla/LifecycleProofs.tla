-------------------------- MODULE LifecycleProofs --------------------------
(***************************************************************************)
(* When the supervisor is done nothing it started is left running but      *)
(* screen pipelines it has replaced, which have been told to stop; and the *)
(* server ends before the cast session unless the token ends both.         *)
(* The argument follows the supervisor: each await of its shutdown leaves  *)
(* a fact behind that no later step undoes.  The same is shown of a screen *)
(* capture through the desktop portal, whose controller starts and awaits  *)
(* a thread of its own.                                                    *)
(***************************************************************************)
EXTENDS Lifecycle, PortalCapture, SequenceTheorems, TLAPS

Joined(t) == task[t] = "Ended"

\* What the supervisor has awaited so far, and what it knows of discovery.
Awaited ==
    /\ sup = "Probe" => \A t \in Tasks : task[t] = "None"
    /\ sup \in {"Cast", "Mdns", "Screen", "Join", "Done"} => Joined("server")
    /\ sup \in {"Mdns", "Screen", "Join", "Done"} => Joined("cast")
    /\ sup \in {"Screen", "Join", "Done"} => mdns_task = FALSE \/ Joined("mdns")
    /\ mdns_task = FALSE => task["mdns"] = "None"

\* Only the pipeline whose bridge the supervisor holds may not know yet that it
\* is to stop; while another is started none is held.
Held ==
    /\ \A p \in Pipelines : pipeline[p] = "Up" => p = screen
    /\ screen # 0 => pipeline[screen] # "None"
    /\ sup = "Start" => screen = 0
    /\ sup = "Join" => screen # 0 /\ pipeline[screen] # "Up"
    /\ sup = "Done" /\ screen # 0 => pipeline[screen] = "Ended"

\* The cast task is ordered to stop only once the server is gone; until then
\* only the token ends it.
CastLast ==
    /\ ordered["cast"] = TRUE => Joined("server")
    /\ task["cast"] = "Teardown" => token = TRUE \/ ordered["cast"] = TRUE

\* The types one by one.
Typed ==
    /\ gui \in {"Open", "Closed", "Waiting", "Exited"}
    /\ sup \in {"Probe", "Loop", "Start", "Server", "Cast", "Mdns", "Screen", "Join", "Done"}
    /\ token \in BOOLEAN /\ saw \in BOOLEAN /\ mdns_task \in BOOLEAN
    /\ task \in [Tasks -> {"None", "Spawned", "Run", "Teardown", "Ended"}]
    /\ late \in [Tasks -> BOOLEAN] /\ ordered \in [Tasks -> BOOLEAN]

Commanded ==
    /\ commands \in Seq({"Rescan", "SelectDisplay"}) /\ Len(commands) <= MaxCommands
    /\ shown \in 0..MaxDisplays

Bridged ==
    /\ screen \in 0..MaxDisplays
    /\ pipeline \in [Pipelines -> {"None", "Up", "Stopped", "Ended"}]

TasksInv   == Typed /\ Awaited /\ CastLast
ScreensInv == Bridged /\ Held

IInv == TasksInv /\ Commanded /\ ScreensInv

LEMMA IInvInit == Init => IInv
<1> SUFFICES ASSUME Init PROVE IInv
  OBVIOUS
<1> USE LifecycleAssumption
<1>1. task \in [Tasks -> {"None"}] /\ late \in [Tasks -> {FALSE}] /\ ordered \in [Tasks -> {FALSE}]
  BY DEF Init
<1>2. TasksInv
  BY <1>1 DEF Init, TasksInv, Typed, Awaited, CastLast, Tasks
<1>3. Commanded
  BY DEF Init, Commanded
<1>4. ScreensInv
  BY DEF Init, ScreensInv, Bridged, Held, Pipelines
<1> QED
  BY <1>2, <1>3, <1>4 DEF IInv

\* What a step that leaves the variables of a part alone keeps.
LEMMA TasksUntouched ==
    TasksInv /\ UNCHANGED <<gui, token, sup, saw, mdns_task, task, late, ordered>> => TasksInv'
  BY DEF TasksInv, Typed, Awaited, CastLast, Joined

LEMMA ChannelUntouched == Commanded /\ UNCHANGED channel => Commanded'
  BY DEF Commanded, channel

LEMMA BridgesUntouched ==
    ASSUME ScreensInv, UNCHANGED bridges,
           sup' = sup \/ sup' \notin {"Start", "Join", "Done"}
    PROVE  ScreensInv'
  BY DEF ScreensInv, Bridged, Held, bridges

\* Taking the command at the head.
LEMMA CommandTaken ==
    ASSUME Commanded, commands # <<>>, commands' = Tail(commands), shown' = shown
    PROVE  Commanded'
  BY LifecycleAssumption DEF Commanded

\* ScreenBridge.stop leaves nothing that does not know.
LEMMA Stopping ==
    ASSUME ScreensInv, pipeline' = StopHeld
    PROVE  /\ pipeline' \in [Pipelines -> {"None", "Up", "Stopped", "Ended"}]
           /\ \A p \in Pipelines : pipeline'[p] # "Up"
           /\ screen # 0 => pipeline'[screen] # "None"
<1>1. \A p \in Pipelines :
        pipeline'[p] = IF p = screen /\ pipeline[p] = "Up" THEN "Stopped" ELSE pipeline[p]
  BY DEF StopHeld
<1>2. screen # 0 => screen \in Pipelines
  BY LifecycleAssumption DEF ScreensInv, Bridged, Pipelines
<1> QED
  BY <1>1, <1>2 DEF ScreensInv, Bridged, Held, StopHeld

\* The steps of the main thread and of the user.
LEMMA MainKeeps ==
    ASSUME IInv, SendRescan \/ SendDisplay \/ CloseWindow \/ MainThread
    PROVE  IInv'
<1>1. ScreensInv'
  BY BridgesUntouched DEF IInv, SendRescan, SendDisplay, Send, CloseWindow, MainThread,
     BackendShutdown, Exit
<1>2. Commanded'
  <2>1. CASE SendRescan \/ SendDisplay
    <3>1. PICK c \in {"Rescan", "SelectDisplay"} :
             Len(commands) < MaxCommands /\ commands' = Append(commands, c)
      BY <2>1 DEF SendRescan, SendDisplay, Send
    <3>2. shown' \in 0..MaxDisplays
      BY <2>1, LifecycleAssumption DEF SendRescan, SendDisplay, IInv, Commanded
    <3> QED
      BY <3>1, <3>2, LifecycleAssumption DEF IInv, Commanded
  <2>2. CASE CloseWindow \/ MainThread
    BY <2>2, ChannelUntouched DEF IInv, CloseWindow, MainThread, BackendShutdown, Exit
  <2> QED BY <2>1, <2>2
<1>3. TasksInv'
  <2>1. CASE SendRescan \/ SendDisplay
    BY <2>1, TasksUntouched DEF IInv, SendRescan, SendDisplay, Send
  <2>2. CASE CloseWindow \/ MainThread
    BY <2>2 DEF IInv, TasksInv, Typed, Awaited, CastLast, Joined, CloseWindow, MainThread,
       BackendShutdown, Triggered, Exit
  <2> QED BY <2>1, <2>2
<1> QED BY <1>1, <1>2, <1>3 DEF IInv

\* The supervisor's loop.
LEMMA LoopKeeps ==
    ASSUME IInv, SpawnTasks \/ Rescan \/ SelectDisplay \/ StartBridge \/ LeaveLoop
    PROVE  IInv'
<1>1. CASE SpawnTasks
  <2>1. PICK socket \in BOOLEAN :
          /\ mdns_task' = socket
          /\ task' = [t \in Tasks |-> IF t = "mdns" /\ ~socket THEN "None" ELSE "Spawned"]
    BY <1>1 DEF SpawnTasks
  <2>2. task' \in [Tasks -> {"None", "Spawned"}] /\ task'["cast"] = "Spawned"
    BY <2>1 DEF Tasks
  <2>3. socket = FALSE => task'["mdns"] = "None"
    BY <2>1 DEF Tasks
  <2>4. ordered["cast"] = FALSE
    BY <1>1 DEF SpawnTasks, Tasks, IInv, TasksInv, Typed, Awaited, CastLast, Joined
  <2>5. TasksInv'
    BY <1>1, <2>1, <2>2, <2>3, <2>4 DEF SpawnTasks, Tasks, IInv, TasksInv, Typed, Awaited, CastLast,
       Joined
  <2> QED
    BY <1>1, <2>5, ChannelUntouched, BridgesUntouched DEF IInv, SpawnTasks
<1>2. CASE Rescan
  <2>1. /\ UNCHANGED <<gui, token, sup, saw, late, ordered>>
        /\ \/ UNCHANGED <<mdns_task, task>>
           \/ mdns_task = FALSE /\ mdns_task' = TRUE /\ task' = [task EXCEPT !["mdns"] = "Spawned"]
        /\ sup = "Loop"
    <3>1. mdns_task \in BOOLEAN
      BY DEF IInv, TasksInv, Typed
    <3>2. CASE mdns_task = TRUE
      BY <1>2, <3>2 DEF Rescan
    <3>3. CASE mdns_task = FALSE
      <4>1. PICK bound \in BOOLEAN :
              /\ mdns_task' = bound
              /\ task' = IF bound THEN [task EXCEPT !["mdns"] = "Spawned"] ELSE task
        BY <1>2, <3>3 DEF Rescan
      <4>2. CASE bound = TRUE
        BY <1>2, <3>3, <4>1, <4>2 DEF Rescan
      <4>3. CASE bound = FALSE
        BY <1>2, <3>3, <4>1, <4>3 DEF Rescan
      <4> QED BY <4>2, <4>3
    <3> QED BY <3>1, <3>2, <3>3
  <2>2. TasksInv'
    <3>1. CASE UNCHANGED <<mdns_task, task>>
      BY <2>1, <3>1, TasksUntouched DEF IInv
    <3>2. CASE /\ mdns_task = FALSE /\ mdns_task' = TRUE
               /\ task' = [task EXCEPT !["mdns"] = "Spawned"]
      <4>1. /\ task' \in [Tasks -> {"None", "Spawned", "Run", "Teardown", "Ended"}]
            /\ task'["server"] = task["server"] /\ task'["cast"] = task["cast"]
        BY <3>2 DEF Tasks, IInv, TasksInv, Typed
      <4> QED
        BY <2>1, <3>2, <4>1 DEF IInv, TasksInv, Typed, Awaited, CastLast, Joined
    <3> QED BY <2>1, <3>1, <3>2
  <2> QED
    BY <1>2, <2>2, CommandTaken, BridgesUntouched DEF IInv, Rescan
<1>3. CASE SelectDisplay
  <2>1. ScreensInv'
    <3>1. pipeline' = StopHeld /\ screen' = 0 /\ sup' = "Start"
      BY <1>3 DEF SelectDisplay, OldReplaced
    <3>2. 0 \in 0..MaxDisplays
      BY LifecycleAssumption
    <3> QED
      BY <3>1, <3>2, Stopping DEF IInv, ScreensInv, Bridged, Held
  <2>2. TasksInv'
    BY <1>3 DEF SelectDisplay, IInv, TasksInv, Typed, Awaited, CastLast, Joined
  <2> QED
    BY <1>3, <2>1, <2>2, CommandTaken DEF IInv, SelectDisplay
<1>4. CASE StartBridge
  <2>1. CASE UNCHANGED bridges
    <3>1. ScreensInv'
      BY <1>4, <2>1, BridgesUntouched DEF IInv, StartBridge
    <3>2. TasksInv'
      BY <1>4 DEF StartBridge, IInv, TasksInv, Typed, Awaited, CastLast, Joined
    <3> QED
      BY <1>4, <3>1, <3>2, ChannelUntouched DEF IInv, StartBridge
  <2>2. ASSUME NEW p \in Pipelines, screen' = p, pipeline' = [pipeline EXCEPT ![p] = "Up"]
        PROVE  IInv'
    <3>1. ScreensInv'
      <4>1. sup' = "Loop" /\ screen = 0 /\ p \in 0..MaxDisplays /\ 0 \notin Pipelines
        BY <1>4, LifecycleAssumption DEF StartBridge, IInv, ScreensInv, Held, Pipelines
      <4>2. \A q \in Pipelines : pipeline[q] # "Up"
        BY <4>1 DEF IInv, ScreensInv, Held
      <4> QED
        BY <2>2, <4>1, <4>2 DEF IInv, ScreensInv, Bridged, Held
    <3>2. TasksInv'
      BY <1>4 DEF StartBridge, IInv, TasksInv, Typed, Awaited, CastLast, Joined
    <3> QED
      BY <1>4, <3>1, <3>2, ChannelUntouched DEF IInv, StartBridge
  <2> QED BY <1>4, <2>1, <2>2 DEF StartBridge
<1>5. CASE LeaveLoop
  <2>1. TasksInv'
    BY <1>5 DEF LeaveLoop, OrderServer, Tasks, IInv, TasksInv, Typed, Awaited, CastLast, Joined
  <2> QED
    BY <1>5, <2>1, ChannelUntouched, BridgesUntouched DEF IInv, LeaveLoop
<1> QED BY <1>1, <1>2, <1>3, <1>4, <1>5

\* The coordinated shutdown.
LEMMA ShutdownKeeps ==
    ASSUME IInv, ServerJoined \/ CastJoined \/ MdnsJoined \/ ScreenStopped \/ ScreenJoined
    PROVE  IInv'
<1>1. TasksInv'
  BY DEF ServerJoined, CastJoined, MdnsJoined, MdnsEnded, ScreenStopped, ScreenJoined, Tasks, IInv,
     TasksInv, Typed, Awaited, CastLast, Joined
<1>2. Commanded'
  BY ChannelUntouched DEF IInv, ServerJoined, CastJoined, MdnsJoined, ScreenStopped, ScreenJoined
<1>3. ScreensInv'
  <2>1. CASE ServerJoined \/ CastJoined \/ MdnsJoined
    BY <2>1, BridgesUntouched DEF IInv, ServerJoined, CastJoined, MdnsJoined
  <2>2. CASE ScreenStopped
    <3>1. pipeline' = StopHeld /\ screen' = screen /\ sup' = (IF screen = 0 THEN "Done" ELSE "Join")
      BY <2>2 DEF ScreenStopped
    <3>2. screen # 0 => screen \in Pipelines
      BY LifecycleAssumption DEF IInv, ScreensInv, Bridged, Pipelines
    <3> QED
      BY <3>1, <3>2, Stopping DEF IInv, ScreensInv, Bridged, Held
  <2>3. CASE ScreenJoined
    BY <2>3 DEF ScreenJoined, bridges, IInv, ScreensInv, Bridged, Held
  <2> QED BY <2>1, <2>2, <2>3
<1> QED BY <1>1, <1>2, <1>3 DEF IInv

\* The steps of the tasks and of the pipelines: what has ended stays so.
LEMMA TaskKeeps ==
    ASSUME IInv, TaskStep
    PROVE  IInv'
<1> USE DEF TasksInv, Typed, Awaited, CastLast, Joined
<1>1. UNCHANGED <<channel, bridges, sup>>
  BY DEF TaskStep, CastMissesToken, TornDown, TaskStarts, TaskFailsToStart, TaskStops
<1>2. TasksInv'
  <2>1. CASE CastMissesToken
    BY <2>1 DEF IInv, CastMissesToken
  <2>2. CASE TornDown
    BY <2>2 DEF IInv, TornDown, Tasks
  <2>3. ASSUME NEW t \in Tasks, TaskStarts(t) PROVE TasksInv'
    BY <2>3 DEF IInv, TaskStarts, Tasks
  <2>4. ASSUME NEW t \in Tasks, TaskFailsToStart(t) PROVE TasksInv'
    BY <2>4 DEF IInv, TaskFailsToStart, Tasks
  <2>5. ASSUME NEW t \in Tasks, TaskStops(t) PROVE TasksInv'
    BY <2>5 DEF IInv, TaskStops, Tasks
  <2> QED BY <2>1, <2>2, <2>3, <2>4, <2>5 DEF TaskStep
<1> QED BY <1>1, <1>2, ChannelUntouched, BridgesUntouched DEF IInv

LEMMA PipelineKeeps ==
    ASSUME IInv, NEW p \in Pipelines, PipelineEnds(p)
    PROVE  IInv'
<1>1. ScreensInv'
  BY DEF PipelineEnds, IInv, ScreensInv, Bridged, Held
<1>2. TasksInv' /\ Commanded'
  BY TasksUntouched, ChannelUntouched DEF PipelineEnds, IInv
<1> QED BY <1>1, <1>2 DEF IInv

LEMMA IInvNext == IInv /\ [Next]_vars => IInv'
<1> SUFFICES ASSUME IInv, [Next]_vars PROVE IInv'
  OBVIOUS
<1>1. CASE UNCHANGED vars
  BY <1>1, TasksUntouched, ChannelUntouched, BridgesUntouched DEF vars, IInv
<1> QED
  BY <1>1, MainKeeps, LoopKeeps, ShutdownKeeps, TaskKeeps, PipelineKeeps DEF Next, Supervisor

\* The coordinated shutdown of supervise, for any number of commands and of
\* displays selected one after the other: no task is left running, nor the
\* pipeline held at the end, and every pipeline that was replaced knows that it
\* is to stop; the server ends first unless the token ends both.
THEOREM ShutdownInOrder == Spec => []LifecycleInv
<1>1. IInv => LifecycleInv
  <2> SUFFICES ASSUME IInv PROVE LifecycleInv
    OBVIOUS
  <2>1. {token, saw, mdns_task} \subseteq BOOLEAN
    BY Zenon DEF IInv, TasksInv, Typed
  <2>2. TypeOK
    BY <2>1 DEF TypeOK, IInv, TasksInv, Typed, Commanded, ScreensInv, Bridged
  <2>3. NothingLeftRunning
    <3>1. sup = "Done" => \A t \in Tasks : task[t] \in {"None", "Ended"}
      BY DEF IInv, TasksInv, Typed, Awaited, Joined, Tasks
    <3>2. sup = "Done" => /\ screen # 0 => pipeline[screen] = "Ended"
                          /\ \A p \in Pipelines : pipeline[p] # "Up"
      BY LifecycleAssumption DEF IInv, ScreensInv, Bridged, Held, Pipelines
    <3> QED BY <3>1, <3>2 DEF NothingLeftRunning
  <2>4. ServerBeforeCast
    BY DEF ServerBeforeCast, IInv, TasksInv, CastLast, Typed, Joined
  <2> QED BY <2>2, <2>3, <2>4 DEF LifecycleInv
<1> QED
  BY <1>1, IInvInit, IInvNext, PTL DEF Spec

-----------------------------------------------------------------------------
(* PortalCapture.                                                          *)

\* Each flag by itself.
Flags ==
    /\ stop \in BOOLEAN /\ shutdown \in BOOLEAN /\ heard \in BOOLEAN /\ pw_stop \in BOOLEAN
    /\ format_sent \in BOOLEAN

\* The other types, without the bound on the reports.
Shapes ==
    /\ ctl \in {"Create", "Select", "Start", "Open", "Spawn", "Wait", "Undo", "Encode",
                "Loop", "Teardown", "Join", "Done"}
    /\ errors \in 0..1 /\ session \in {"None", "Open", "Closed", "Dropped"}
    /\ pw \in {"None", "Connect", "Stream", "Ended"}
    /\ format \in Formats \cup {None} /\ frames \in Formats \cup {None}
    /\ current \in Formats \cup {None}
    /\ status \in Seq(Formats \cup {"Err"}) /\ changes \in 0..MaxChanges

\* A capture thread reports its first format, and an error when it ends.
Reports ==
    Len(status) <= (IF format_sent = TRUE THEN 1 ELSE 0) + (IF pw = "Ended" THEN 1 ELSE 0)

\* There is no capture thread before the portal has given its remote.
NotYet == ctl \in {"Create", "Select", "Start", "Open", "Spawn"} => pw = "None"

PortalIInv == Flags /\ Shapes /\ Reports /\ NotYet

LEMMA PortalTyped == PortalIInv => PortalOK
<1> SUFFICES ASSUME PortalIInv PROVE PortalOK
  OBVIOUS
<1>1. {stop, shutdown, heard, pw_stop, format_sent} \subseteq BOOLEAN
  BY Zenon DEF PortalIInv, Flags
<1>2. {format, frames, current} \subseteq Formats \cup {None}
  BY DEF PortalIInv, Shapes
<1>3. Len(status) <= 2
  BY DEF PortalIInv, Shapes, Reports
<1> QED BY <1>1, <1>2, <1>3 DEF PortalIInv, Shapes, PortalOK

\* The steps that leave the capture thread and its reports alone.
LEMMA CaptureUntouched ==
    PortalIInv /\ Flags' /\ Shapes' /\ NotYet' /\ UNCHANGED <<status, pw, format_sent>> => PortalIInv'
  BY DEF PortalIInv, Reports

LEMMA ControllerKeeps == PortalIInv /\ (Controller \/ StartAnswered \/ EncoderDies) => PortalIInv'
<1> SUFFICES ASSUME PortalIInv, Controller \/ StartAnswered \/ EncoderDies PROVE PortalIInv'
  OBVIOUS
<1> USE PortalCaptureAssumption
<1>1. /\ UNCHANGED <<shutdown, heard, format, format_sent, changes>>
      /\ stop' \in {stop, TRUE} /\ pw_stop' \in {pw_stop, TRUE}
  BY DEF Controller, Negotiation, StartAnswered, EncoderDies, CreateSession, SelectSources,
         StartAborted, OpenPipewireRemote, SpawnCapture, FormatArrives, NegotiationFails,
         UndoNegotiation, FirstEncoder, ReadStatus, Feed, LeavePortalLoop, TeardownStops,
         TeardownJoins, Dance, GiveUp, Fail, pipewire, tokens
<1>2. Flags'
  BY <1>1, Zenon DEF PortalIInv, Flags
<1>3. CASE CreateSession \/ SelectSources \/ StartAnswered \/ OpenPipewireRemote
  <2>1. UNCHANGED <<status, pw, frames, current>>
    BY <1>3 DEF CreateSession, SelectSources, StartAnswered, OpenPipewireRemote, Dance, pipewire
  <2>2. Shapes' /\ NotYet'
    BY <1>1, <1>3, <2>1 DEF CreateSession, SelectSources, StartAnswered, OpenPipewireRemote, Dance,
       GiveUp, Fail, PortalIInv, Shapes, NotYet
  <2> QED BY <1>1, <1>2, <2>1, <2>2, CaptureUntouched
<1>4. CASE StartAborted \/ UndoNegotiation \/ FirstEncoder
  <2>1. UNCHANGED <<status, pw, frames, current>>
    BY <1>4 DEF StartAborted, UndoNegotiation, FirstEncoder, pipewire
  <2>2. Shapes' /\ NotYet'
    BY <1>1, <1>4, <2>1 DEF StartAborted, UndoNegotiation, FirstEncoder, GiveUp, Fail,
       PortalIInv, Shapes, NotYet
  <2> QED BY <1>1, <1>2, <2>1, <2>2, CaptureUntouched
<1>5. CASE SpawnCapture
  <2>1. UNCHANGED <<status, frames, current>> /\ pw = "None" /\ pw' \in {"None", "Connect"}
    BY <1>5 DEF SpawnCapture, PortalIInv, NotYet
  <2>2. Shapes' /\ NotYet'
    BY <1>1, <1>5, <2>1 DEF SpawnCapture, GiveUp, Fail, PortalIInv, Shapes, NotYet
  <2>3. Reports'
    BY <1>1, <2>1 DEF PortalIInv, Reports
  <2> QED BY <1>2, <2>2, <2>3 DEF PortalIInv
<1>6. CASE FormatArrives \/ ReadStatus
  <2>1. /\ status # <<>> /\ status' = Tail(status) /\ UNCHANGED <<pw, frames, session>>
        /\ ctl \in {"Wait", "Loop"} /\ ctl' \in {"Encode", "Loop", "Teardown"}
        /\ errors' \in {errors, 1}
        /\ current' = current \/ (Head(status) # "Err" /\ current' = Head(status))
    BY <1>6 DEF FormatArrives, ReadStatus, Fail, pipewire
  <2>2. Head(status) \in Formats \cup {"Err"} /\ Tail(status) \in Seq(Formats \cup {"Err"})
        /\ Len(Tail(status)) = Len(status) - 1 /\ Len(status) \in Nat
    BY <2>1 DEF PortalIInv, Shapes
  <2>3. Shapes' /\ NotYet'
    BY <1>1, <2>1, <2>2 DEF PortalIInv, Shapes, NotYet
  <2>4. Reports'
    BY <1>1, <2>1, <2>2 DEF PortalIInv, Reports
  <2> QED BY <1>2, <2>3, <2>4 DEF PortalIInv
<1>7. CASE NegotiationFails \/ Feed \/ LeavePortalLoop \/ TeardownStops \/ TeardownJoins \/ EncoderDies
  <2>1. /\ UNCHANGED <<status, pw, current>> /\ frames' \in {frames, None}
        /\ errors' \in {errors, 1} /\ session' \in {session, "Closed"}
        /\ ctl' \in {"Undo", "Loop", "Teardown", "Join", "Done"}
    BY <1>7 DEF NegotiationFails, Feed, LeavePortalLoop, TeardownStops, TeardownJoins, EncoderDies,
       Fail, pipewire
  <2>2. Shapes' /\ NotYet'
    BY <1>1, <2>1 DEF PortalIInv, Shapes, NotYet
  <2> QED BY <1>1, <1>2, <2>1, <2>2, CaptureUntouched
<1> QED BY <1>3, <1>4, <1>5, <1>6, <1>7 DEF Controller, Negotiation

LEMMA CaptureKeeps == PortalIInv /\ (CaptureThread \/ StreamFails) => PortalIInv'
<1> SUFFICES ASSUME PortalIInv, CaptureThread \/ StreamFails PROVE PortalIInv'
  OBVIOUS
<1> USE PortalCaptureAssumption
<1>1. /\ UNCHANGED <<ctl, stop, errors, session, shutdown, heard, pw_stop, current>>
      /\ format_sent' \in {format_sent, TRUE} /\ pw \in {"Connect", "Stream"}
  BY DEF CaptureThread, Connect, Process, CaptureStops, ParamChanged, StreamFails, pipewire, tokens
<1>2. Flags' BY <1>1, Zenon DEF PortalIInv, Flags
<1>3. NotYet' BY <1>1 DEF PortalIInv, NotYet
<1>4. CASE Connect \/ CaptureStops
  <2>1. UNCHANGED <<format, format_sent, status, frames, changes>> /\ pw' \in {"Stream", "Ended"}
    BY <1>4 DEF Connect, CaptureStops
  <2>2. Shapes' BY <1>1, <2>1 DEF PortalIInv, Shapes
  <2>3. Reports' BY <1>1, <2>1 DEF PortalIInv, Shapes, Reports
  <2> QED BY <1>2, <1>3, <2>2, <2>3 DEF PortalIInv
<1>5. CASE Process
  <2>1. UNCHANGED <<format, format_sent, status, changes, pw>> /\ frames' = format
    BY <1>5 DEF Process, pipewire
  <2>2. Shapes' BY <1>1, <2>1 DEF PortalIInv, Shapes
  <2> QED BY <1>2, <1>3, <2>1, <2>2, CaptureUntouched
<1>6. CASE StreamFails
  <2>1. /\ UNCHANGED <<format, format_sent, frames, changes>> /\ pw # "Ended" /\ pw' = "Ended"
        /\ status' = Append(status, "Err")
    BY <1>6 DEF StreamFails
  <2>2. status' \in Seq(Formats \cup {"Err"}) /\ Len(status') = Len(status) + 1 /\ Len(status) \in Nat
    BY <2>1 DEF PortalIInv, Shapes
  <2>3. Shapes' BY <1>1, <2>1, <2>2 DEF PortalIInv, Shapes
  <2>4. Reports' BY <1>1, <2>1, <2>2 DEF PortalIInv, Reports
  <2> QED BY <1>2, <1>3, <2>3, <2>4 DEF PortalIInv
<1>7. ASSUME NEW f \in Formats, ParamChanged(f) PROVE PortalIInv'
  <2>1. /\ UNCHANGED <<pw, frames>> /\ format' = f /\ format_sent' = TRUE /\ pw = "Stream"
        /\ \E e \in Formats \cup {"Err"} : status' = IF format_sent THEN status ELSE Append(status, e)
    BY <1>7 DEF ParamChanged, ReportFirst
  <2>2. changes' \in 0..MaxChanges
    BY <1>7 DEF ParamChanged, PortalIInv, Flags, Shapes
  <2>3. CASE format_sent = TRUE
    <3>1. status' = status BY <2>1, <2>3
    <3>2. Shapes' BY <1>1, <2>1, <2>2, <3>1 DEF PortalIInv, Shapes
    <3>3. Reports' BY <2>1, <2>3, <3>1 DEF PortalIInv, Reports
    <3> QED BY <1>2, <1>3, <3>2, <3>3 DEF PortalIInv
  <2>4. CASE format_sent = FALSE
    <3>1. PICK e \in Formats \cup {"Err"} : status' = Append(status, e) BY <2>1, <2>4
    <3>2. status' \in Seq(Formats \cup {"Err"}) /\ Len(status') = Len(status) + 1 /\ Len(status) \in Nat
      BY <3>1 DEF PortalIInv, Shapes
    <3>3. Shapes' BY <1>1, <2>1, <2>2, <3>2 DEF PortalIInv, Shapes
    <3>4. Reports' BY <2>1, <2>4, <3>2 DEF PortalIInv, Reports
    <3> QED BY <1>2, <1>3, <3>3, <3>4 DEF PortalIInv
  <2> QED BY <2>3, <2>4 DEF PortalIInv, Flags
<1> QED BY <1>4, <1>5, <1>6, <1>7 DEF CaptureThread

LEMMA PortalKeeps == PortalIInv /\ [PortalNext]_portalVars => PortalIInv'
<1> SUFFICES ASSUME PortalIInv, [PortalNext]_portalVars PROVE PortalIInv'
  OBVIOUS
<1>1. CASE Stop \/ Shutdown
  <2>1. UNCHANGED <<ctl, errors, session, pw, format, format_sent, pw_stop, status, frames, current,
                    changes>>
    BY <1>1 DEF Stop, Shutdown, pipewire
  <2>2. stop' \in {stop, TRUE} /\ shutdown' \in {shutdown, TRUE} /\ heard' \in {heard, TRUE, FALSE}
    BY <1>1, Zenon DEF Stop, Shutdown, tokens
  <2>3. Flags' BY <2>1, <2>2, Zenon DEF PortalIInv, Flags
  <2>4. Shapes' /\ NotYet' BY <2>1 DEF PortalIInv, Shapes, NotYet
  <2> QED BY <2>1, <2>3, <2>4, CaptureUntouched
<1>2. CASE UNCHANGED portalVars
  BY <1>2 DEF portalVars, pipewire, tokens, PortalIInv, Flags, Shapes, Reports, NotYet
<1> QED BY <1>1, <1>2, ControllerKeeps, CaptureKeeps DEF PortalNext

\* However the negotiation or the capture breaks off (prepare_portal,
\* wait_for_format, teardown_portal): when the controller ends, its capture
\* thread has ended and the portal session is closed, by a call if there was a
\* thread, and at most one error and two reports were sent.
THEOREM NothingStaysAcquired == PortalSpec => NothingAcquired
<1>1. PortalInit => PortalIInv
  <2> SUFFICES ASSUME PortalInit PROVE PortalIInv
    OBVIOUS
  <2>1. Flags BY Zenon DEF PortalInit, Flags
  <2>2. Shapes /\ Reports /\ NotYet
    BY PortalCaptureAssumption DEF PortalInit, Shapes, Reports, NotYet
  <2> QED BY <2>1, <2>2 DEF PortalIInv
<1>2. ASSUME PortalIInv, [PortalNext]_portalVars, ctl' = "Done", ctl \notin {"Encode", "Done"}
      PROVE  ~Alive' /\ session' # "Open" /\ (pw' # "None" => session' = "Closed")
  <2>1. \/ ctl \in {"Create", "Select", "Start", "Open", "Spawn"} /\ GiveUp /\ pw' = pw
        \/ ctl = "Undo" /\ CaptureJoined /\ session' = "Closed" /\ pw' = pw
        \/ ctl = "Join" /\ CaptureJoined /\ session' = "Closed" /\ pw' = pw
    BY <1>2 DEF PortalNext, Stop, Shutdown, StartAnswered, EncoderDies, StreamFails, Controller,
       Negotiation, CaptureThread, Connect, Process, CaptureStops, ParamChanged, CreateSession,
       SelectSources, StartAborted, OpenPipewireRemote, SpawnCapture, FormatArrives,
       NegotiationFails, UndoNegotiation, FirstEncoder, ReadStatus, Feed, LeavePortalLoop,
       TeardownStops, TeardownJoins, Dance, Fail, pipewire, portalVars
  <2>2. pw' \in {"None", "Ended"}
    BY <1>2, <2>1 DEF CaptureJoined, PortalIInv, NotYet
  <2>3. session' # "Open" /\ (pw' # "None" => session' = "Closed")
    BY <1>2, <2>1 DEF GiveUp, PortalIInv, NotYet
  <2> QED BY <2>2, <2>3 DEF Alive
<1>3. PortalIInv /\ PortalIInv' /\ [PortalNext]_portalVars =>
        [/\ PortalOK'
         /\ ctl' = "Done" /\ ctl \notin {"Encode", "Done"}
              => ~Alive' /\ session' # "Open" /\ (pw' # "None" => session' = "Closed")]_portalVars
  <2>1. PortalIInv' => PortalOK' BY PortalTyped, PTL
  <2> QED BY <1>2, <2>1
<1> QED BY <1>1, <1>3, PortalKeeps, PTL DEF PortalSpec, NothingAcquired

=============================================================================
