------------------------------ MODULE Lifecycle ------------------------------
(***************************************************************************)
(* Start and end of the backend: the main thread (src/main.rs and          *)
(* Backend::shutdown), the supervisor task (src/runtime.rs, supervise) and *)
(* the three tasks it spawns, which observe the Shutdown token             *)
(* (src/util/shutdown.rs).                                                 *)
(*                                                                         *)
(* The token is a watch channel.  A receiver made by subscribe has seen    *)
(* the value of that moment, and its changed() waits for a later one; so a *)
(* task that subscribes after the trigger never hears of it.  What the     *)
(* tasks and the screen pipelines do in between is the subject of the      *)
(* other modules.                                                          *)
(***************************************************************************)
EXTENDS Naturals, Sequences

CONSTANTS
    MaxCommands,   \* bound on the commands in the channel
    MaxDisplays    \* bound on the SelectDisplay commands the user sends

ASSUME LifecycleAssumption == MaxCommands \in Nat /\ MaxDisplays \in Nat

Tasks     == {"server", "cast", "mdns"}
Pipelines == 1..MaxDisplays

VARIABLES
    gui,          \* main thread: window open, closed, waiting, exited
    token,        \* Shutdown has been triggered
    sup, saw,     \* supervisor: where it is, the token when it subscribed
    mdns_task,    \* its JoinHandle of the discovery task is Some
    commands,     \* "Rescan" and "SelectDisplay" commands in the channel
    shown,        \* SelectDisplay commands sent
    screen,       \* the pipeline whose ScreenBridge it holds, or 0
    pipeline,     \* what each pipeline does, in the order of their starts
    task,         \* what each task does
    late,         \* it subscribed after the trigger
    ordered       \* its Shutdown command is in its channel

channel == <<commands, shown>>
bridges == <<screen, pipeline>>
vars    == <<gui, token, sup, saw, mdns_task, channel, bridges, task, late, ordered>>

Init ==
    /\ gui = "Open" /\ token = FALSE
    /\ sup = "Probe" /\ saw = FALSE /\ mdns_task = FALSE
    /\ commands = <<>> /\ shown = 0
    /\ screen = 0 /\ pipeline = [p \in Pipelines |-> "None"]
    /\ task = [t \in Tasks |-> "None"]
    /\ late = [t \in Tasks |-> FALSE] /\ ordered = [t \in Tasks |-> FALSE]

-----------------------------------------------------------------------------
(* The main thread.                                                        *)

Send(command) ==
    /\ gui = "Open" /\ Len(commands) < MaxCommands
    /\ commands' = Append(commands, command)
    /\ UNCHANGED <<gui, token, sup, saw, mdns_task, bridges, task, late, ordered>>

SendRescan  == Send("Rescan") /\ UNCHANGED shown
SendDisplay == Send("SelectDisplay") /\ shown < MaxDisplays /\ shown' = shown + 1

\* run_native returns; the dashboard, and with it the command sender, is gone.
CloseWindow ==
    /\ gui = "Open"
    /\ gui' = "Closed"
    /\ UNCHANGED <<token, sup, saw, mdns_task, channel, bridges, task, late, ordered>>

\* Backend::shutdown: trigger, then wait for the supervisor.
NotTriggered == UNCHANGED token
Triggered    == token' = TRUE

BackendShutdown ==
    /\ gui = "Closed" /\ gui' = "Waiting" /\ Triggered
    /\ UNCHANGED <<sup, saw, mdns_task, channel, bridges, task, late, ordered>>

\* When the supervisor has ended, shutdown_timeout waits for the joins in the
\* background until they are over or RUNTIME_DRAIN is.
Exit ==
    /\ gui = "Waiting" /\ sup = "Done" /\ gui' = "Exited"
    /\ UNCHANGED <<token, sup, saw, mdns_task, channel, bridges, task, late, ordered>>

-----------------------------------------------------------------------------
(* The supervisor.                                                         *)

\* The displays have been enumerated; the tasks are spawned.  Without a
\* socket there is no discovery.
SpawnTasks ==
    /\ sup = "Probe" /\ sup' = "Loop" /\ saw' = token
    /\ \E socket \in BOOLEAN :
          /\ mdns_task' = socket
          /\ task' = [t \in Tasks |-> IF t = "mdns" /\ ~socket THEN "None" ELSE "Spawned"]
    /\ UNCHANGED <<gui, token, channel, bridges, late, ordered>>

\* handle_command(Rescan): discovery that never started is started now.
Rescan ==
    /\ sup = "Loop" /\ commands # <<>> /\ Head(commands) = "Rescan"
    /\ commands' = Tail(commands)
    /\ IF mdns_task THEN UNCHANGED <<mdns_task, task>>
       ELSE \E bound \in BOOLEAN :
               /\ mdns_task' = bound
               /\ task' = IF bound THEN [task EXCEPT !["mdns"] = "Spawned"] ELSE task
    /\ UNCHANGED <<gui, token, sup, saw, shown, bridges, late, ordered>>

\* ScreenBridge.stop; one that has ended by itself is still held.
StopHeld == [p \in Pipelines |-> IF p = screen /\ pipeline[p] = "Up" THEN "Stopped" ELSE pipeline[p]]

\* handle_command(SelectDisplay): the pipeline there is, if any, is stopped
\* and left to a join in the background that nobody waits for; ...
OldForgotten == UNCHANGED pipeline /\ screen' = 0
OldReplaced  == pipeline' = StopHeld /\ screen' = 0

SelectDisplay ==
    /\ sup = "Loop" /\ commands # <<>> /\ Head(commands) = "SelectDisplay"
    /\ commands' = Tail(commands)
    /\ OldReplaced /\ sup' = "Start"
    /\ UNCHANGED <<gui, token, saw, mdns_task, shown, task, late, ordered>>

\* ... then the new one is started, on a worker that is waited for, or fails.
StartBridge ==
    /\ sup = "Start" /\ sup' = "Loop"
    /\ \/ \E p \in Pipelines :
             /\ pipeline[p] = "None" /\ \A q \in 1..p - 1 : pipeline[q] # "None"
             /\ screen' = p /\ pipeline' = [pipeline EXCEPT ![p] = "Up"]
       \/ UNCHANGED bridges
    /\ UNCHANGED <<gui, token, saw, mdns_task, channel, task, late, ordered>>

\* The server is told first, the cast task once the server is gone.
OrderServer == ordered' = [ordered EXCEPT !["server"] = TRUE]

\* The loop ends with the GUI, the token, or a dead child.
LeaveLoop ==
    /\ sup = "Loop"
    /\ \/ gui # "Open" /\ commands = <<>>
       \/ token /\ ~saw
       \/ \E t \in {"server", "cast"} : task[t] = "Ended"
    /\ sup' = "Server" /\ OrderServer
    /\ UNCHANGED <<gui, token, saw, mdns_task, channel, bridges, task, late>>

\* The coordinated shutdown, one await after the other.
ServerJoined ==
    /\ sup = "Server" /\ task["server"] = "Ended"
    /\ sup' = "Cast" /\ ordered' = [ordered EXCEPT !["cast"] = TRUE]
    /\ UNCHANGED <<gui, token, saw, mdns_task, channel, bridges, task, late>>

CastJoined ==
    /\ sup = "Cast" /\ task["cast"] = "Ended" /\ sup' = "Mdns"
    /\ UNCHANGED <<gui, token, saw, mdns_task, channel, bridges, task, late, ordered>>

MdnsEnded == mdns_task => task["mdns"] = "Ended"

MdnsJoined ==
    /\ sup = "Mdns" /\ MdnsEnded /\ sup' = "Screen"
    /\ UNCHANGED <<gui, token, saw, mdns_task, channel, bridges, task, late, ordered>>

\* ScreenBridge.stop and join, for the pipeline that is held.
ScreenStopped ==
    /\ sup = "Screen" /\ sup' = (IF screen = 0 THEN "Done" ELSE "Join")
    /\ pipeline' = StopHeld
    /\ UNCHANGED <<gui, token, saw, mdns_task, channel, screen, task, late, ordered>>

ScreenJoined ==
    /\ sup = "Join" /\ pipeline[screen] = "Ended" /\ sup' = "Done"
    /\ UNCHANGED <<gui, token, saw, mdns_task, channel, bridges, task, late, ordered>>

-----------------------------------------------------------------------------
(* The tasks.                                                              *)

\* The task runs for the first time and subscribes.  The server ends when it
\* cannot build its HTTP client, discovery when Tokio refuses its socket.
TaskStarts(t) ==
    /\ task[t] = "Spawned"
    /\ task' = [task EXCEPT ![t] = "Run"] /\ late' = [late EXCEPT ![t] = token]
    /\ UNCHANGED <<gui, token, sup, saw, mdns_task, channel, bridges, ordered>>

TaskFailsToStart(t) ==
    /\ t # "cast" /\ task[t] = "Spawned"
    /\ task' = [task EXCEPT ![t] = "Ended"]
    /\ UNCHANGED <<gui, token, sup, saw, mdns_task, channel, bridges, late, ordered>>

\* changed() on the token, or the Shutdown command.  The cast task tears its
\* session down first; discovery has no command.
TaskStops(t) ==
    /\ task[t] = "Run"
    /\ (token /\ ~late[t]) \/ ordered[t]
    /\ task' = [task EXCEPT ![t] = IF t = "cast" THEN "Teardown" ELSE "Ended"]
    /\ UNCHANGED <<gui, token, sup, saw, mdns_task, channel, bridges, late, ordered>>

\* The cast task disarms its branch on the token when the token is already
\* set as it returns to its select: busy at that moment, it is left with the
\* command.
CastMissesToken ==
    /\ task["cast"] = "Run" /\ token /\ ~late["cast"]
    /\ late' = [late EXCEPT !["cast"] = TRUE]
    /\ UNCHANGED <<gui, token, sup, saw, mdns_task, channel, bridges, task, ordered>>

TornDown ==
    /\ task["cast"] = "Teardown" /\ task' = [task EXCEPT !["cast"] = "Ended"]
    /\ UNCHANGED <<gui, token, sup, saw, mdns_task, channel, bridges, late, ordered>>

\* The threads and the child of a pipeline end: told to, or on an error, on
\* the token, or because the consumer has gone.
PipelineEnds(p) ==
    /\ pipeline[p] \in {"Up", "Stopped"}
    /\ pipeline' = [pipeline EXCEPT ![p] = "Ended"]
    /\ UNCHANGED <<gui, token, sup, saw, mdns_task, channel, screen, task, late, ordered>>

-----------------------------------------------------------------------------

MainThread == BackendShutdown \/ Exit

Supervisor == \/ SpawnTasks \/ Rescan \/ SelectDisplay \/ StartBridge \/ LeaveLoop
              \/ ServerJoined \/ CastJoined \/ MdnsJoined \/ ScreenStopped \/ ScreenJoined

TaskStep == CastMissesToken \/ TornDown \/ \E t \in Tasks : TaskStarts(t) \/ TaskFailsToStart(t) \/ TaskStops(t)

Next == \/ SendRescan \/ SendDisplay \/ CloseWindow \/ MainThread \/ Supervisor \/ TaskStep
        \/ \E p \in Pipelines : PipelineEnds(p)

Spec == Init /\ [][Next]_vars

\* The main thread runs, and Tokio runs every task that is ready.  A pipeline
\* that is told to stop ends: PipelineEnds of ScreenPipeline.
FairSpec == /\ Spec
            /\ WF_vars(MainThread) /\ WF_vars(Supervisor) /\ WF_vars(TornDown)
            /\ \A t \in Tasks : WF_vars(TaskStarts(t) \/ TaskFailsToStart(t) \/ TaskStops(t))
            /\ \A p \in Pipelines : WF_vars(pipeline[p] = "Stopped" /\ PipelineEnds(p))

-----------------------------------------------------------------------------
(* Properties.                                                             *)

\* Types of the main thread's, the supervisor's and the tasks' state.
TypeOK ==
    /\ gui \in {"Open", "Closed", "Waiting", "Exited"}
    /\ sup \in {"Probe", "Loop", "Start", "Server", "Cast", "Mdns", "Screen", "Join", "Done"}
    /\ {token, saw, mdns_task} \subseteq BOOLEAN
    /\ commands \in Seq({"Rescan", "SelectDisplay"}) /\ Len(commands) <= MaxCommands
    /\ shown \in 0..MaxDisplays /\ screen \in 0..MaxDisplays
    /\ pipeline \in [Pipelines -> {"None", "Up", "Stopped", "Ended"}]
    /\ task \in [Tasks -> {"None", "Spawned", "Run", "Teardown", "Ended"}]
    /\ late \in [Tasks -> BOOLEAN] /\ ordered \in [Tasks -> BOOLEAN]

\* "backend shutdown complete": when the supervisor ends, listener, session,
\* discovery and the pipeline it holds are gone, whatever made it leave its
\* loop; and of the pipelines it has replaced none was forgotten: each has
\* been told to stop.
NothingLeftRunning ==
    sup = "Done" => /\ \A t \in Tasks : task[t] \in {"None", "Ended"}
                    /\ screen # 0 => pipeline[screen] = "Ended"
                    /\ \A p \in Pipelines : pipeline[p] # "Up"

\* "wait for the supervisor (all tasks joined, capture thread joined, ffmpeg
\* reaped)" (Backend::shutdown): when the main thread has waited for the
\* supervisor, no pipeline is left, a replaced one included.
EverythingReaped ==
    gui = "Waiting" /\ sup = "Done" => \A p \in Pipelines : pipeline[p] \in {"None", "Ended"}

\* The application exits once its window is closed, at whatever moment: no
\* task waits for another that was never told.  The exception is discovery
\* started so late that it subscribed after the trigger (run_with_dest).
ExitCompletes == (gui = "Closed") ~> (gui = "Exited" \/ late["mdns"])

\* "HTTP stops accepting first so no new /stream connections arrive while the
\* Cast session tears down" (runtime.rs, supervise): so it is while the
\* supervisor alone drives the shutdown, before the token is triggered.
ServerBeforeCast ==
    task["cast"] = "Teardown" /\ ~token => task["server"] = "Ended"

\* The order of the coordinated shutdown in supervise and what it leaves behind.
LifecycleInv == TypeOK /\ NothingLeftRunning /\ ServerBeforeCast

=============================================================================
