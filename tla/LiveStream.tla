----------------------------- MODULE LiveStream -----------------------------
(***************************************************************************)
(* Serving /stream while the source changes: the supervisor selects        *)
(* sources and starts screen pipelines (src/runtime.rs), the media-server  *)
(* task keeps the active source, the slot with the live receiver and the   *)
(* source generation, and one task per connection serves the source that   *)
(* was active when it was accepted (src/media/server.rs).                  *)
(*                                                                         *)
(* A screen pipeline is its number and what it does with the sending end   *)
(* of its channel; ScreenPipeline has the rest of it.  Its receiving end   *)
(* is always in one place: a command, the slot, or a connection.  A file   *)
(* and a URL differ in nothing here, and a request that is malformed or    *)
(* not for /stream ends its connection.                                    *)
(***************************************************************************)
EXTENDS Naturals, Sequences

CONSTANTS
    Conns,        \* connections
    MaxPipes,     \* bound on the screen pipelines started
    MaxSwitches,  \* bound on the source selections
    None

ASSUME LiveStreamAssumption ==
    /\ MaxPipes \in Nat /\ MaxSwitches \in Nat
    /\ None \notin 1..MaxPipes

Pipes   == 1..MaxPipes
Sources == {"Screen", "Other"}

ServerCommand == [op : {"SetSource"}, source : Sources] \cup [op : {"Attach"}, pipe : Pipes]

VARIABLES
    sup, screen, switches,        \* supervisor: its step, its bridge
    pipe,                         \* "Off", "Up", "Stopping" or "Down" for each pipeline
    commands, server_up, token,   \* ServerCommand channel; the task; Shutdown
    current, slot, generation,    \* active source, live_rx, generation watch
    conn,                         \* where each connection's task is
    source, seen, rx,             \* its source, the generation it knows, its receiver
    stalled                       \* its client reads no more

supervisor == <<sup, screen, switches>>
server     == <<server_up, current, slot, generation>>
conns      == <<conn, source, seen, rx, stalled>>
vars       == <<supervisor, pipe, commands, token, server, conns>>

Init ==
    /\ sup = "Idle" /\ screen = None /\ switches = 0
    /\ pipe = [p \in Pipes |-> "Off"]
    /\ commands = <<>> /\ server_up = TRUE /\ token = FALSE
    /\ current = None /\ slot = None /\ generation = 0
    /\ conn = [c \in Conns |-> "Idle"] /\ source = [c \in Conns |-> None]
    /\ seen = [c \in Conns |-> 0] /\ rx = [c \in Conns |-> None]
    /\ stalled = [c \in Conns |-> FALSE]

\* A command to a task that has ended is dropped with what it carries.
Send(c) == commands' = IF server_up THEN Append(commands, c) ELSE commands

\* The receiving end of pipeline p is somewhere.
RxOpen(p) == \/ slot = p
             \/ \E c \in Conns : rx[c] = p
             \/ \E i \in 1..Len(commands) : commands[i] = [op |-> "Attach", pipe |-> p]

-----------------------------------------------------------------------------
(* The supervisor.                                                         *)

\* SelectDisplay, up to the await of ScreenBridge::start.
KeepOld == UNCHANGED pipe
StopOld == pipe' = IF screen = None \/ pipe[screen] # "Up" THEN pipe
                   ELSE [pipe EXCEPT ![screen] = "Stopping"]

SelectDisplay ==
    /\ sup = "Idle" /\ ~token /\ switches < MaxSwitches
    /\ StopOld /\ screen' = None
    /\ Send([op |-> "SetSource", source |-> "Screen"])
    /\ sup' = "Starting" /\ switches' = switches + 1
    /\ UNCHANGED <<token, server, conns>>

\* start_pipeline attaches the receiving end, or fails without doing so.
BridgeStart ==
    /\ sup = "Starting" /\ sup' = "Idle"
    /\ \/ \E p \in Pipes :
             /\ pipe[p] = "Off" /\ \A q \in Pipes : q < p => pipe[q] # "Off"
             /\ pipe' = [pipe EXCEPT ![p] = "Up"] /\ screen' = p
             /\ Send([op |-> "Attach", pipe |-> p])
       \/ UNCHANGED <<pipe, screen, commands>>
    /\ UNCHANGED <<switches, token, server, conns>>

\* SelectFile, SelectUrl: the pipeline is left to notice by itself.
SelectOther ==
    /\ sup = "Idle" /\ ~token /\ switches < MaxSwitches
    /\ Send([op |-> "SetSource", source |-> "Other"]) /\ switches' = switches + 1
    /\ UNCHANGED <<sup, screen, pipe, token, server, conns>>

Trigger ==
    /\ ~token /\ token' = TRUE
    /\ UNCHANGED <<supervisor, pipe, commands, server, conns>>

-----------------------------------------------------------------------------
(* A screen pipeline, seen from its channel.                               *)

\* The encoder or the capture fails.
PipeFails(p) ==
    /\ pipe[p] = "Up" /\ pipe' = [pipe EXCEPT ![p] = "Stopping"]
    /\ UNCHANGED <<supervisor, commands, token, server, conns>>

\* forward_segment finds the receiving end gone.
PipeOrphaned(p) ==
    /\ pipe[p] = "Up" /\ ~RxOpen(p)
    /\ pipe' = [pipe EXCEPT ![p] = "Stopping"]
    /\ UNCHANGED <<supervisor, commands, token, server, conns>>

\* The forwarder ends and drops the sending end.
PipeEnds(p) ==
    /\ pipe[p] = "Stopping" /\ pipe' = [pipe EXCEPT ![p] = "Down"]
    /\ UNCHANGED <<supervisor, commands, token, server, conns>>

-----------------------------------------------------------------------------
(* The media-server task.                                                  *)

Take(op) ==
    /\ server_up /\ commands # <<>> /\ Head(commands).op = op
    /\ commands' = Tail(commands)

\* SetSource drops a live stream nobody has fetched.
SlotCleared == None

SetSource ==
    /\ Take("SetSource")
    /\ current' = Head(commands).source /\ slot' = SlotCleared
    /\ generation' = generation + 1
    /\ UNCHANGED <<supervisor, pipe, token, server_up, conns>>

AttachScreenStream ==
    /\ Take("Attach")
    /\ slot' = Head(commands).pipe /\ generation' = generation + 1
    /\ UNCHANGED <<supervisor, pipe, token, server_up, current, conns>>

\* The task ends and drops its channel; the connections, which share the
\* slot, go on for themselves.
ServerEnds ==
    /\ server_up /\ token
    /\ server_up' = FALSE /\ commands' = <<>>
    /\ UNCHANGED <<supervisor, pipe, token, current, slot, generation, conns>>

Accept(c) ==
    /\ server_up /\ conn[c] = "Idle"
    /\ conn' = [conn EXCEPT ![c] = "Head"]
    /\ source' = [source EXCEPT ![c] = current]
    /\ seen' = [seen EXCEPT ![c] = generation]
    /\ UNCHANGED <<supervisor, pipe, commands, token, server, rx, stalled>>

-----------------------------------------------------------------------------
(* The task of a connection.                                               *)

Finish(c) == /\ conn' = [conn EXCEPT ![c] = "Done"]
             /\ rx' = [rx EXCEPT ![c] = None]

\* read_request: the head arrives, is refused, or times out.
HeadRefused(c) ==
    /\ conn[c] = "Head" /\ Finish(c)
    /\ UNCHANGED <<supervisor, pipe, commands, token, server, source, seen, stalled>>

\* The generation a connection compares with is the one it was accepted in.
SubscribeLate(c) == seen' = [seen EXCEPT ![c] = generation]
Subscribed(c)    == UNCHANGED seen

HeadOther(c) ==
    /\ conn[c] = "Head" /\ source[c] = "Other"
    /\ conn' = [conn EXCEPT ![c] = "Serve"] /\ Subscribed(c)
    /\ UNCHANGED <<supervisor, pipe, commands, token, server, source, rx, stalled>>

\* A live stream has one consumer: whoever empties the slot.  The response
\* head is written before anything is received.
HeadScreen(c) ==
    /\ conn[c] = "Head" /\ source[c] = "Screen"
    /\ conn' = [conn EXCEPT ![c] = IF slot = None THEN "Done" ELSE "Write"]
    /\ rx' = [rx EXCEPT ![c] = slot] /\ slot' = None /\ Subscribed(c)
    /\ UNCHANGED <<supervisor, pipe, commands, token, server_up, current, generation, source,
                   stalled>>

\* changed() on the generation or on the shutdown watch.
SwitchSeen(c) == seen[c] # generation \/ token

\* local_file, url_proxy and smb_source are raced as a whole.
ServeEnds(c) ==
    /\ conn[c] = "Serve" /\ Finish(c)
    /\ UNCHANGED <<supervisor, pipe, commands, token, server, source, seen, stalled>>

ServeAborted(c) ==
    /\ conn[c] = "Serve" /\ SwitchSeen(c) /\ Finish(c)
    /\ UNCHANGED <<supervisor, pipe, commands, token, server, source, seen, stalled>>

\* serve_live_screen: of the ready branches of its select, any is taken.
AbortDrops(c) == UNCHANGED slot

LiveAborted(c) ==
    /\ conn[c] = "Live" /\ SwitchSeen(c)
    /\ Finish(c) /\ AbortDrops(c)
    /\ UNCHANGED <<supervisor, pipe, commands, token, server_up, current, generation, source,
                   seen, stalled>>

LiveChunk(c) ==
    /\ conn[c] = "Live" /\ pipe[rx[c]] # "Down"
    /\ conn' = [conn EXCEPT ![c] = "Write"]
    /\ UNCHANGED <<supervisor, pipe, commands, token, server, source, seen, rx, stalled>>

\* write_all and flush are awaited outside the select.
WriteDone(c) ==
    /\ conn[c] = "Write" /\ ~stalled[c]
    /\ conn' = [conn EXCEPT ![c] = "Live"]
    /\ UNCHANGED <<supervisor, pipe, commands, token, server, source, seen, rx, stalled>>

WriteFails(c) ==
    /\ conn[c] \in {"Write", "Tail"} /\ Finish(c)
    /\ UNCHANGED <<supervisor, pipe, commands, token, server, source, seen, stalled>>

\* The encoder's output has ended; the tail is flushed ...
LiveClosed(c) ==
    /\ conn[c] = "Live" /\ pipe[rx[c]] = "Down"
    /\ conn' = [conn EXCEPT ![c] = "Tail"]
    /\ UNCHANGED <<supervisor, pipe, commands, token, server, source, seen, rx, stalled>>

\* ... and the receiver goes back into the slot, whatever is there by now.
Recycle(c) ==
    /\ conn[c] = "Tail" /\ ~stalled[c]
    /\ slot' = rx[c] /\ Finish(c)
    /\ UNCHANGED <<supervisor, pipe, commands, token, server_up, current, generation, source,
                   seen, stalled>>

ClientStalls(c) ==
    /\ conn[c] \in {"Write", "Live"} /\ ~stalled[c]
    /\ stalled' = [stalled EXCEPT ![c] = TRUE]
    /\ UNCHANGED <<supervisor, pipe, commands, token, server, conn, source, seen, rx>>

-----------------------------------------------------------------------------

PipeStep(p) == PipeOrphaned(p) \/ PipeEnds(p)

ServerStep == SetSource \/ AttachScreenStream \/ ServerEnds

\* What a connection's task does by itself once its head is read.
ConnStep(c) == \/ ServeAborted(c) \/ LiveAborted(c) \/ LiveChunk(c) \/ WriteDone(c)
               \/ LiveClosed(c) \/ Recycle(c)

Next ==
    \/ SelectDisplay \/ BridgeStart \/ SelectOther \/ Trigger
    \/ ServerStep
    \/ \E p \in Pipes : PipeStep(p) \/ PipeFails(p)
    \/ \E c \in Conns : \/ Accept(c) \/ ConnStep(c)
                        \/ HeadRefused(c) \/ HeadOther(c) \/ HeadScreen(c)
                        \/ ServeEnds(c) \/ WriteFails(c) \/ ClientStalls(c)

Spec == Init /\ [][Next]_vars

\* Tokio runs every task that is ready, and its select picks among the ready
\* branches at random, so that one that stays ready is taken.  The head is
\* read or times out.  That a client reads its response is not assumed of one
\* that stalls.
FairSpec ==
    /\ Spec
    /\ WF_vars(BridgeStart) /\ WF_vars(ServerStep)
    /\ \A p \in Pipes : WF_vars(PipeStep(p))
    /\ \A c \in Conns : /\ WF_vars(ConnStep(c))
                        /\ SF_vars(LiveAborted(c))
                        /\ WF_vars(HeadRefused(c) \/ HeadOther(c) \/ HeadScreen(c))

-----------------------------------------------------------------------------
(* Properties.                                                             *)

\* Types of the supervisor's, the server's and the connections' state.
TypeOK ==
    /\ sup \in {"Idle", "Starting"} /\ screen \in Pipes \cup {None}
    /\ switches \in 0..MaxSwitches
    /\ pipe \in [Pipes -> {"Off", "Up", "Stopping", "Down"}]
    /\ commands \in Seq(ServerCommand) /\ server_up \in BOOLEAN /\ token \in BOOLEAN
    /\ current \in Sources \cup {None} /\ slot \in Pipes \cup {None}
    /\ generation \in 0..2 * MaxSwitches
    /\ conn \in [Conns -> {"Idle", "Head", "Serve", "Write", "Live", "Tail", "Done"}]
    /\ source \in [Conns -> Sources \cup {None}] /\ seen \in [Conns -> 0..2 * MaxSwitches]
    /\ rx \in [Conns -> Pipes \cup {None}]
    /\ stalled \in [Conns -> BOOLEAN]

\* The screen is offered only while it is the source: a receiver waiting in
\* the slot under another source belongs to a pipeline that has ended.
NoLiveLeftover ==
    slot # None /\ current # "Screen" => pipe[slot] = "Down"

\* Two pipelines never run for the server at once, except for one that has
\* been told to stop.
OneLivePipeline ==
    \A p, q \in Pipes : pipe[p] = "Up" /\ pipe[q] = "Up" => p = q

\* What holds of slot and pipelines through any order of switches (run,
\* handle_connection, SelectDisplay).
LiveInv == TypeOK /\ NoLiveLeftover /\ OneLivePipeline

\* "Switching the active source SHALL terminate any in-flight /stream
\* connection" (specs/04-media-proxy.md, 1.2): one that still serves a source
\* that is no longer active ends, unless its client has stopped reading (the
\* write is awaited outside the select).
Outdated(c) == conn[c] \in {"Serve", "Write", "Live", "Tail"} /\ source[c] # current

SwitchEndsConnections == \A c \in Conns : Outdated(c) ~> (conn[c] = "Done" \/ stalled[c])

\* Switching to a file or a URL ends the screen pipeline although nobody
\* stops it: slot and connections let go of the receiving end.
SwitchEndsPipeline ==
    \A p \in Pipes : (current = "Other" /\ pipe[p] = "Up")
                        ~> (pipe[p] = "Down" \/ current = "Screen" \/ \E c \in Conns : stalled[c])

\* A switch ends what served the old source, connections and pipeline.
SwitchEnds == SwitchEndsConnections /\ SwitchEndsPipeline

=============================================================================
