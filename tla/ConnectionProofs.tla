-------------------------- MODULE ConnectionProofs --------------------------
(***************************************************************************)
(* The connection task for any receivers, content, transports and retry    *)
(* policy: its safety, its refinement of ReceiverLink, what it tells the   *)
(* backend, and that no LOAD is lost; and the request ids of its sessions. *)
(***************************************************************************)
EXTENDS Connection, RequestId, SequenceTheorems, FiniteSetTheorems, FunctionTheorems, TLAPS

-----------------------------------------------------------------------------
(* The two shapes of the run state between handlers, and the types of the  *)
(* variables a handler leaves to the loop, the channels and the receivers. *)

Down ==
    /\ phase = "Disconnected" /\ device = None /\ transport = None
    /\ transport_id = None /\ session_id = None /\ pending_command = None
    /\ inbound = None /\ heartbeat = FALSE /\ watchdog = FALSE
    /\ open = {}

Up(d) ==
    /\ phase = "Connected" /\ device = d /\ transport \in Transports
    /\ transport_id = None /\ session_id = None /\ pending_command = None
    /\ inbound = transport /\ heartbeat = TRUE /\ watchdog = TRUE
    /\ open = {transport}

LoopTypes ==
    /\ pc \in {"Busy", "Parked", "Ended"} /\ armed \in BOOLEAN
    /\ commands \in Seq(Command) /\ senders \in BOOLEAN /\ token \in BOOLEAN

PeerTypes ==
    /\ reader \in [Transports -> {"Running", "Exited"}]
    /\ frames \in [Transports -> Seq(Frame)]
    /\ app \in [Devices -> Maybe(Apps)]
    /\ launch_req \subseteq Devices

PlanTypes ==
    desired \in Maybe(Devices) /\ reconnect \in Maybe(Devices) /\ backoff \in Nat /\ attempts \in Nat

\* The plan goes with having no session.
PlanDown ==
    /\ reconnect # None => reconnect = desired /\ attempts + backoff + 1 = MaxRetries
    /\ pc # "Ended" /\ desired # None => reconnect = desired

-----------------------------------------------------------------------------

LEMMA InitInv == Init => SessionInv
  <1> SUFFICES ASSUME Init PROVE SessionInv
    OBVIOUS
  <1> USE DEF Init
  <1>1. app \in [Devices -> Maybe(Apps)]
    BY DEF Maybe, Apps
  <1>2. reader \in [Transports -> {"Running", "Exited"}]
    OBVIOUS
  <1>3. frames \in [Transports -> Seq(Frame)]
    OBVIOUS
  <1>4. commands \in Seq(Command)
    OBVIOUS
  <1>5. TypeOK
    BY <1>1, <1>2, <1>3, <1>4 DEF TypeOK, Phases, Maybe
  <1>6. NoSessionIsEmpty /\ SessionMatchesSelection /\ LiveSessionIsWatched
    BY DEF NoSessionIsEmpty, SessionMatchesSelection, LiveSessionIsWatched, HasSession
  <1>7. NoTransportLeak /\ ReadyHasApp /\ QueuedLoadAwaitsLaunch /\ ReconnectBudget
    BY DEF NoTransportLeak, ReadyHasApp, QueuedLoadAwaitsLaunch, ReconnectBudget, HasSession
  <1> QED
    BY <1>5, <1>6, <1>7 DEF SessionInv

\* A state without session, whatever led to it.
LEMMA DownInv ==
  ASSUME Down', LoopTypes', PeerTypes', PlanTypes', PlanDown'
  PROVE  SessionInv'
  <1>1. TypeOK'
    BY DEF Down, LoopTypes, PeerTypes, PlanTypes, TypeOK, Phases, Maybe
  <1>2. (NoSessionIsEmpty /\ SessionMatchesSelection /\ LiveSessionIsWatched)'
    BY DEF Down, PlanDown, NoSessionIsEmpty, SessionMatchesSelection, LiveSessionIsWatched, HasSession
  <1>3. (NoTransportLeak /\ ReadyHasApp /\ QueuedLoadAwaitsLaunch /\ ReconnectBudget)'
    BY DEF Down, PlanDown, NoTransportLeak, ReadyHasApp, QueuedLoadAwaitsLaunch,
           ReconnectBudget, HasSession
  <1> QED
    BY <1>1, <1>2, <1>3 DEF SessionInv

\* A session just established.
LEMMA UpInv ==
  ASSUME NEW d \in Devices, Up(d)', LoopTypes', PeerTypes', PlanTypes', desired' = d, reconnect' = None
  PROVE  SessionInv'
  <1>0. d # None /\ transport' # None
    BY ConnectionAssumption DEF Up, ConnectionAssumption
  <1>1. TypeOK'
    BY DEF Up, LoopTypes, PeerTypes, PlanTypes, TypeOK, Phases, Maybe
  <1>2. (NoSessionIsEmpty /\ SessionMatchesSelection /\ LiveSessionIsWatched)'
    BY <1>0 DEF Up, NoSessionIsEmpty, SessionMatchesSelection, LiveSessionIsWatched, HasSession
  <1>3. (NoTransportLeak /\ ReadyHasApp /\ QueuedLoadAwaitsLaunch /\ ReconnectBudget)'
    BY DEF Up, NoTransportLeak, ReadyHasApp, QueuedLoadAwaitsLaunch, ReconnectBudget, HasSession
  <1> QED
    BY <1>1, <1>2, <1>3 DEF SessionInv

\* teardown_session leaves nothing of the session behind.
LEMMA CloseSessionDown ==
  ASSUME SessionInv, CloseSession
  PROVE  /\ Down'
         /\ reader' \in [Transports -> {"Running", "Exited"}]
         /\ frames' \in [Transports -> Seq(Frame)]
  <1> USE DEF SessionInv
  <1>1. CASE HasSession
    <2>1. frames' = [t \in Transports |-> IF t \in {transport} THEN <<>> ELSE frames[t]]
      BY <1>1 DEF CloseSession, DropChannels
    <2>2. frames' \in [Transports -> Seq(Frame)]
      BY <2>1 DEF TypeOK
    <2>3. open' = {}
      BY <1>1 DEF CloseSession, StillOpen, NoTransportLeak
    <2> QED
      BY <1>1, <2>2, <2>3 DEF CloseSession, DropLinks, TypeOK, Down
  <1>2. CASE ~HasSession
    <2>1. UNCHANGED <<session, links>>
      BY <1>2 DEF CloseSession
    <2>2. Down
      BY <1>2, ConnectionAssumption
         DEF HasSession, NoSessionIsEmpty, LiveSessionIsWatched, NoTransportLeak, TypeOK, Down,
             ConnectionAssumption
    <2> QED
      BY <2>1, <2>2 DEF session, links, TypeOK, Down
  <1> QED
    BY <1>1, <1>2

\* establish leaves one fresh session and closes what was open before.
LEMMA OpenSessionUp ==
  ASSUME SessionInv, NEW d \in Devices, OpenSession(d)
  PROVE  /\ Up(d)'
         /\ reader' \in [Transports -> {"Running", "Exited"}]
         /\ frames' \in [Transports -> Seq(Frame)]
  <1> USE DEF SessionInv
  <1>1. PICK t \in Transports : OpenSession(d)!(t)
    BY DEF OpenSession
  <1>2. frames' = [u \in Transports |-> IF u \in {transport, t} THEN <<>> ELSE frames[u]]
    BY <1>1 DEF DropChannels
  <1>3. frames' \in [Transports -> Seq(Frame)]
    BY <1>2 DEF TypeOK
  <1>4. open' = {t}
    BY <1>1 DEF StillOpen, NoTransportLeak
  <1>5. reader' \in [Transports -> {"Running", "Exited"}]
    BY <1>1 DEF TypeOK
  <1> QED
    BY <1>1, <1>3, <1>4, <1>5 DEF Up

\* A STOP_APP ends at most the application it names.
LEMMA AppsAfterStopType ==
  ASSUME SessionInv, NEW sid, app' \in AppsAfterStop(sid)
  PROVE  app' \in [Devices -> Maybe(Apps)]
  <1>1. app \in [Devices -> Maybe(Apps)]
    BY DEF SessionInv, TypeOK
  <1>2. app' = app \/ app' = [app EXCEPT ![device] = None]
    BY DEF AppsAfterStop
  <1> QED
    BY <1>1, <1>2 DEF Maybe

\* commands.recv() yields a command and leaves a queue of commands.
LEMMA RecvTypes ==
  ASSUME SessionInv, NEW op, Recv(op)
  PROVE  /\ Head(commands) \in Command /\ Head(commands).op = op
         /\ commands' \in Seq(Command) /\ senders' \in BOOLEAN /\ token' \in BOOLEAN
         /\ armed' \in BOOLEAN /\ pc = "Parked"
  <1>1. commands \in Seq(Command) /\ senders \in BOOLEAN /\ token \in BOOLEAN /\ armed \in BOOLEAN
    BY DEF SessionInv, TypeOK
  <1>2. commands # <<>> /\ commands' = Tail(commands)
    BY DEF Recv
  <1>3. Head(commands) \in Command /\ commands' \in Seq(Command)
    BY <1>1, <1>2
  <1> QED
    BY <1>1, <1>3 DEF Recv, Branch

\* connection_lost: no session, and a plan unless the policy is empty.
LEMMA ConnectionLostInv ==
  ASSUME SessionInv, NEW ph, NEW tid, NEW sid, NEW msgs, NEW evs,
         ConnectionLost(ph, tid, sid, msgs, evs), LoopTypes', HasSession
  PROVE  SessionInv'
  <1>1. Down' /\ PeerTypes'
    BY CloseSessionDown, AppsAfterStopType
       DEF ConnectionLost, PeerTypes, SessionInv, TypeOK
  <1>2. desired \in Devices /\ reconnect = None
    BY DEF SessionInv, SessionMatchesSelection, TypeOK, Maybe
  <1>3. PlanTypes' /\ PlanDown'
    BY <1>2, ConnectionAssumption
       DEF ConnectionLost, HasDelay, ScheduleReconnect, PlanTypes, PlanDown, SessionInv, TypeOK,
           Maybe, ConnectionAssumption, plan
  <1> QED
    BY <1>1, <1>3, DownInv

\* A handler that writes on a live session and moves it to an allowed phase.
LEMMA SendInv ==
  ASSUME SessionInv, HasSession, LoopTypes',
         NEW msg, NEW ph \in Phases \ {"Disconnected"}, NEW held \in Maybe(Media),
         ph \in {"Ready", "Streaming"} => phase \in {"Ready", "Streaming"},
         held # None => ph = "Launching",
         pc # "Ended",
         Send(msg, ph, held)
  PROVE  SessionInv'
  <1>1. CASE ConnectionLost(ph, transport_id, session_id, <<msg>>, <<>>)
    BY <1>1, ConnectionLostInv
  <1>2. CASE /\ phase' = ph /\ pending_command' = held
             /\ launch_req' = IF msg.type = "LAUNCH" THEN launch_req \cup {device} ELSE launch_req
             /\ UNCHANGED <<device, transport, transport_id, session_id, links, plan, app>>
    <2>0. device \in Devices
      BY DEF SessionInv, SessionMatchesSelection, TypeOK, Maybe
    <2>1. TypeOK'
      BY <1>2, <2>0 DEF SessionInv, TypeOK, LoopTypes, links, plan
    <2>2. (NoSessionIsEmpty /\ SessionMatchesSelection /\ LiveSessionIsWatched)'
      BY <1>2 DEF SessionInv, NoSessionIsEmpty, SessionMatchesSelection, LiveSessionIsWatched,
                  HasSession, links, plan
    <2>3. (NoTransportLeak /\ ReadyHasApp /\ QueuedLoadAwaitsLaunch /\ ReconnectBudget)'
      BY <1>2 DEF SessionInv, NoTransportLeak, ReadyHasApp, QueuedLoadAwaitsLaunch,
                  ReconnectBudget, HasSession, links, plan
    <2> QED
      BY <2>1, <2>2, <2>3 DEF SessionInv
  <1> QED
    BY <1>1, <1>2 DEF Send

\* CONNECT and LOAD on a session whose application is known.
LEMMA LoadMediaInv ==
  ASSUME SessionInv, HasSession, LoopTypes',
         NEW media, NEW ph, NEW tid \in Apps, NEW sid \in Apps, NEW evs,
         NEW popped \in [Transports -> Seq(Frame)],
         LoadMedia(media, ph, tid, sid, evs, popped)
  PROVE  SessionInv'
  <1> DEFINE con  == Msg("CONNECT", tid)
             load == [type |-> "LOAD", dest |-> tid, media |-> media]
  <1>1. CASE ConnectionLost(ph, tid, sid, <<con>>, evs)
    BY <1>1, ConnectionLostInv
  <1>2. CASE ConnectionLost("Streaming", tid, sid, <<con, load>>, evs)
    BY <1>2, ConnectionLostInv
  <1>3. CASE /\ phase' = "Streaming" /\ pending_command' = None
             /\ transport_id' = tid /\ session_id' = sid
             /\ frames' = popped
             /\ UNCHANGED <<device, transport, inbound, heartbeat, watchdog, open, reader,
                            plan, receiver>>
    <2>1. TypeOK'
      BY <1>3 DEF SessionInv, TypeOK, LoopTypes, Phases, Maybe, plan, receiver
    <2>2. (NoSessionIsEmpty /\ SessionMatchesSelection /\ LiveSessionIsWatched)'
      BY <1>3 DEF SessionInv, NoSessionIsEmpty, SessionMatchesSelection, LiveSessionIsWatched,
                  HasSession, plan
    <2>3. (NoTransportLeak /\ ReadyHasApp /\ QueuedLoadAwaitsLaunch /\ ReconnectBudget)'
      BY <1>3, ConnectionAssumption
         DEF SessionInv, NoTransportLeak, ReadyHasApp, QueuedLoadAwaitsLaunch,
             ReconnectBudget, HasSession, plan, ConnectionAssumption
    <2> QED
      BY <2>1, <2>2, <2>3 DEF SessionInv
  <1> HIDE DEF con, load
  <1> QED
    BY <1>1, <1>2, <1>3 DEF LoadMedia, con, load

-----------------------------------------------------------------------------
(* One lemma per group of actions.                                         *)

LEMMA SelectInv ==
  ASSUME SessionInv, NEW d \in Devices, Select(d)
  PROVE  SessionInv'
  <1>1. LoopTypes'
    BY RecvTypes DEF Select, Iterate, LoopTypes
  <1>2. app' \in [Devices -> Maybe(Apps)] /\ launch_req' \subseteq Devices
    BY AppsAfterStopType DEF Select, SessionInv, TypeOK
  <1>3. reconnect' = None /\ backoff' = 0 /\ attempts' = 0
    BY DEF Select, CancelReconnect
  <1>4. CASE OpenSession(d) /\ desired' = d
    <2>1. Up(d)' /\ PeerTypes'
      BY <1>2, <1>4, OpenSessionUp DEF PeerTypes
    <2>2. PlanTypes'
      BY <1>3, <1>4 DEF PlanTypes, Maybe
    <2> QED
      BY <1>1, <1>3, <1>4, <2>1, <2>2, UpInv
  <1>5. CASE CloseSession /\ desired' = None
    <2>1. Down' /\ PeerTypes'
      BY <1>2, <1>5, CloseSessionDown DEF PeerTypes
    <2>2. PlanTypes' /\ PlanDown'
      BY <1>3, <1>5 DEF PlanTypes, PlanDown, Maybe
    <2> QED
      BY <1>1, <2>1, <2>2, DownInv
  <1> QED
    BY <1>4, <1>5 DEF Select

\* A step that leaves session, links and plan alone.
LEMMA IdleInv ==
  ASSUME SessionInv, LoopTypes', PeerTypes', pc' = "Ended" \/ pc # "Ended",
         UNCHANGED <<phase, device, transport, transport_id, session_id, pending_command,
                     inbound, heartbeat, watchdog, open, plan>>
  PROVE  SessionInv'
  <1>1. TypeOK'
    BY DEF SessionInv, TypeOK, LoopTypes, PeerTypes, plan
  <1>2. (NoSessionIsEmpty /\ SessionMatchesSelection /\ LiveSessionIsWatched)'
    BY DEF SessionInv, NoSessionIsEmpty, SessionMatchesSelection, LiveSessionIsWatched,
           HasSession, plan
  <1>3. (NoTransportLeak /\ ReadyHasApp /\ QueuedLoadAwaitsLaunch /\ ReconnectBudget)'
    BY DEF SessionInv, NoTransportLeak, ReadyHasApp, QueuedLoadAwaitsLaunch, ReconnectBudget,
           HasSession, plan
  <1> QED
    BY <1>1, <1>2, <1>3 DEF SessionInv

\* Commands other than Select.
LEMMA CommandInv ==
  ASSUME SessionInv, HandleCommand
  PROVE  SessionInv'
  <1> USE DEF LoopTypes
  <1>1. ASSUME NEW d \in Devices, Select(d) PROVE SessionInv'
    BY <1>1, SelectInv
  <1>2. ASSUME NEW op \in SimpleOps \cup {"Load"}, IgnoreCommand(op) PROVE SessionInv'
    <2>1. LoopTypes' /\ pc # "Ended"
      BY <1>2, RecvTypes DEF IgnoreCommand, Iterate
    <2>2. UNCHANGED <<session, links, plan, receiver>>
      BY <1>2 DEF IgnoreCommand
    <2> QED
      BY <2>1, <2>2, IdleInv DEF session, links, plan, receiver, PeerTypes, SessionInv, TypeOK
  <1>3. CASE LaunchDefaultReceiver
    <2>1. LoopTypes' /\ pc # "Ended"
      BY <1>3, RecvTypes DEF LaunchDefaultReceiver, Iterate
    <2>2. HasSession /\ phase = "Connected" /\ pending_command \in Maybe(Media)
      BY <1>3 DEF LaunchDefaultReceiver, Accepts, HasSession, SessionInv, TypeOK
    <2>3. pending_command = None
      BY <2>2 DEF SessionInv, QueuedLoadAwaitsLaunch
    <2>4. Send(Msg("LAUNCH", "receiver-0"), "Launching", pending_command)
      BY <1>3 DEF LaunchDefaultReceiver
    <2> QED
      BY <2>1, <2>2, <2>3, <2>4, SendInv DEF Phases
  <1>4. CASE Load
    <2>1. LoopTypes' /\ pc # "Ended" /\ Head(commands) \in Command /\ Head(commands).op = "Load"
      BY <1>4, RecvTypes DEF Load, Iterate
    <2>2. Head(commands).arg \in Media
      BY <2>1 DEF Command, SimpleOps
    <2>3. HasSession
      BY <1>4 DEF Load, Accepts, HasSession
    <2>4. CASE phase = "Connected" /\ Send(Msg("LAUNCH", "receiver-0"), "Launching", Head(commands).arg)
      BY <2>1, <2>2, <2>3, <2>4, SendInv DEF Phases, Maybe
    <2>5. CASE /\ phase # "Connected"
               /\ LoadMedia(Head(commands).arg, phase, transport_id, session_id, <<>>, frames)
      <3>1. phase \in {"Ready", "Streaming"}
        BY <1>4, <2>5 DEF Load, Accepts
      <3>2. transport_id \in Apps /\ session_id \in Apps /\ frames \in [Transports -> Seq(Frame)]
        BY <3>1 DEF SessionInv, ReadyHasApp, TypeOK, Maybe
      <3> QED
        BY <2>1, <2>3, <2>5, <3>2, LoadMediaInv
    <2> QED
      BY <1>4, <2>4, <2>5 DEF Load
  <1>5. ASSUME NEW op \in {"Play", "Pause"}, PlayPause(op) PROVE SessionInv'
    <2>1. LoopTypes' /\ pc # "Ended"
      BY <1>5, RecvTypes DEF PlayPause, Iterate
    <2>2. phase \in {"Ready", "Streaming"} /\ HasSession
      BY <1>5 DEF PlayPause, Accepts, HasSession
    <2>3. pending_command = None
      BY <2>2 DEF SessionInv, QueuedLoadAwaitsLaunch
    <2>4. Send(Msg(op, transport_id), phase, pending_command)
      BY <1>5 DEF PlayPause
    <2> QED
      BY <2>1, <2>2, <2>3, <2>4, SendInv DEF Phases, Maybe
  <1>6. CASE Stop
    <2>1. LoopTypes' /\ pc # "Ended"
      BY <1>6, RecvTypes DEF Stop, Iterate
    <2>2. phase \in {"Ready", "Streaming"} /\ HasSession
      BY <1>6 DEF Stop, Accepts, HasSession
    <2>3. pending_command = None
      BY <2>2 DEF SessionInv, QueuedLoadAwaitsLaunch
    <2>4. Send(Msg("STOP", transport_id), "Ready", pending_command)
      BY <1>6 DEF Stop
    <2> QED
      BY <2>1, <2>2, <2>3, <2>4, SendInv DEF Phases, Maybe
  <1>7. ASSUME NEW op \in {"SetVolume", "GetStatus"}, SetVolumeGetStatus(op) PROVE SessionInv'
    <2>1. LoopTypes' /\ pc # "Ended"
      BY <1>7, RecvTypes DEF SetVolumeGetStatus, Iterate
    <2>2. HasSession
      BY <1>7 DEF SetVolumeGetStatus, Accepts
    <2>3. Send(Msg(op, "receiver-0"), phase, pending_command)
      BY <1>7 DEF SetVolumeGetStatus
    <2>4. /\ phase \in Phases \ {"Disconnected"} /\ pending_command \in Maybe(Media)
          /\ pending_command # None => phase = "Launching"
      BY <2>2 DEF SessionInv, TypeOK, QueuedLoadAwaitsLaunch, HasSession
    <2> QED
      BY <2>1, <2>2, <2>3, <2>4, SendInv
  <1>8. CASE Shutdown
    <2>1. LoopTypes' /\ pc' = "Ended"
      BY <1>8, RecvTypes DEF Shutdown, TeardownAndExit
    <2>2. Down' /\ PeerTypes'
      BY <1>8, CloseSessionDown, AppsAfterStopType
         DEF Shutdown, TeardownAndExit, PeerTypes, SessionInv, TypeOK
    <2>3. PlanTypes' /\ PlanDown'
      BY <1>8, <2>1 DEF Shutdown, TeardownAndExit, plan, PlanTypes, PlanDown, SessionInv,
                  TypeOK, SessionMatchesSelection, ReconnectBudget
    <2> QED
      BY <2>1, <2>2, <2>3, DownInv
  <1>9. CASE CommandsClosed
    <2>1. LoopTypes' /\ pc' = "Ended" /\ UNCHANGED <<session, links, plan, receiver>>
      BY <1>9 DEF CommandsClosed, Branch, inputs, SessionInv, TypeOK
    <2> QED
      BY <2>1, IdleInv DEF session, links, plan, receiver, PeerTypes, SessionInv, TypeOK
  <1> QED
    BY <1>1, <1>2, <1>3, <1>4, <1>5, <1>6, <1>7, <1>8, <1>9 DEF HandleCommand

\* A frame or the end of the reader.
LEMMA InboundInv ==
  ASSUME SessionInv, Inbound
  PROVE  SessionInv'
  <1>1. CASE InboundFrame
    <2> DEFINE f      == Head(frames[inbound])
               popped == [frames EXCEPT ![inbound] = Tail(@)]
               tid    == IF f.transportId # None THEN f.transportId ELSE transport_id
               sid    == IF f.sessionId # None THEN f.sessionId ELSE session_id
               ready  == /\ f.type = "RECEIVER_STATUS" /\ phase = "Launching"
                         /\ AppKnown(tid, sid)
               ph     == IF ready THEN "Ready" ELSE phase
               evs    == IF ready THEN <<Event("Ready", sid)>> ELSE <<>>
    <2>1. LoopTypes' /\ pc # "Ended"
      BY <1>1 DEF InboundFrame, Branch, Iterate, inputs, LoopTypes, SessionInv, TypeOK
    <2>2. inbound \in Transports /\ frames[inbound] \in Seq(Frame) /\ frames[inbound] # <<>>
      BY <1>1 DEF InboundFrame, SessionInv, TypeOK, Maybe
    <2>3. f \in Frame
      BY <2>2
    <2>4. popped \in [Transports -> Seq(Frame)]
      BY <2>2 DEF SessionInv, TypeOK
    <2>5. tid \in Maybe(Apps) /\ sid \in Maybe(Apps)
      BY <2>3 DEF Frame, SessionInv, TypeOK
    <2>6. HasSession
      BY <2>2, ConnectionAssumption DEF SessionInv, LiveSessionIsWatched, ConnectionAssumption
    <2>7. CASE DispatchDue(ph) /\ LoadMedia(pending_command, ph, tid, sid, evs, popped)
      <3>1. ready
        BY <2>7 DEF DispatchDue, SessionInv, QueuedLoadAwaitsLaunch
      <3>2. tid \in Apps /\ sid \in Apps
        BY <2>5, <3>1 DEF AppKnown, Maybe
      <3> HIDE DEF f, popped, tid, sid, ready, ph, evs
      <3> QED
        BY <2>1, <2>4, <2>6, <2>7, <3>2, LoadMediaInv
    <2>8. CASE /\ ~DispatchDue(ph)
               /\ phase' = ph /\ transport_id' = tid /\ session_id' = sid
               /\ frames' = popped
               /\ UNCHANGED <<device, transport, pending_command, inbound, heartbeat,
                              watchdog, open, reader, plan, receiver>>
      <3>1. ph \in Phases \ {"Disconnected"}
        BY <2>6 DEF SessionInv, TypeOK, Phases, HasSession
      <3>2. ph \in {"Ready", "Streaming"} => tid # None /\ sid # None
        BY DEF SessionInv, ReadyHasApp, AppKnown
      <3>3. pending_command # None => ph = "Launching"
        BY <2>6, <2>8 DEF DispatchDue, SessionInv, QueuedLoadAwaitsLaunch
      <3> HIDE DEF f, popped, tid, sid, ready, ph, evs
      <3>4. TypeOK'
        BY <2>1, <2>4, <2>5, <2>8, <3>1 DEF SessionInv, TypeOK, LoopTypes, plan, receiver
      <3>5. (NoSessionIsEmpty /\ SessionMatchesSelection /\ LiveSessionIsWatched)'
        BY <2>1, <2>6, <2>8, <3>1
           DEF SessionInv, NoSessionIsEmpty, SessionMatchesSelection, LiveSessionIsWatched,
               HasSession, plan
      <3>6. (NoTransportLeak /\ ReadyHasApp /\ QueuedLoadAwaitsLaunch /\ ReconnectBudget)'
        BY <2>6, <2>8, <3>1, <3>2, <3>3
           DEF SessionInv, NoTransportLeak, ReadyHasApp, QueuedLoadAwaitsLaunch,
               ReconnectBudget, HasSession, plan
      <3> QED
        BY <3>4, <3>5, <3>6 DEF SessionInv
    <2> QED
      BY <1>1, <2>6, <2>7, <2>8 DEF InboundFrame
  <1>2. CASE InboundExit
    <2>1. LoopTypes'
      BY <1>2 DEF InboundExit, Branch, Iterate, inputs, LoopTypes, SessionInv, TypeOK
    <2>2. HasSession
      BY <1>2 DEF InboundExit, SessionInv, LiveSessionIsWatched
    <2>3. ConnectionLost(phase, transport_id, session_id, <<>>, <<>>)
      BY <1>2, <2>2 DEF InboundExit
    <2> QED
      BY <2>1, <2>2, <2>3, ConnectionLostInv
  <1> QED
    BY <1>1, <1>2 DEF Inbound

\* The timers.
LEMMA TimerInv ==
  ASSUME SessionInv, Heartbeat \/ Watchdog
  PROVE  SessionInv'
  <1>1. CASE Heartbeat
    <2>1. LoopTypes' /\ pc # "Ended"
      BY <1>1 DEF Heartbeat, Branch, Iterate, inputs, LoopTypes, SessionInv, TypeOK
    <2>2. HasSession
      BY <1>1 DEF Heartbeat, SessionInv, LiveSessionIsWatched
    <2>3. Send(Msg("PING", "transport-0"), phase, pending_command)
      BY <1>1, <2>2 DEF Heartbeat
    <2>4. /\ phase \in Phases \ {"Disconnected"} /\ pending_command \in Maybe(Media)
          /\ pending_command # None => phase = "Launching"
      BY <2>2 DEF SessionInv, TypeOK, QueuedLoadAwaitsLaunch, HasSession
    <2> QED
      BY <2>1, <2>2, <2>3, <2>4, SendInv
  <1>2. CASE Watchdog
    <2>1. LoopTypes'
      BY <1>2 DEF Watchdog, Branch, Iterate, inputs, LoopTypes, SessionInv, TypeOK
    <2>2. HasSession
      BY <1>2 DEF Watchdog, SessionInv, LiveSessionIsWatched
    <2>3. ConnectionLost(phase, transport_id, session_id, <<>>, <<>>)
      BY <1>2, <2>2 DEF Watchdog
    <2> QED
      BY <2>1, <2>2, <2>3, ConnectionLostInv
  <1> QED
    BY <1>1, <1>2

\* A due reconnect.
LEMMA ReconnectInv ==
  ASSUME SessionInv, ReconnectDue
  PROVE  SessionInv'
  <1>1. CASE Reconnected
    <2>1. LoopTypes'
      BY <1>1 DEF Reconnected, Branch, Iterate, inputs, LoopTypes, SessionInv, TypeOK
    <2>2. PICK d \in Devices : d = reconnect /\ d = desired
      BY <1>1 DEF Reconnected, SessionInv, TypeOK, Maybe, SessionMatchesSelection
    <2>3. /\ OpenSession(d) /\ CancelReconnect /\ UNCHANGED <<desired, receiver>>
      BY <1>1, <2>2 DEF Reconnected
    <2>4. Up(d)' /\ PeerTypes'
      BY <2>3, OpenSessionUp DEF PeerTypes, receiver, SessionInv, TypeOK
    <2>5. PlanTypes' /\ desired' = d /\ reconnect' = None
      BY <2>2, <2>3 DEF PlanTypes, CancelReconnect, Maybe
    <2> QED
      BY <2>1, <2>4, <2>5, UpInv
  <1>2. CASE ReconnectFailed
    <2>1. LoopTypes' /\ pc' = "Busy"
      BY <1>2 DEF ReconnectFailed, Branch, Iterate, inputs, LoopTypes, SessionInv, TypeOK
    <2>2. ~HasSession /\ reconnect \in Devices /\ desired = reconnect
      BY <1>2 DEF ReconnectFailed, SessionInv, SessionMatchesSelection, TypeOK, Maybe
    <2>3. Down /\ UNCHANGED <<session, links, receiver>>
      BY <1>2, <2>2, ConnectionAssumption
         DEF ReconnectFailed, HasSession, SessionInv, NoSessionIsEmpty, LiveSessionIsWatched,
             NoTransportLeak, TypeOK, Down, ConnectionAssumption
    <2>4. Down' /\ PeerTypes'
      BY <2>3 DEF Down, PeerTypes, session, links, receiver, SessionInv, TypeOK
    <2>5. \/ /\ backoff > 0 /\ backoff' = backoff - 1 /\ attempts' = attempts + 1
             /\ UNCHANGED <<desired, reconnect>>
          \/ reconnect' = None /\ backoff' = 0 /\ attempts' = 0 /\ desired' = None
      BY <1>2 DEF ReconnectFailed, HasDelay, CancelReconnect
    <2>6. backoff \in Nat /\ attempts \in Nat /\ attempts + backoff + 1 = MaxRetries
      BY <2>2, ConnectionAssumption
         DEF SessionInv, TypeOK, ReconnectBudget, ConnectionAssumption
    <2>7. PlanTypes' /\ PlanDown'
      BY <2>2, <2>5, <2>6 DEF PlanTypes, PlanDown, Maybe
    <2> QED
      BY <2>1, <2>4, <2>7, DownInv
  <1> QED
    BY <1>1, <1>2 DEF ReconnectDue

\* The shutdown branch and the end of an iteration.
LEMMA LoopInv ==
  ASSUME SessionInv, ShutdownToken \/ LoopAgain
  PROVE  SessionInv'
  <1>1. CASE ShutdownToken
    <2>1. LoopTypes' /\ pc' = "Ended"
      BY <1>1 DEF ShutdownToken, TeardownAndExit, Branch, inputs, LoopTypes, SessionInv, TypeOK
    <2>2. Down' /\ PeerTypes'
      BY <1>1, CloseSessionDown, AppsAfterStopType
         DEF ShutdownToken, TeardownAndExit, PeerTypes, SessionInv, TypeOK
    <2>3. PlanTypes' /\ PlanDown'
      BY <1>1, <2>1 DEF ShutdownToken, TeardownAndExit, plan, PlanTypes, PlanDown, SessionInv,
                        TypeOK, SessionMatchesSelection, ReconnectBudget
    <2> QED
      BY <2>1, <2>2, <2>3, DownInv
  <1>2. CASE LoopAgain
    <2>1. LoopTypes' /\ pc # "Ended" /\ UNCHANGED <<session, links, plan, receiver>>
      BY <1>2 DEF LoopAgain, inputs, LoopTypes, SessionInv, TypeOK
    <2> QED
      BY <2>1, IdleInv DEF session, links, plan, receiver, PeerTypes, SessionInv, TypeOK
  <1> QED
    BY <1>1, <1>2

\* Readers, backend, token and receivers.
LEMMA EnvironmentInv ==
  ASSUME SessionInv, Environment
  PROVE  SessionInv'
  <1> USE DEF session, links, plan, control, inputs, receiver
  <1>0. LoopTypes /\ PeerTypes
    BY DEF LoopTypes, PeerTypes, SessionInv, TypeOK
  <1>1. ASSUME NEW t \in Transports, ReaderFrame(t) PROVE SessionInv'
    <2>1. app[device] \in Maybe(Apps)
      BY <1>1 DEF ReaderFrame, SessionInv, SessionMatchesSelection, TypeOK, Maybe
    <2>2. PICK f \in ReceiverFrames : frames' = [frames EXCEPT ![t] = Append(@, f)]
      BY <1>1 DEF ReaderFrame
    <2>3. f \in Frame
      BY <2>1, <2>2 DEF ReceiverFrames, Frame, Maybe
    <2>4. frames' \in [Transports -> Seq(Frame)]
      BY <1>0, <2>2, <2>3 DEF PeerTypes
    <2>5. PeerTypes' /\ LoopTypes'
      BY <1>0, <1>1, <2>4 DEF ReaderFrame, PeerTypes, LoopTypes
    <2> QED
      BY <1>1, <2>5, IdleInv DEF ReaderFrame
  <1>2. ASSUME NEW t \in Transports, ReaderExit(t) PROVE SessionInv'
    <2>1. Exit \in Frame
      BY DEF Exit, Frame, Maybe
    <2>2. frames' \in [Transports -> Seq(Frame)] /\ reader' \in [Transports -> {"Running", "Exited"}]
      BY <1>0, <1>2, <2>1 DEF ReaderExit, PeerTypes
    <2>3. PeerTypes' /\ LoopTypes'
      BY <1>0, <1>2, <2>2 DEF ReaderExit, PeerTypes, LoopTypes
    <2> QED
      BY <1>2, <2>3, IdleInv DEF ReaderExit
  <1>3. ASSUME NEW c \in Command, SendCommand(c) PROVE SessionInv'
    <2>1. commands' \in Seq(Command)
      BY <1>0, <1>3 DEF SendCommand, LoopTypes
    <2>2. PeerTypes' /\ LoopTypes'
      BY <1>0, <1>3, <2>1 DEF SendCommand, PeerTypes, LoopTypes
    <2> QED
      BY <1>3, <2>2, IdleInv DEF SendCommand
  <1>4. CASE DropSenders \/ TriggerToken
    <2>1. PeerTypes' /\ LoopTypes'
      BY <1>0, <1>4 DEF DropSenders, TriggerToken, PeerTypes, LoopTypes
    <2> QED
      BY <1>4, <2>1, IdleInv DEF DropSenders, TriggerToken
  <1>5. ASSUME NEW d \in Devices, ReceiverLaunches(d) \/ ReceiverRefuses(d) \/ OtherClient(d)
        PROVE  SessionInv'
    <2>1. FreeApps \subseteq Apps
      BY DEF FreeApps
    <2>2. \/ app' = app
          \/ \E a \in Maybe(Apps) : app' = [app EXCEPT ![d] = a]
      BY <1>5, <2>1 DEF ReceiverLaunches, ReceiverRefuses, OtherClient, Maybe
    <2>3. app' \in [Devices -> Maybe(Apps)]
      BY <1>0, <2>2 DEF PeerTypes
    <2>4. launch_req' \subseteq launch_req
      BY <1>5 DEF ReceiverLaunches, ReceiverRefuses, OtherClient
    <2>5. PeerTypes' /\ LoopTypes'
      BY <1>0, <1>5, <2>3, <2>4
         DEF ReceiverLaunches, ReceiverRefuses, OtherClient, PeerTypes, LoopTypes
    <2> QED
      BY <1>5, <2>5, IdleInv DEF ReceiverLaunches, ReceiverRefuses, OtherClient
  <1> QED
    BY <1>1, <1>2, <1>3, <1>4, <1>5 DEF Environment

\* A stuttering step.
LEMMA StutterInv ==
  ASSUME SessionInv, UNCHANGED vars
  PROVE  SessionInv'
  BY IdleInv
     DEF vars, session, links, plan, control, inputs, receiver, LoopTypes, PeerTypes, SessionInv, TypeOK

LEMMA NextInv == SessionInv /\ [Next]_vars => SessionInv'
  <1> SUFFICES ASSUME SessionInv, [Next]_vars PROVE SessionInv'
    OBVIOUS
  <1> QED
    BY CommandInv, InboundInv, TimerInv, ReconnectInv, LoopInv, EnvironmentInv, StutterInv
       DEF Next, Run

-----------------------------------------------------------------------------

\* The connection task keeps its session, its plan and its transports
\* consistent, for any number of receivers and any retry policy.
THEOREM SessionSafe == Spec => []SessionInv
  BY InitInv, NextInv, PTL DEF Spec

\* The variables hold values of the types the code declares.
THEOREM TypeCorrect == Spec => []TypeOK
  <1>1. SessionInv => TypeOK
    BY DEF SessionInv
  <1> QED
    BY <1>1, SessionSafe, PTL

\* A session is with the selected receiver; a selection without session has a
\* reconnect scheduled.
THEOREM SelectionKept == Spec => []SessionMatchesSelection
  <1>1. SessionInv => SessionMatchesSelection
    BY DEF SessionInv
  <1> QED
    BY <1>1, SessionSafe, PTL

\* Every transport but the session's is closed.
THEOREM NoLeak == Spec => []NoTransportLeak
  <1>1. SessionInv => NoTransportLeak
    BY DEF SessionInv
  <1> QED
    BY <1>1, SessionSafe, PTL

\* The expect in the LOAD path never panics.
THEOREM AppKnownWhenReady == Spec => []ReadyHasApp
  <1>1. SessionInv => ReadyHasApp
    BY DEF SessionInv
  <1> QED
    BY <1>1, SessionSafe, PTL

-----------------------------------------------------------------------------
(* Refinement: every step of the task is a step of ReceiverLink or leaves  *)
(* the link alone.                                                         *)

IsReady == phase \in {"Ready", "Streaming"}

\* The four ways a step shows at the level of the link.
LinkStays == UNCHANGED <<desired, device>> /\ IsReady' = IsReady /\ (pc' = "Ended") = (pc = "Ended")
LinkLost  == /\ pc # "Ended" /\ pc' # "Ended" /\ device # None /\ device' = None /\ ~IsReady'
             /\ desired' \in {desired, None}
LinkStep  == [Link!LinkNext]_(Link!linkVars)

LEMMA StaysIsStep ==
  ASSUME LinkStays
  PROVE  LinkStep
  BY DEF LinkStays, LinkStep, Link!linkVars, IsReady

LEMMA LostIsStep ==
  ASSUME LinkLost
  PROVE  LinkStep
  <1>1. Link!Lose
    BY DEF LinkLost, Link!Lose, IsReady
  <1> QED
    BY <1>1 DEF LinkStep, Link!LinkNext

LEMMA ConnectionLostStep ==
  ASSUME SessionInv, NEW ph, NEW tid, NEW sid, NEW msgs, NEW evs, HasSession, pc # "Ended", pc' # "Ended",
         ConnectionLost(ph, tid, sid, msgs, evs)
  PROVE  LinkStep
  <1>1. device # None /\ device' = None /\ phase' = "Disconnected"
    BY DEF ConnectionLost, CloseSession, SessionInv, SessionMatchesSelection
  <1>2. desired' \in {desired, None}
    BY DEF ConnectionLost, ScheduleReconnect, plan
  <1> QED
    BY <1>1, <1>2, LostIsStep DEF LinkLost, IsReady

LEMMA SendStep ==
  ASSUME SessionInv, NEW msg, NEW ph, NEW held, HasSession, pc # "Ended", pc' # "Ended",
         Send(msg, ph, held), (ph \in {"Ready", "Streaming"}) = IsReady
  PROVE  LinkStep
  <1>1. CASE ConnectionLost(ph, transport_id, session_id, <<msg>>, <<>>)
    BY <1>1, ConnectionLostStep
  <1>2. CASE phase' = ph /\ UNCHANGED <<device, plan>>
    BY <1>2, StaysIsStep DEF LinkStays, IsReady, plan
  <1> QED
    BY <1>1, <1>2 DEF Send

LEMMA LoadMediaStep ==
  ASSUME SessionInv, NEW media, NEW ph, NEW tid, NEW sid, NEW evs, NEW popped,
         HasSession, pc # "Ended", pc' # "Ended",
         LoadMedia(media, ph, tid, sid, evs, popped)
  PROVE  LinkStep
  <1> DEFINE con  == Msg("CONNECT", tid)
             load == [type |-> "LOAD", dest |-> tid, media |-> media]
  <1>1. CASE ConnectionLost(ph, tid, sid, <<con>>, evs)
    BY <1>1, ConnectionLostStep
  <1>2. CASE ConnectionLost("Streaming", tid, sid, <<con, load>>, evs)
    BY <1>2, ConnectionLostStep
  <1>3. CASE phase' = "Streaming" /\ UNCHANGED <<device, plan>>
    <2>1. CASE IsReady
      BY <1>3, <2>1, StaysIsStep DEF LinkStays, IsReady, plan
    <2>2. CASE ~IsReady
      <3>1. device # None
        BY DEF SessionInv, SessionMatchesSelection
      <3>2. Link!Launched
        BY <1>3, <2>2, <3>1 DEF Link!Launched, IsReady, plan
      <3> QED
        BY <3>2 DEF LinkStep, Link!LinkNext
    <2> QED
      BY <2>1, <2>2
  <1> QED
    BY <1>1, <1>2, <1>3 DEF LoadMedia

\* The end of the task.
LEMMA EndStep ==
  ASSUME SessionInv, CloseSession, pc # "Ended", pc' = "Ended", UNCHANGED plan
  PROVE  LinkStep
  <1>1. Down'
    BY CloseSessionDown
  <1>2. Link!End
    BY <1>1 DEF Link!End, Down, plan
  <1> QED
    BY <1>2 DEF LinkStep, Link!LinkNext

LEMMA CommandStep ==
  ASSUME SessionInv, HandleCommand
  PROVE  LinkStep
  <1> USE DEF IsReady
  <1>1. ASSUME NEW d \in Devices, Select(d) PROVE LinkStep
    <2>1. pc = "Parked" /\ pc' = "Busy"
      BY <1>1 DEF Select, Recv, Branch, Iterate
    <2>2. \E x \in {d, None} : desired' = x /\ device' = x
      <3>1. CASE OpenSession(d) /\ desired' = d
        BY <3>1, OpenSessionUp DEF Up
      <3>2. CASE CloseSession /\ desired' = None
        BY <3>2, CloseSessionDown DEF Down
      <3> QED
        BY <1>1, <3>1, <3>2 DEF Select
    <2>3. phase' \in {"Connected", "Disconnected"}
      <3>1. CASE OpenSession(d)
        BY <3>1, OpenSessionUp DEF Up
      <3>2. CASE CloseSession
        BY <3>2, CloseSessionDown DEF Down
      <3> QED
        BY <1>1, <3>1, <3>2 DEF Select
    <2>4. Link!Select(d)
      BY <2>1, <2>2, <2>3 DEF Link!Select
    <2> QED
      BY <2>4 DEF LinkStep, Link!LinkNext
  <1>2. ASSUME NEW op \in SimpleOps \cup {"Load"}, IgnoreCommand(op) PROVE LinkStep
    BY <1>2, StaysIsStep
       DEF IgnoreCommand, Recv, Branch, Iterate, LinkStays, session, plan
  <1>3. CASE LaunchDefaultReceiver
    BY <1>3, SendStep DEF LaunchDefaultReceiver, Recv, Branch, Iterate, Accepts, HasSession
  <1>4. CASE Load
    <2>1. HasSession /\ pc # "Ended" /\ pc' # "Ended"
      BY <1>4 DEF Load, Recv, Branch, Iterate, Accepts, HasSession
    <2>2. CASE phase = "Connected" /\ Send(Msg("LAUNCH", "receiver-0"), "Launching", Head(commands).arg)
      BY <2>1, <2>2, SendStep
    <2>3. CASE LoadMedia(Head(commands).arg, phase, transport_id, session_id, <<>>, frames)
      BY <2>1, <2>3, LoadMediaStep
    <2> QED
      BY <1>4, <2>2, <2>3 DEF Load
  <1>5. ASSUME NEW op \in {"Play", "Pause"}, PlayPause(op) PROVE LinkStep
    <2>1. HasSession /\ pc # "Ended" /\ pc' # "Ended" /\ Send(Msg(op, transport_id), phase, pending_command)
      BY <1>5 DEF PlayPause, Recv, Branch, Iterate, Accepts, HasSession
    <2> QED
      BY <2>1, SendStep
  <1>6. CASE Stop
    <2>1. HasSession /\ pc # "Ended" /\ pc' # "Ended" /\ IsReady /\ Send(Msg("STOP", transport_id), "Ready", pending_command)
      BY <1>6 DEF Stop, Recv, Branch, Iterate, Accepts, HasSession
    <2> QED
      BY <2>1, SendStep
  <1>7. ASSUME NEW op \in {"SetVolume", "GetStatus"}, SetVolumeGetStatus(op) PROVE LinkStep
    <2>1. HasSession /\ pc # "Ended" /\ pc' # "Ended" /\ Send(Msg(op, "receiver-0"), phase, pending_command)
      BY <1>7 DEF SetVolumeGetStatus, Recv, Branch, Iterate, Accepts
    <2> QED
      BY <2>1, SendStep
  <1>8. CASE Shutdown
    BY <1>8, EndStep DEF Shutdown, TeardownAndExit, Recv, Branch
  <1>9. CASE CommandsClosed
    <2>1. Link!End
      BY <1>9 DEF CommandsClosed, Branch, Link!End, session, plan
    <2> QED
      BY <2>1 DEF LinkStep, Link!LinkNext
  <1> QED
    BY <1>1, <1>2, <1>3, <1>4, <1>5, <1>6, <1>7, <1>8, <1>9 DEF HandleCommand

LEMMA EventStep ==
  ASSUME SessionInv, Inbound \/ Heartbeat \/ Watchdog
  PROVE  LinkStep
  <1>0. pc # "Ended" /\ pc' # "Ended" /\ HasSession
    BY DEF Inbound, InboundFrame, InboundExit, Heartbeat, Watchdog, Branch, Iterate,
           SessionInv, LiveSessionIsWatched
  <1>1. CASE InboundFrame
    <2> DEFINE f      == Head(frames[inbound])
               popped == [frames EXCEPT ![inbound] = Tail(@)]
               tid    == IF f.transportId # None THEN f.transportId ELSE transport_id
               sid    == IF f.sessionId # None THEN f.sessionId ELSE session_id
               ready  == /\ f.type = "RECEIVER_STATUS" /\ phase = "Launching"
                         /\ AppKnown(tid, sid)
               ph     == IF ready THEN "Ready" ELSE phase
               evs    == IF ready THEN <<Event("Ready", sid)>> ELSE <<>>
    <2>1. CASE LoadMedia(pending_command, ph, tid, sid, evs, popped)
      <3> HIDE DEF f, popped, tid, sid, ready, ph, evs
      <3> QED
        BY <1>0, <2>1, LoadMediaStep
    <2>2. CASE phase' = ph /\ UNCHANGED <<device, plan>>
      <3>1. CASE ready
        <4>1. phase' = "Ready" /\ phase = "Launching"
          BY <2>2, <3>1
        <4>2. device # None
          BY <1>0 DEF SessionInv, SessionMatchesSelection
        <4>3. Link!Launched
          BY <1>0, <2>2, <4>1, <4>2 DEF Link!Launched, plan
        <4> QED
          BY <4>3 DEF LinkStep, Link!LinkNext
      <3>2. CASE ~ready
        <4>1. phase' = phase
          BY <2>2, <3>2
        <4> HIDE DEF f, popped, tid, sid, ready, ph, evs
        <4> QED
          BY <1>0, <2>2, <4>1, StaysIsStep DEF LinkStays, IsReady, plan
      <3> QED
        BY <3>1, <3>2
    <2> QED
      BY <1>0, <1>1, <2>1, <2>2 DEF InboundFrame
  <1>2. CASE InboundExit
    BY <1>0, <1>2, ConnectionLostStep DEF InboundExit
  <1>3. CASE Heartbeat
    <2>1. Send(Msg("PING", "transport-0"), phase, pending_command)
      BY <1>0, <1>3 DEF Heartbeat
    <2> QED
      BY <1>0, <2>1, SendStep DEF IsReady
  <1>4. CASE Watchdog
    BY <1>0, <1>4, ConnectionLostStep DEF Watchdog
  <1> QED
    BY <1>1, <1>2, <1>3, <1>4 DEF Inbound

LEMMA ReconnectStep ==
  ASSUME SessionInv, ReconnectDue
  PROVE  LinkStep
  <1>0. /\ pc = "Parked" /\ pc' = "Busy" /\ reconnect \in Devices /\ desired = reconnect /\ reconnect # None
        /\ phase = "Disconnected" /\ device = None
    BY DEF ReconnectDue, Reconnected, ReconnectFailed, Branch, Iterate, SessionInv, TypeOK, Maybe,
           SessionMatchesSelection, HasSession, NoSessionIsEmpty
  <1>1. CASE Reconnected
    <2>1. Link!Reconnect
      BY <1>0, <1>1 DEF Reconnected, OpenSession, Link!Reconnect
    <2> QED
      BY <2>1 DEF LinkStep, Link!LinkNext
  <1>2. CASE ReconnectFailed
    <2>1. CASE desired' = desired
      BY <1>0, <1>2, <2>1, StaysIsStep DEF ReconnectFailed, LinkStays, IsReady, session
    <2>2. CASE desired' = None
      <3>1. Link!GiveUp
        BY <1>0, <1>2, <2>2 DEF ReconnectFailed, Link!GiveUp, session
      <3> QED
        BY <3>1 DEF LinkStep, Link!LinkNext
    <2> QED
      BY <1>2, <2>1, <2>2 DEF ReconnectFailed
  <1> QED
    BY <1>1, <1>2 DEF ReconnectDue

LEMMA OtherStep ==
  ASSUME SessionInv, ShutdownToken \/ LoopAgain \/ Environment \/ UNCHANGED vars
  PROVE  LinkStep
  <1>1. CASE ShutdownToken
    BY <1>1, EndStep DEF ShutdownToken, TeardownAndExit, Branch
  <1>2. CASE LoopAgain
    BY <1>2, StaysIsStep DEF LoopAgain, LinkStays, IsReady, session, plan
  <1>3. CASE Environment
    <2>1. UNCHANGED <<phase, device, plan, control>>
      BY <1>3 DEF Environment, ReaderFrame, ReaderExit, SendCommand, DropSenders, TriggerToken,
                  ReceiverLaunches, ReceiverRefuses, OtherClient, session
    <2> QED
      BY <2>1, StaysIsStep DEF LinkStays, IsReady, plan, control
  <1>4. CASE UNCHANGED vars
    BY <1>4, StaysIsStep DEF vars, session, plan, control, LinkStays, IsReady
  <1> QED
    BY <1>1, <1>2, <1>3, <1>4

\* The connection task implements the link it promises the backend: one link
\* at a time, to the receiver last selected, launched at most once, reconnected
\* to the same receiver or given up.
THEOREM TaskImplementsLink == Spec => ImplementsLink
  <1>1. Init => Link!LinkInit
    BY DEF Init, Link!LinkInit
  <1>2. SessionInv /\ [Next]_vars => [Link!LinkNext]_(Link!linkVars)
    <2> SUFFICES ASSUME SessionInv, [Next]_vars PROVE LinkStep
      BY DEF LinkStep
    <2> QED
      BY CommandStep, EventStep, ReconnectStep, OtherStep DEF Next, Run
  <1> QED
    BY <1>1, <1>2, SessionSafe, PTL DEF Spec, ImplementsLink, Link!LinkSpec

-----------------------------------------------------------------------------
(* What a handler tells the backend.                                       *)

Told == [ev : {"Connected", "Disconnected", "Ready", "Error", "CertificateMismatch", "ReconnectExhausted"},
         arg : Maybe(Devices) \cup Maybe(Apps) \cup Nat]

\* Nothing of s is wrong about the reconnect policy.
Spent(s) == \A i \in DOMAIN s : s[i].ev = "ReconnectExhausted" => s[i].arg = MaxRetries

\* Events that concern neither the session nor the policy.
Aside(s) == s \in Seq(Told) /\ Silent(s, "Connected") /\ Silent(s, "Disconnected") /\ Silent(s, "ReconnectExhausted")

LEMMA Joined ==
  ASSUME NEW s \in Seq(Told), NEW t \in Seq(Told)
  PROVE  /\ s \o t \in Seq(Told)
         /\ \A e : Silent(s, e) /\ Silent(t, e) => Silent(s \o t, e)
         /\ \A x : Once(s, x) /\ Silent(t, x.ev) => Once(s \o t, x)
         /\ \A x : Silent(s, x.ev) /\ Once(t, x) => Once(s \o t, x)
         /\ Spent(s) /\ Spent(t) => Spent(s \o t)
  <1>0. s \o t \in Seq(Told)
    OBVIOUS
  <1>1. /\ Len(s \o t) = Len(s) + Len(t) /\ Len(s) \in Nat /\ Len(t) \in Nat
        /\ DOMAIN s = 1..Len(s) /\ DOMAIN t = 1..Len(t) /\ DOMAIN (s \o t) = 1..(Len(s) + Len(t))
    OBVIOUS
  <1>2. \A i \in DOMAIN s : i \in DOMAIN (s \o t) /\ (s \o t)[i] = s[i]
    BY <1>1
  <1>3. \A i \in DOMAIN t : i + Len(s) \in DOMAIN (s \o t) /\ (s \o t)[i + Len(s)] = t[i]
    BY <1>1
  <1>4. \A i \in DOMAIN (s \o t) : i \in DOMAIN s \/ \E j \in DOMAIN t : i = j + Len(s)
    <2> SUFFICES ASSUME NEW i \in DOMAIN (s \o t), i \notin DOMAIN s
                 PROVE  \E j \in DOMAIN t : i = j + Len(s)
      OBVIOUS
    <2>1. i - Len(s) \in DOMAIN t /\ i = (i - Len(s)) + Len(s)
      BY <1>1
    <2> QED
      BY <2>1
  <1>5. \A i \in DOMAIN (s \o t) : \/ i \in DOMAIN s /\ (s \o t)[i] = s[i]
                                   \/ \E j \in DOMAIN t : i = j + Len(s) /\ (s \o t)[i] = t[j]
    BY <1>2, <1>3, <1>4
  <1> HIDE <1>4
  <1> DEFINE u == s \o t
  <1>6. \A e : Silent(s, e) /\ Silent(t, e) => Silent(u, e)
    BY <1>5 DEF Silent
  <1>7. ASSUME NEW x, Once(s, x), Silent(t, x.ev) PROVE Once(u, x)
    BY <1>2, <1>5, <1>7 DEF Silent, Once
  <1>8. ASSUME NEW x, Silent(s, x.ev), Once(t, x) PROVE Once(u, x)
    <2>1. PICK i \in DOMAIN t : t[i] = x /\ \A j \in DOMAIN t : t[j].ev = x.ev => j = i
      BY <1>8 DEF Once
    <2>2. \A j \in DOMAIN u : u[j].ev = x.ev => j = i + Len(s)
      BY <1>5, <1>8, <2>1 DEF Silent
    <2> QED
      BY <1>3, <2>1, <2>2 DEF Once
  <1>9. Spent(s) /\ Spent(t) => Spent(u)
    BY <1>5 DEF Spent
  <1> QED
    BY <1>0, <1>6, <1>7, <1>8, <1>9

LEMMA Single ==
  ASSUME NEW x \in Told
  PROVE  /\ <<x>> \in Seq(Told) /\ Once(<<x>>, x)
         /\ \A e : x.ev # e => Silent(<<x>>, e)
         /\ x.ev # "ReconnectExhausted" \/ x.arg = MaxRetries => Spent(<<x>>)
  <1>1. <<x>> \in Seq(Told) /\ DOMAIN <<x>> = {1} /\ <<x>>[1] = x
    OBVIOUS
  <1> QED
    BY <1>1 DEF Once, Silent, Spent

LEMMA Nothing == <<>> \in Seq(Told) /\ Spent(<<>>) /\ \A e : Silent(<<>>, e)
  <1>1. <<>> \in Seq(Told) /\ DOMAIN (<<>>) = {}
    OBVIOUS
  <1> QED
    BY <1>1 DEF Spent, Silent

LEMMA AsideSpent ==
  ASSUME NEW s, Aside(s)
  PROVE  Spent(s)
  BY DEF Aside, Spent, Silent

\* What EventsTellSession asks of a step, and that it is right about the policy.
TellsSession ==
    transport' # transport =>
         /\ IF HasSession THEN Once(emit', Event("Disconnected", device))
                          ELSE Silent(emit', "Disconnected")
         /\ IF transport' # None THEN Once(emit', Event("Connected", device'))
                                 ELSE Silent(emit', "Connected")
         /\ HasSession /\ transport' # None => emit'[Len(emit')].ev = "Connected"

Tells == Spent(emit') /\ TellsSession

\* A handler that keeps its transport and sends only asides.
LEMMA AsideTells ==
  ASSUME NEW evs, Aside(evs), emit' = evs, transport' = transport
  PROVE  Tells
  BY AsideSpent DEF Tells, TellsSession

LEMMA QuietTells ==
  ASSUME emit' = <<>>, transport' = transport
  PROVE  Tells
  BY Nothing DEF Tells, TellsSession

\* The events of teardown_session: Disconnected, if there was a session.
LEMMA TeardownTells ==
  ASSUME SessionInv
  PROVE  /\ TeardownEvents \in Seq(Told) /\ Spent(TeardownEvents) /\ Silent(TeardownEvents, "Connected")
         /\ IF HasSession THEN Once(TeardownEvents, Event("Disconnected", device))
                          ELSE Silent(TeardownEvents, "Disconnected")
  <1> DEFINE x == Event("Disconnected", device)
  <1>1. x \in Told /\ x.ev = "Disconnected"
    BY DEF Told, Event, SessionInv, TypeOK
  <1> HIDE DEF x
  <1>2. CASE HasSession
    <2>1. TeardownEvents = <<x>>
      BY <1>2 DEF TeardownEvents, x
    <2>2. /\ <<x>> \in Seq(Told) /\ Once(<<x>>, x)
          /\ Silent(<<x>>, "Connected") /\ Spent(<<x>>)
      BY <1>1, Single
    <2> QED
      BY <1>2, <2>1, <2>2 DEF x
  <1>3. CASE ~HasSession
    BY <1>3, Nothing DEF TeardownEvents
  <1> QED
    BY <1>2, <1>3

\* teardown_session ends the session and says so, between asides.
LEMMA TeardownBetween ==
  ASSUME SessionInv, CloseSession, NEW before, Aside(before), NEW after \in Seq(Told), Spent(after),
         Silent(after, "Connected"), Silent(after, "Disconnected"),
         emit' = before \o TeardownEvents \o after
  PROVE  Tells
  <1> DEFINE evs == before \o TeardownEvents
  <1>0. before \in Seq(Told) /\ Spent(before)
    BY AsideSpent DEF Aside
  <1>1. evs \in Seq(Told) /\ Spent(evs) /\ Silent(evs, "Connected")
    BY <1>0, Joined, TeardownTells DEF Aside
  <1>2. IF HasSession THEN Once(evs, Event("Disconnected", device)) ELSE Silent(evs, "Disconnected")
    <2>1. Silent(before, "Disconnected") /\ Event("Disconnected", device).ev = "Disconnected"
      BY DEF Aside, Event
    <2> QED
      BY <1>0, <2>1, Joined, TeardownTells
  <1>3. transport' = None
    BY CloseSessionDown DEF Down
  <1> HIDE DEF evs
  <1>4. Spent(emit') /\ Silent(emit', "Connected")
    BY <1>1, Joined DEF evs
  <1>5. IF HasSession THEN Once(emit', Event("Disconnected", device)) ELSE Silent(emit', "Disconnected")
    <2>1. Event("Disconnected", device).ev = "Disconnected"
      BY DEF Event
    <2> QED
      BY <1>1, <1>2, <2>1, Joined DEF evs
  <1> QED
    BY <1>3, <1>4, <1>5 DEF Tells, TellsSession

LEMMA LostTells ==
  ASSUME SessionInv, HasSession, NEW ph, NEW tid, NEW sid, NEW msgs, NEW evs, Aside(evs),
         ConnectionLost(ph, tid, sid, msgs, evs)
  PROVE  Tells
  <1>1. CloseSession
    BY DEF ConnectionLost
  <1>2. evs \o TeardownEvents \in Seq(Told)
    BY Joined, TeardownTells DEF Aside
  <1>3. CASE emit' = evs \o TeardownEvents
    <2>1. emit' = evs \o TeardownEvents \o <<>>
      BY <1>2, <1>3
    <2> QED
      BY <1>1, <2>1, Nothing, TeardownBetween
  <1>4. CASE emit' = evs \o TeardownEvents \o <<Event("ReconnectExhausted", 0)>> /\ ~HasDelay(MaxRetries)
    <2> DEFINE x == Event("ReconnectExhausted", 0)
    <2>1. x \in Told /\ x.ev = "ReconnectExhausted" /\ x.arg = MaxRetries
      BY <1>4, ConnectionAssumption DEF HasDelay, Event, Told
    <2> HIDE DEF x
    <2>2. <<x>> \in Seq(Told) /\ Spent(<<x>>) /\ Silent(<<x>>, "Connected") /\ Silent(<<x>>, "Disconnected")
      BY <2>1, Single
    <2>3. emit' = evs \o TeardownEvents \o <<x>>
      BY <1>4 DEF x
    <2> QED
      BY <1>1, <2>2, <2>3, TeardownBetween
  <1> QED
    BY <1>3, <1>4 DEF ConnectionLost

LEMMA NothingAside == Aside(<<>>)
  BY Nothing DEF Aside

LEMMA SendTells ==
  ASSUME SessionInv, HasSession, NEW msg, NEW ph, NEW held, Send(msg, ph, held)
  PROVE  Tells
  <1>1. CASE ConnectionLost(ph, transport_id, session_id, <<msg>>, <<>>)
    BY <1>1, LostTells, NothingAside
  <1>2. CASE emit' = <<>> /\ transport' = transport
    BY <1>2, QuietTells
  <1> QED
    BY <1>1, <1>2 DEF Send

LEMMA LoadMediaTells ==
  ASSUME SessionInv, HasSession, NEW media, NEW ph, NEW tid, NEW sid, NEW evs, Aside(evs), NEW popped,
         LoadMedia(media, ph, tid, sid, evs, popped)
  PROVE  Tells
  <1>1. ASSUME NEW p, NEW msgs, ConnectionLost(p, tid, sid, msgs, evs) PROVE Tells
    BY <1>1, LostTells
  <1>2. CASE emit' = evs /\ transport' = transport
    BY <1>2, AsideTells
  <1> QED
    BY <1>1, <1>2 DEF LoadMedia

LEMMA SingleAside ==
  ASSUME NEW x \in Told, x.ev \in {"Ready", "CertificateMismatch"}
  PROVE  Aside(<<x>>)
  <1>1. x.ev # "Connected" /\ x.ev # "Disconnected" /\ x.ev # "ReconnectExhausted"
    OBVIOUS
  <1>2. <<x>> \in Seq(Told) /\ \A e : x.ev # e => Silent(<<x>>, e)
    BY Single
  <1> QED
    BY <1>1, <1>2 DEF Aside

\* A certificate warning, or none.
LEMMA PinAside ==
  ASSUME NEW d \in Devices, NEW pin \in PinEvents(d)
  PROVE  Aside(pin)
  <1> DEFINE x == Event("CertificateMismatch", d)
  <1>1. x \in Told /\ x.ev = "CertificateMismatch"
    BY DEF Told, Event, Maybe
  <1>2. pin = <<>> \/ pin = <<x>>
    BY DEF PinEvents
  <1> HIDE DEF x
  <1> QED
    BY <1>1, <1>2, SingleAside, NothingAside

\* establish succeeded: Connected comes last, after a warning.
LEMMA OpenTells ==
  ASSUME SessionInv, NEW d \in Devices, NEW pin \in PinEvents(d), OpenSession(d),
         NEW evs \in Seq(Told), evs = TeardownEvents \o pin, emit' = evs \o <<Event("Connected", d)>>
  PROVE  Tells
  <1> DEFINE x == Event("Connected", d)
             y == Event("Disconnected", device)
  <1>1. x \in Told /\ x.ev = "Connected"
    BY DEF Told, Event, Maybe
  <1>2. Aside(pin) /\ pin \in Seq(Told) /\ Spent(pin)
    BY PinAside, AsideSpent DEF Aside
  <1>3. transport' # None /\ device' = d
    BY OpenSessionUp, ConnectionAssumption DEF Up
  <1>4. Spent(evs) /\ Silent(evs, "Connected")
    BY <1>2, Joined, TeardownTells DEF Aside
  <1>5. y.ev = "Disconnected"
    BY DEF Event
  <1> HIDE DEF x, y
  <1>6. IF HasSession THEN Once(evs, y) ELSE Silent(evs, "Disconnected")
    BY <1>2, <1>5, Joined, TeardownTells DEF Aside, y
  <1>7. emit' = evs \o <<x>>
    BY DEF x
  <1>8. <<x>> \in Seq(Told) /\ Once(<<x>>, x) /\ Silent(<<x>>, "Disconnected") /\ Spent(<<x>>)
    BY <1>1, Single
  <1>9. Spent(emit') /\ Once(emit', x)
    BY <1>1, <1>4, <1>7, <1>8, Joined
  <1>10. IF HasSession THEN Once(emit', y) ELSE Silent(emit', "Disconnected")
    BY <1>5, <1>6, <1>7, <1>8, Joined
  <1>11. emit'[Len(emit')] = x
    <2>1. Len(emit') = Len(evs) + 1 /\ Len(evs) \in Nat
      BY <1>7, <1>8
    <2>2. (evs \o <<x>>)[Len(evs) + 1] = x
      BY <1>8, <2>1
    <2> QED
      BY <1>7, <2>1, <2>2
  <1> QED
    BY <1>1, <1>3, <1>9, <1>10, <1>11 DEF Tells, TellsSession, x, y

LEMMA SelectTells ==
  ASSUME SessionInv, NEW d \in Devices, Select(d)
  PROVE  Tells
  <1>0. TeardownEvents \in Seq(Told)
    BY TeardownTells
  <1>1. ASSUME NEW pin \in PinEvents(d), OpenSession(d),
               emit' = TeardownEvents \o pin \o <<Event("Connected", d)>>
        PROVE  Tells
    <2>1. TeardownEvents \o pin \in Seq(Told)
      BY <1>0, PinAside DEF Aside
    <2> QED
      BY <1>1, <2>1, OpenTells
  <1>2. ASSUME NEW failed \in FailedEstablish(d), CloseSession,
               emit' = TeardownEvents \o failed.evs \o <<Event("Error", d)>>
        PROVE  Tells
    <2> DEFINE x == Event("Error", d)
               after == failed.evs \o <<x>>
    <2>1. Aside(failed.evs)
      BY PinAside, NothingAside DEF FailedEstablish
    <2>2. x \in Told /\ x.ev = "Error"
      BY DEF Told, Event, Maybe
    <2> HIDE DEF x
    <2>3. /\ <<x>> \in Seq(Told) /\ Spent(<<x>>)
          /\ Silent(<<x>>, "Connected") /\ Silent(<<x>>, "Disconnected")
      BY <2>2, Single
    <2>4. /\ after \in Seq(Told) /\ Spent(after)
          /\ Silent(after, "Connected") /\ Silent(after, "Disconnected")
      BY <2>1, <2>3, Joined, AsideSpent DEF Aside
    <2>5. emit' = <<>> \o TeardownEvents \o after
      <3>1. emit' = TeardownEvents \o failed.evs \o <<x>> /\ failed.evs \in Seq(Told)
        BY <1>2, <2>1 DEF x, Aside
      <3>2. emit' = TeardownEvents \o after
        <4>1. ASSUME NEW s \in Seq(Told), NEW t \in Seq(Told), NEW u \in Seq(Told)
              PROVE  (s \o t) \o u = s \o (t \o u)
          BY ConcatAssociative
        <4>2. (TeardownEvents \o failed.evs) \o <<x>> = TeardownEvents \o (failed.evs \o <<x>>)
          BY <1>0, <2>3, <3>1, <4>1
        <4> QED
          BY <3>1, <4>2
      <3>3. <<>> \o TeardownEvents = TeardownEvents
        BY <1>0
      <3> QED
        BY <3>2, <3>3
    <2> HIDE DEF after
    <2> QED
      BY <1>2, <2>4, <2>5, NothingAside, TeardownBetween
  <1> QED
    BY <1>1, <1>2 DEF Select

LEMMA ReconnectTells ==
  ASSUME SessionInv, ReconnectDue
  PROVE  Tells
  <1>0. reconnect \in Devices /\ ~HasSession
    BY DEF ReconnectDue, Reconnected, ReconnectFailed, SessionInv, TypeOK, Maybe, SessionMatchesSelection
  <1>1. CASE Reconnected
    <2>1. PICK pin \in PinEvents(reconnect) : emit' = pin \o <<Event("Connected", reconnect)>>
      BY <1>1 DEF Reconnected
    <2>2. pin \in Seq(Told)
      BY <1>0, PinAside DEF Aside
    <2>3. pin = TeardownEvents \o pin
      BY <1>0, <2>2 DEF TeardownEvents
    <2> QED
      BY <1>0, <1>1, <2>1, <2>2, <2>3, OpenTells DEF Reconnected
  <1>2. CASE ReconnectFailed
    <2>1. PICK failed \in FailedEstablish(reconnect) :
            \/ HasDelay(backoff) /\ emit' = failed.evs
            \/ ~HasDelay(backoff) /\ emit' = failed.evs \o <<Event("ReconnectExhausted", attempts + 1)>>
      BY <1>2 DEF ReconnectFailed
    <2>2. Aside(failed.evs) /\ transport' = transport
      BY <1>0, <1>2, PinAside, NothingAside DEF FailedEstablish, ReconnectFailed, session
    <2>3. CASE emit' = failed.evs
      BY <2>2, <2>3, AsideTells
    <2>4. CASE ~HasDelay(backoff) /\ emit' = failed.evs \o <<Event("ReconnectExhausted", attempts + 1)>>
      <3> DEFINE x == Event("ReconnectExhausted", attempts + 1)
      <3>1. attempts + backoff + 1 = MaxRetries /\ attempts \in Nat /\ backoff \in Nat
        BY <1>2 DEF ReconnectFailed, SessionInv, ReconnectBudget, TypeOK
      <3>2. attempts + 1 = MaxRetries
        BY <2>4, <3>1 DEF HasDelay
      <3>3. x \in Told /\ x.ev = "ReconnectExhausted" /\ x.arg = MaxRetries
        BY <3>1, <3>2 DEF Told, Event
      <3> HIDE DEF x
      <3>4. <<x>> \in Seq(Told) /\ Spent(<<x>>)
        BY <3>3, Single
      <3>5. emit' = failed.evs \o <<x>> /\ failed.evs \in Seq(Told) /\ Spent(failed.evs)
        BY <2>2, <2>4, AsideSpent DEF x, Aside
      <3>6. Spent(emit')
        BY <3>4, <3>5, Joined
      <3> QED
        BY <2>2, <3>6 DEF Tells, TellsSession
    <2> QED
      BY <2>1, <2>3, <2>4
  <1> QED
    BY <1>1, <1>2 DEF ReconnectDue

LEMMA InboundTells ==
  ASSUME SessionInv, Inbound
  PROVE  Tells
  <1>0. HasSession
    BY DEF Inbound, InboundFrame, InboundExit, SessionInv, LiveSessionIsWatched
  <1>1. CASE InboundFrame
    <2> DEFINE f   == Head(frames[inbound])
               tid == IF f.transportId # None THEN f.transportId ELSE transport_id
               sid == IF f.sessionId # None THEN f.sessionId ELSE session_id
    <2>1. f \in Frame
      BY <1>1 DEF InboundFrame, SessionInv, TypeOK, Maybe
    <2>2. sid \in Maybe(Apps)
      BY <2>1 DEF Frame, SessionInv, TypeOK
    <2> DEFINE popped == [frames EXCEPT ![inbound] = Tail(@)]
               ready  == f.type = "RECEIVER_STATUS" /\ phase = "Launching" /\ AppKnown(tid, sid)
               ph     == IF ready THEN "Ready" ELSE phase
               evs    == IF ready THEN <<Event("Ready", sid)>> ELSE <<>>
    <2>3. \/ LoadMedia(pending_command, ph, tid, sid, evs, popped)
          \/ emit' = evs /\ transport' = transport
      BY <1>0, <1>1 DEF InboundFrame
    <2>4. Aside(evs)
      <3> DEFINE x == Event("Ready", sid)
      <3>1. x \in Told /\ x.ev = "Ready" /\ (evs = <<>> \/ evs = <<x>>)
        BY <2>2 DEF Told, Event
      <3> HIDE DEF x, evs
      <3> QED
        BY <3>1, SingleAside, NothingAside
    <2> HIDE DEF tid, sid, popped, ph, evs
    <2> QED
      BY <1>0, <2>3, <2>4, LoadMediaTells, AsideTells
  <1>2. CASE InboundExit
    BY <1>0, <1>2, LostTells, NothingAside DEF InboundExit
  <1> QED
    BY <1>1, <1>2 DEF Inbound

LEMMA ExitTells ==
  ASSUME SessionInv, TeardownAndExit
  PROVE  Tells
  <1>1. TeardownEvents \in Seq(Told)
    BY TeardownTells
  <1>2. emit' = <<>> \o TeardownEvents \o <<>>
    BY <1>1 DEF TeardownAndExit
  <1> QED
    BY <1>2, Nothing, NothingAside, TeardownBetween DEF TeardownAndExit

LEMMA CommandTells ==
  ASSUME SessionInv, HandleCommand
  PROVE  Tells
  <1>1. ASSUME NEW op \in SimpleOps \cup {"Load"}, IgnoreCommand(op) PROVE Tells
    BY <1>1, QuietTells DEF IgnoreCommand, Quiet, session
  <1>2. CASE LaunchDefaultReceiver
    BY <1>2, SendTells DEF LaunchDefaultReceiver, Accepts, HasSession
  <1>3. CASE Load
    <2>1. HasSession
      BY <1>3 DEF Load, Accepts, HasSession
    <2> QED
      BY <1>3, <2>1, SendTells, LoadMediaTells, NothingAside DEF Load
  <1>4. ASSUME NEW op \in {"Play", "Pause"}, PlayPause(op) PROVE Tells
    BY <1>4, SendTells DEF PlayPause, Accepts, HasSession
  <1>5. CASE Stop
    BY <1>5, SendTells DEF Stop, Accepts, HasSession
  <1>6. ASSUME NEW op \in {"SetVolume", "GetStatus"}, SetVolumeGetStatus(op) PROVE Tells
    BY <1>6, SendTells DEF SetVolumeGetStatus, Accepts
  <1>7. CASE Shutdown \/ ShutdownToken
    BY <1>7, ExitTells DEF Shutdown, ShutdownToken
  <1>8. CASE CommandsClosed
    BY <1>8, QuietTells DEF CommandsClosed, Quiet, session
  <1> QED
    BY <1>1, <1>2, <1>3, <1>4, <1>5, <1>6, <1>7, <1>8, SelectTells DEF HandleCommand

\* No step of the task, and none of the others, tells the backend anything else.
LEMMA StepTells == SessionInv /\ ExhaustedAfterBudget /\ [Next]_vars => Tells
  <1> SUFFICES ASSUME SessionInv, ExhaustedAfterBudget, [Next]_vars PROVE Tells
    OBVIOUS
  <1>1. CASE Heartbeat \/ Watchdog
    <2>1. HasSession
      BY <1>1 DEF Heartbeat, Watchdog, SessionInv, LiveSessionIsWatched
    <2> QED
      BY <1>1, <2>1, SendTells, LostTells, NothingAside DEF Heartbeat, Watchdog
  <1>2. CASE ShutdownToken
    BY <1>2, ExitTells DEF ShutdownToken
  <1>3. CASE LoopAgain
    BY <1>3, QuietTells DEF LoopAgain, Quiet, session
  <1>4. CASE Environment \/ UNCHANGED vars
    <2>1. UNCHANGED <<emit, transport>>
      BY <1>4 DEF Environment, ReaderFrame, ReaderExit, SendCommand, DropSenders, TriggerToken,
                  ReceiverLaunches, ReceiverRefuses, OtherClient, vars, session
    <2> QED
      BY <2>1 DEF Tells, TellsSession, ExhaustedAfterBudget, Spent
  <1> QED
    BY <1>1, <1>2, <1>3, <1>4, CommandTells, InboundTells, ReconnectTells DEF Next, Run

\* ReconnectExhausted reports the whole policy, for every policy, also the one
\* without retries.
THEOREM ExhaustionIsEarned == Spec => []ExhaustedAfterBudget
  <1>1. Init => ExhaustedAfterBudget
    BY DEF Init, ExhaustedAfterBudget
  <1>2. SessionInv /\ ExhaustedAfterBudget /\ [Next]_vars => ExhaustedAfterBudget'
    BY StepTells DEF Tells, Spent, ExhaustedAfterBudget
  <1> QED
    BY <1>1, <1>2, SessionSafe, PTL DEF Spec

\* The backend is told of every session that ends and of every one that
\* begins, once and in this order.
THEOREM BackendIsTold == Spec => EventsTellSession
  <1>1. SessionInv /\ ExhaustedAfterBudget /\ [Next]_vars => [TellsSession]_vars
    BY StepTells DEF Tells
  <1> QED
    BY <1>1, SessionSafe, ExhaustionIsEarned, PTL DEF Spec, EventsTellSession, TellsSession

-----------------------------------------------------------------------------
(* What becomes of a LOAD.                                                 *)

TakesLoad == commands # <<>> /\ commands' = Tail(commands) /\ Head(commands).op = "Load"

KeepsLoad ==
    transport' = transport =>
         /\ TakesLoad /\ phase \notin {"Disconnected", "Launching"}
            => pending_command' = Head(commands).arg \/ Written(Head(commands).arg)
         /\ pending_command # None /\ pending_command' # pending_command
            => Written(pending_command)

\* A session that is closed or replaced takes its queue with it.
LEMMA ClosedKeepsLoad ==
  ASSUME SessionInv, HasSession, CloseSession
  PROVE  KeepsLoad
  BY CloseSessionDown DEF KeepsLoad, Down, SessionInv, LiveSessionIsWatched

LEMMA OpenedKeepsLoad ==
  ASSUME SessionInv, NEW d \in Devices, OpenSession(d)
  PROVE  KeepsLoad
  <1>1. transport' # transport
    <2>1. PICK t \in Transports : t \notin open /\ transport' = t
      BY DEF OpenSession
    <2> QED
      BY <2>1, ConnectionAssumption DEF SessionInv, LiveSessionIsWatched, NoTransportLeak
  <1> QED
    BY <1>1 DEF KeepsLoad

\* Steps that take no LOAD and leave the queue alone.
LEMMA IdleKeepsLoad ==
  ASSUME ~TakesLoad, pending_command' = pending_command
  PROVE  KeepsLoad
  BY DEF KeepsLoad

LEMMA CommandsStay ==
  ASSUME SessionInv, commands' = commands
  PROVE  ~TakesLoad
  <1>1. commands \in Seq(Command)
    BY DEF SessionInv, TypeOK
  <1>2. commands # <<>> => Len(Tail(commands)) # Len(commands)
    BY <1>1
  <1> QED
    BY <1>2 DEF TakesLoad

LEMMA LoadMediaKeepsLoad ==
  ASSUME SessionInv, HasSession, NEW media, NEW ph, NEW tid, NEW sid, NEW evs, NEW popped,
         LoadMedia(media, ph, tid, sid, evs, popped),
         TakesLoad => Head(commands).arg = media,
         pending_command # None => pending_command = media
  PROVE  KeepsLoad
  <1> DEFINE load == [type |-> "LOAD", dest |-> tid, media |-> media]
  <1>1. ASSUME NEW p, NEW msgs, ConnectionLost(p, tid, sid, msgs, evs) PROVE KeepsLoad
    BY <1>1, ClosedKeepsLoad DEF ConnectionLost
  <1>2. ASSUME NEW con, out' = <<con, load>> PROVE KeepsLoad
    <2>1. 2 \in DOMAIN out' /\ out'[2] = load
      BY <1>2
    <2>2. load.type = "LOAD" /\ load.media = media
      OBVIOUS
    <2> HIDE DEF load
    <2>3. Written(media)
      BY <2>1, <2>2 DEF Written
    <2> QED
      BY <2>3 DEF KeepsLoad
  <1> QED
    BY <1>1, <1>2 DEF LoadMedia

LEMMA SendKeepsLoad ==
  ASSUME SessionInv, HasSession, NEW msg, NEW ph, Send(msg, ph, pending_command), ~TakesLoad
  PROVE  KeepsLoad
  <1>1. CASE ConnectionLost(ph, transport_id, session_id, <<msg>>, <<>>)
    BY <1>1, ClosedKeepsLoad DEF ConnectionLost
  <1>2. CASE pending_command' = pending_command
    BY <1>2, IdleKeepsLoad
  <1> QED
    BY <1>1, <1>2 DEF Send

LEMMA CommandKeepsLoad ==
  ASSUME SessionInv, HandleCommand
  PROVE  KeepsLoad
  <1>0. ASSUME NEW op, Recv(op), op # "Load" PROVE ~TakesLoad
    BY <1>0 DEF Recv, TakesLoad
  <1>1. ASSUME NEW d \in Devices, Select(d) PROVE KeepsLoad
    <2>1. CASE OpenSession(d)
      BY <2>1, OpenedKeepsLoad
    <2>2. CASE CloseSession /\ HasSession
      BY <2>2, ClosedKeepsLoad
    <2>3. CASE CloseSession /\ ~HasSession
      <3>1. ~TakesLoad /\ pending_command' = pending_command
        BY <1>0, <1>1, <2>3 DEF Select, CloseSession, session
      <3> QED
        BY <3>1, IdleKeepsLoad
    <2> QED
      BY <1>1, <2>1, <2>2, <2>3 DEF Select
  <1>2. ASSUME NEW op \in SimpleOps \cup {"Load"}, IgnoreCommand(op) PROVE KeepsLoad
    <2>1. pending_command' = pending_command
      BY <1>2 DEF IgnoreCommand, session
    <2>2. TakesLoad => phase \in {"Disconnected", "Launching"}
      <3> SUFFICES ASSUME TakesLoad PROVE phase \in {"Disconnected", "Launching"}
        OBVIOUS
      <3>1. op = "Load"
        BY <1>0, <1>2 DEF IgnoreCommand
      <3> QED
        BY <1>2, <3>1 DEF IgnoreCommand, Accepts, SessionInv, TypeOK, Phases
    <2> QED
      BY <2>1, <2>2 DEF KeepsLoad
  <1>3. CASE LaunchDefaultReceiver
    BY <1>0, <1>3, SendKeepsLoad DEF LaunchDefaultReceiver, Accepts, HasSession
  <1>4. CASE Load
    <2>1. HasSession /\ phase \in {"Connected", "Ready", "Streaming"}
      BY <1>4 DEF Load, Accepts, HasSession
    <2>2. pending_command = None
      BY <2>1 DEF SessionInv, QueuedLoadAwaitsLaunch
    <2> DEFINE media == Head(commands).arg
               msg   == Msg("LAUNCH", "receiver-0")
    <2>3. CASE Send(msg, "Launching", media)
      <3>1. CASE ConnectionLost("Launching", transport_id, session_id, <<msg>>, <<>>)
        BY <2>1, <3>1, ClosedKeepsLoad DEF ConnectionLost
      <3>2. CASE pending_command' = media
        BY <2>2, <3>2 DEF KeepsLoad
      <3> QED
        BY <2>3, <3>1, <3>2 DEF Send
    <2>4. CASE LoadMedia(media, phase, transport_id, session_id, <<>>, frames)
      BY <2>1, <2>2, <2>4, LoadMediaKeepsLoad
    <2> QED
      BY <1>4, <2>3, <2>4 DEF Load
  <1>5. ASSUME NEW op \in {"Play", "Pause"}, PlayPause(op) PROVE KeepsLoad
    BY <1>0, <1>5, SendKeepsLoad DEF PlayPause, Accepts, HasSession
  <1>6. CASE Stop
    BY <1>0, <1>6, SendKeepsLoad DEF Stop, Accepts, HasSession
  <1>7. ASSUME NEW op \in {"SetVolume", "GetStatus"}, SetVolumeGetStatus(op) PROVE KeepsLoad
    BY <1>0, <1>7, SendKeepsLoad DEF SetVolumeGetStatus, Accepts
  <1>8. CASE Shutdown
    <2>1. CASE HasSession
      BY <1>8, <2>1, ClosedKeepsLoad DEF Shutdown, TeardownAndExit
    <2>2. CASE ~HasSession
      BY <1>0, <1>8, <2>2, IdleKeepsLoad DEF Shutdown, TeardownAndExit, CloseSession, session
    <2> QED
      BY <2>1, <2>2
  <1>9. CASE CommandsClosed
    BY <1>9, CommandsStay, IdleKeepsLoad DEF CommandsClosed, inputs, session
  <1> QED
    BY <1>1, <1>2, <1>3, <1>4, <1>5, <1>6, <1>7, <1>8, <1>9 DEF HandleCommand

LEMMA OtherKeepsLoad ==
  ASSUME SessionInv, Inbound \/ Heartbeat \/ Watchdog \/ ReconnectDue \/ ShutdownToken \/ LoopAgain
  PROVE  KeepsLoad
  <1>0. ~TakesLoad
    <2>1. commands' = commands
      BY DEF Inbound, InboundFrame, InboundExit, Heartbeat, Watchdog, ReconnectDue, Reconnected,
             ReconnectFailed, ShutdownToken, LoopAgain, inputs
    <2> QED
      BY <2>1, CommandsStay
  <1>1. CASE InboundFrame
    <2>1. HasSession
      BY <1>1 DEF InboundFrame, SessionInv, LiveSessionIsWatched
    <2>2. CASE pending_command' = pending_command
      BY <1>0, <2>2, IdleKeepsLoad
    <2>3. CASE pending_command' # pending_command
      <3>1. PICK ph, tid, sid, evs, popped : LoadMedia(pending_command, ph, tid, sid, evs, popped)
        BY <1>1, <2>3 DEF InboundFrame
      <3> QED
        BY <1>0, <2>1, <3>1, LoadMediaKeepsLoad
    <2> QED
      BY <2>2, <2>3
  <1>2. CASE InboundExit \/ Heartbeat \/ Watchdog
    <2>1. HasSession
      BY <1>2 DEF InboundExit, Heartbeat, Watchdog, SessionInv, LiveSessionIsWatched
    <2> QED
      BY <1>0, <1>2, <2>1, SendKeepsLoad, ClosedKeepsLoad DEF InboundExit, Heartbeat, Watchdog, ConnectionLost
  <1>3. CASE Reconnected
    <2>1. reconnect \in Devices
      BY <1>3 DEF Reconnected, SessionInv, TypeOK, Maybe
    <2> QED
      BY <1>3, <2>1, OpenedKeepsLoad DEF Reconnected
  <1>4. CASE ReconnectFailed \/ LoopAgain
    BY <1>0, <1>4, IdleKeepsLoad DEF ReconnectFailed, LoopAgain, session
  <1>5. CASE ShutdownToken
    <2>1. CASE HasSession
      BY <1>5, <2>1, ClosedKeepsLoad DEF ShutdownToken, TeardownAndExit
    <2>2. CASE ~HasSession
      BY <1>0, <1>5, <2>2, IdleKeepsLoad DEF ShutdownToken, TeardownAndExit, CloseSession, session
    <2> QED
      BY <2>1, <2>2
  <1> QED
    BY <1>1, <1>2, <1>3, <1>4, <1>5 DEF Inbound, ReconnectDue

LEMMA EnvironmentKeepsLoad ==
  ASSUME SessionInv, Environment \/ UNCHANGED vars
  PROVE  KeepsLoad
  <1>1. pending_command' = pending_command
    BY DEF Environment, ReaderFrame, ReaderExit, SendCommand, DropSenders, TriggerToken,
           ReceiverLaunches, ReceiverRefuses, OtherClient, vars, session
  <1>2. CASE commands' = commands
    BY <1>1, <1>2, CommandsStay, IdleKeepsLoad
  <1>3. ASSUME NEW c \in Command, commands' = Append(commands, c) PROVE KeepsLoad
    <2>1. commands \in Seq(Command)
      BY DEF SessionInv, TypeOK
    <2>2. commands # <<>> => Len(Tail(commands)) # Len(Append(commands, c))
      BY <2>1
    <2>3. ~TakesLoad
      BY <1>3, <2>2 DEF TakesLoad
    <2> QED
      BY <1>1, <2>3, IdleKeepsLoad
  <1> QED
    BY <1>2, <1>3 DEF Environment, ReaderFrame, ReaderExit, SendCommand, DropSenders, TriggerToken,
           ReceiverLaunches, ReceiverRefuses, OtherClient, vars, inputs

\* A LOAD the session accepts is written or queued, and a queued one is
\* written unless its transport goes first.
THEOREM LoadNotLost == Spec => LoadIsKept
  <1>1. SessionInv /\ [Next]_vars => [KeepsLoad]_vars
    BY CommandKeepsLoad, OtherKeepsLoad, EnvironmentKeepsLoad DEF Next, Run
  <1> QED
    BY <1>1, SessionSafe, PTL DEF Spec, LoadIsKept, KeepsLoad, TakesLoad

-----------------------------------------------------------------------------
(* The request ids of a session: in range, never shared, and mistaken for   *)
(* another's only after nearly a full round of the counter, for every size  *)
(* of the id space and every timeout.                                       *)

LEMMA IdsInit == IdInit => IdsOK
  BY RequestIdAssumption DEF IdInit, IdsOK, Ids, RequestIdAssumption

LEMMA IdsStep == IdsOK /\ [IdNext]_idVars => IdsOK'
  <1> SUFFICES ASSUME IdsOK, [IdNext]_idVars PROVE IdsOK'
    OBVIOUS
  <1> USE RequestIdAssumption DEF IdsOK, RequestIdAssumption
  <1>1. CASE Request
    <2>1. PICK i \in Ids :
            /\ next' = After(i)
            /\ age' = [age EXCEPT ![i] = 0]
            /\ owner' = [owner EXCEPT ![i] = serial + 1]
            /\ pending' = Unexpired(pending \cup {i}, age')
            /\ \E answered \in BOOLEAN :
                 replies' = IF answered THEN replies \cup {<<i, serial + 1>>} ELSE replies
      BY <1>1 DEF Request
    <2>2. serial' = serial + 1
      BY <1>1 DEF Request
    <2>3. next' \in Ids
      BY <2>1 DEF After, Ids
    <2>4. pending' \subseteq Ids
      BY <2>1 DEF Unexpired
    <2>5. age' \in [Ids -> Nat] /\ owner' \in [Ids -> Nat]
      BY <2>1
    <2>6. replies' \subseteq Ids \X Nat
      BY <2>1
    <2> QED
      BY <2>2, <2>3, <2>4, <2>5, <2>6
  <1>2. CASE Reply
    <2>1. pending' \subseteq pending /\ replies' \subseteq replies
      BY <1>2 DEF Reply, Unexpired
    <2> QED
      BY <1>2, <2>1 DEF Reply
  <1>3. CASE Reap
    BY <1>3 DEF Reap, Unexpired
  <1>4. CASE Tick
    <2>1. age' \in [Ids -> Nat]
      BY <1>4 DEF Tick
    <2> QED
      BY <1>4, <2>1 DEF Tick
  <1>5. CASE UNCHANGED idVars
    BY <1>5 DEF idVars
  <1> QED
    BY <1>1, <1>2, <1>3, <1>4, <1>5 DEF IdNext

\* Ids handed out stay in 1..u32::MAX: the wrap never yields 0.
THEOREM RequestIdType == IdSpec => []IdsOK
  BY IdsInit, IdsStep, PTL DEF IdSpec

\* allocate never hands out the id of an outstanding request.
LEMMA KeepsOwner == IdsOK /\ [IdNext]_idVars => [\A i \in pending : owner'[i] = owner[i]]_idVars
  <1> SUFFICES ASSUME IdsOK, IdNext, NEW i \in pending PROVE owner'[i] = owner[i]
    OBVIOUS
  <1>1. CASE Request
    <2>1. PICK j \in Ids : Allocates(j) /\ owner' = [owner EXCEPT ![j] = serial + 1]
      BY <1>1 DEF Request
    <2>2. i # j /\ i \in Ids
      BY <2>1 DEF Allocates, IdsOK
    <2> QED
      BY <2>1, <2>2 DEF IdsOK
  <1> QED
    BY <1>1 DEF IdNext, Reply, Reap, Tick

\* No request is given the id of one still outstanding, for every id space.
THEOREM NoReuse == IdSpec => NoReuseWhilePending
  BY RequestIdType, KeepsOwner, PTL DEF IdSpec, NoReuseWhilePending

-----------------------------------------------------------------------------
(* A full round.  Take a request s that was given id i.  Until i is given  *)
(* out again the counter passes every other id.  An id it passes is given  *)
(* to a request after s, or is skipped: then it is still outstanding, and  *)
(* was so when s was made, as its previous turn came before that of i.     *)
(* Fewer than MaxPending requests were outstanding then, so in the round   *)
(* all but that many ids have gone to requests after s.                    *)

\* The ids the counter has passed since it was just behind i.
Passed(i) == IF next > i THEN (i + 1)..(next - 1) ELSE ((i + 1)..MaxId) \cup (1..(next - 1))

\* P holds the requests that were outstanding when s was made, as far as they
\* still are, and the ids skipped since.
RoundSince(i, s, P) ==
    /\ Cardinality(P) < MaxPending
    /\ \A j \in pending : owner[j] < s => j \in P
    /\ \A j \in Passed(i) : owner[j] > s \/ j \in P

\* Serials are given out once; the round of every reply is under way or over.
Owners ==
    /\ \A i \in Ids : owner[i] <= serial
    /\ \A i, j \in Ids : owner[i] = owner[j] /\ owner[i] # 0 => i = j

Rounds ==
    \A r \in replies :
        /\ r[2] \in 1..serial
        /\ \/ owner[r[1]] = r[2] /\ \E P \in SUBSET Ids : RoundSince(r[1], r[2], P)
           \/ owner[r[1]] >= r[2] + MaxId - MaxPending + 1

RoundInv == IdsOK /\ Owners /\ Rounds

LEMMA RoundInit == IdInit => RoundInv
  <1>1. IdInit => Owners /\ Rounds
    BY DEF IdInit, Owners, Rounds
  <1> QED
    BY <1>1, IdsInit DEF RoundInv

LEMMA IdsFinite == IsFiniteSet(Ids) /\ Cardinality(Ids) = MaxId
  BY RequestIdAssumption, FS_Interval DEF Ids

\* Handing out j moves the counter over what it skips, and over j.
LEMMA CounterMoves ==
  ASSUME IdsOK, NEW i \in Ids, NEW j \in Ids, next' = After(j)
  PROVE  /\ i # j => Passed(i)' \subseteq Passed(i) \cup Skipped(j) \cup {j}
         /\ i = j => Passed(i)' = {} /\ Ids \subseteq Passed(i) \cup Skipped(i) \cup {i}
  <1> USE RequestIdAssumption DEF IdsOK, Ids, After, Passed, Skipped
  <1>1. next \in 1..MaxId /\ next' \in 1..MaxId
    OBVIOUS
  <1>2. ASSUME i # j, NEW k \in Passed(i)' PROVE k \in Passed(i) \cup Skipped(j) \cup {j}
    BY <1>1, <1>2
  <1>3. ASSUME i = j PROVE Passed(i)' = {}
    BY <1>1, <1>3
  <1>4. ASSUME i = j, NEW k \in Ids PROVE k \in Passed(i) \cup Skipped(i) \cup {i}
    BY <1>1, <1>4
  <1> QED
    BY <1>2, <1>3, <1>4

\* The pigeonhole: when every id but i has gone to a request after s or is
\* in P, at least MaxId - MaxPending requests were made after s.
LEMMA FullRound ==
  ASSUME IdsOK, Owners, NEW i \in Ids, NEW s \in 1..serial, NEW P \in SUBSET Ids,
         Cardinality(P) < MaxPending, \A j \in Ids \ {i} : owner[j] > s \/ j \in P
  PROVE  serial >= s + MaxId - MaxPending
  <1> DEFINE A == {j \in Ids \ {i} : owner[j] > s}
             f == [j \in A |-> owner[j]]
  <1>1. IsFiniteSet(A) /\ IsFiniteSet(P)
    BY IdsFinite, FS_Subset
  <1>2. IsFiniteSet((s + 1)..serial) /\ Cardinality((s + 1)..serial) = serial - s
    <2>1. s + 1 \in Int /\ serial \in Int /\ s <= serial /\ s \in Nat
      BY DEF IdsOK
    <2> QED
      BY <2>1, FS_Interval
  <1>3. f \in Injection(A, (s + 1)..serial)
    <2>1. f \in [A -> (s + 1)..serial]
      BY DEF IdsOK, Owners
    <2>2. \A j, k \in A : f[j] = f[k] => j = k
      BY DEF IdsOK, Owners
    <2> QED
      BY <2>1, <2>2, Fun_IsInj
  <1>4. Cardinality(A) <= serial - s
    BY <1>2, <1>3, FS_Injection
  <1>5. Ids \ {i} \subseteq A \cup P
    OBVIOUS
  <1>6. Cardinality(Ids \ {i}) = MaxId - 1
    BY IdsFinite, FS_RemoveElement
  <1>7. Cardinality(Ids \ {i}) <= Cardinality(A \cup P) /\ IsFiniteSet(A \cup P)
    BY <1>1, <1>5, FS_Union, FS_Subset
  <1>8. Cardinality(A \cup P) <= Cardinality(A) + Cardinality(P)
    <2>1. IsFiniteSet(A \cap P)
      BY <1>1, FS_Intersection
    <2>2. Cardinality(A \cap P) \in Nat /\ Cardinality(A) \in Nat /\ Cardinality(P) \in Nat
      BY <1>1, <2>1, FS_CardinalityType
    <2>3. Cardinality(A \cup P) = Cardinality(A) + Cardinality(P) - Cardinality(A \cap P)
      BY <1>1, FS_Union
    <2> HIDE DEF A
    <2> QED
      BY <2>2, <2>3
  <1>9. Cardinality(A) \in Nat /\ Cardinality(P) \in Nat /\ Cardinality(A \cup P) \in Nat
    BY <1>1, <1>7, FS_CardinalityType
  <1> HIDE DEF A
  <1> QED
    BY <1>4, <1>6, <1>7, <1>8, <1>9, RequestIdAssumption DEF IdsOK

\* The round of a reply goes on while its id is not given out again, ...
LEMMA RoundGoesOn ==
  ASSUME IdsOK, Owners, NEW i \in Ids, NEW s \in 1..serial, NEW P \in SUBSET Ids,
         RoundSince(i, s, P), NEW j \in Ids, j # i, Allocates(j), owner[i] = s,
         next' = After(j), owner' = [owner EXCEPT ![j] = serial + 1], pending' \subseteq pending \cup {j}
  PROVE  RoundSince(i, s, P)'
  <1>1. \A k \in Ids : owner'[k] = IF k = j THEN serial + 1 ELSE owner[k]
    BY DEF IdsOK
  <1>2. s \in Nat /\ serial \in Nat /\ s < serial + 1
    BY DEF IdsOK
  <1>3. ASSUME NEW k \in pending', owner'[k] < s PROVE k \in P
    BY <1>1, <1>2, <1>3 DEF RoundSince, IdsOK
  <1>4. ASSUME NEW k \in Passed(i)' PROVE owner'[k] > s \/ k \in P
    <2>1. k \in Passed(i) \cup Skipped(j) \cup {j}
      BY <1>4, CounterMoves
    <2>2. k \in Ids /\ k # i
      BY <1>4, RequestIdAssumption DEF Passed, Ids, IdsOK, After
    <2>3. CASE k = j
      BY <1>1, <1>2, <2>2, <2>3
    <2>4. CASE k # j /\ k \in Passed(i)
      BY <1>1, <2>2, <2>4 DEF RoundSince
    <2>5. CASE k # j /\ k \in Skipped(j)
      <3>1. k \in pending
        BY <2>5 DEF Allocates
      <3>2. owner[k] # s
        BY <1>2, <2>2 DEF Owners
      <3>3. owner[k] \in Nat
        BY <2>2 DEF IdsOK
      <3>4. owner[k] > s \/ owner[k] < s
        BY <1>2, <3>2, <3>3
      <3> QED
        BY <1>1, <2>2, <2>5, <3>1, <3>4 DEF RoundSince
    <2> QED
      BY <2>1, <2>3, <2>4, <2>5
  <1> QED
    BY <1>3, <1>4 DEF RoundSince

\* ... and is full when it is.
LEMMA RoundEnds ==
  ASSUME IdsOK, Owners, NEW i \in Ids, NEW s \in 1..serial, NEW P \in SUBSET Ids,
         RoundSince(i, s, P), Allocates(i), owner[i] = s, next' = After(i)
  PROVE  serial + 1 >= s + MaxId - MaxPending + 1
  <1>1. ASSUME NEW k \in Ids \ {i} PROVE owner[k] > s \/ k \in P
    <2>1. k \in Passed(i) \cup Skipped(i)
      BY <1>1, CounterMoves
    <2>2. CASE k \in Passed(i)
      BY <2>2 DEF RoundSince
    <2>3. CASE k \in Skipped(i)
      <3>1. k \in pending
        BY <2>3 DEF Allocates
      <3>2. owner[k] # s /\ owner[k] \in Nat /\ s \in Nat
        BY <1>1 DEF Owners, IdsOK
      <3>3. owner[k] > s \/ owner[k] < s
        BY <3>2
      <3> QED
        BY <3>1, <3>3 DEF RoundSince
    <2> QED
      BY <2>1, <2>2, <2>3
  <1>2. serial >= s + MaxId - MaxPending
    BY <1>1, FullRound DEF RoundSince
  <1> QED
    BY <1>2, RequestIdAssumption DEF IdsOK

LEMMA RequestRounds ==
  ASSUME RoundInv, IdsOK', Request
  PROVE  RoundInv'
  <1>1. PICK j \in Ids :
          /\ Allocates(j)
          /\ next' = After(j)
          /\ owner' = [owner EXCEPT ![j] = serial + 1]
          /\ pending' = Unexpired(pending \cup {j}, age')
          /\ \E answered \in BOOLEAN :
               replies' = IF answered THEN replies \cup {<<j, serial + 1>>} ELSE replies
    BY DEF Request
  <1>2. /\ serial' = serial + 1 /\ serial \in Nat
        /\ pending' \subseteq pending \cup {j}
        /\ replies' \subseteq replies \cup {<<j, serial + 1>>}
    BY <1>1 DEF Request, Unexpired, RoundInv, IdsOK
  <1>3. \A k \in Ids : owner'[k] = IF k = j THEN serial + 1 ELSE owner[k]
    BY <1>1 DEF RoundInv, IdsOK
  <1>4. Owners'
    BY <1>2, <1>3 DEF RoundInv, IdsOK, Owners
  <1>5. ASSUME NEW r \in replies
        PROVE  /\ r[2] \in 1..serial'
               /\ \/ owner'[r[1]] = r[2] /\ \E P \in SUBSET Ids : RoundSince(r[1], r[2], P)'
                  \/ owner'[r[1]] >= r[2] + MaxId - MaxPending + 1
    <2> DEFINE i == r[1]
               s == r[2]
    <2>1. i \in Ids /\ s \in 1..serial /\ s \in 1..serial' /\ s \in Nat /\ owner[i] \in Nat
      BY <1>2 DEF RoundInv, IdsOK, Rounds
    <2> HIDE DEF i, s
    <2>2. CASE owner[i] >= s + MaxId - MaxPending + 1
      <3>1. owner'[i] >= owner[i] /\ owner'[i] \in Nat
        BY <1>2, <1>3, <2>1 DEF RoundInv, Owners
      <3>2. owner'[i] >= s + MaxId - MaxPending + 1
        BY <2>1, <2>2, <3>1, RequestIdAssumption
      <3> QED
        BY <2>1, <3>2 DEF i, s
    <2>3. ASSUME owner[i] = s, NEW P \in SUBSET Ids, RoundSince(i, s, P)
          PROVE  \/ owner'[i] = s /\ RoundSince(i, s, P)'
                 \/ owner'[i] >= s + MaxId - MaxPending + 1
      <3>1. CASE i = j
        BY <1>1, <1>3, <2>1, <2>3, <3>1, RoundEnds DEF RoundInv
      <3>2. CASE i # j
        BY <1>1, <1>2, <1>3, <2>1, <2>3, <3>2, RoundGoesOn DEF RoundInv
      <3> QED
        BY <3>1, <3>2
    <2>4. \/ owner[i] = s /\ \E P \in SUBSET Ids : RoundSince(i, s, P)
          \/ owner[i] >= s + MaxId - MaxPending + 1
      BY DEF RoundInv, Rounds, i, s
    <2> QED
      BY <2>1, <2>2, <2>3, <2>4 DEF i, s
  <1>6. ASSUME NEW r \in replies', r = <<j, serial + 1>>
        PROVE  /\ r[2] \in 1..serial'
               /\ owner'[r[1]] = r[2] /\ \E P \in SUBSET Ids : RoundSince(r[1], r[2], P)'
    <2>1. r[1] = j /\ r[2] = serial + 1
      BY <1>6
    <2>2. Cardinality(pending) < MaxPending /\ pending \in SUBSET Ids
      BY DEF Request, RoundInv, IdsOK
    <2>3. Passed(j)' = {}
      BY <1>1, CounterMoves DEF RoundInv
    <2>4. \A k \in pending' : owner'[k] < serial + 1 => k \in pending
      BY <1>2, <1>3
    <2> QED
      BY <1>2, <1>3, <2>1, <2>2, <2>3, <2>4 DEF RoundSince
  <1>7. Rounds'
    BY <1>2, <1>5, <1>6 DEF Rounds
  <1> QED
    BY <1>4, <1>7 DEF RoundInv

LEMMA RoundStep == RoundInv /\ [IdNext]_idVars => RoundInv'
  <1> SUFFICES ASSUME RoundInv, [IdNext]_idVars PROVE RoundInv'
    OBVIOUS
  <1>1. IdsOK'
    BY IdsStep DEF RoundInv
  <1>2. CASE Request
    BY <1>1, <1>2, RequestRounds
  <1>3. CASE Reply \/ Reap \/ Tick \/ UNCHANGED idVars
    <2>1. UNCHANGED <<next, owner, serial>> /\ replies' \subseteq replies /\ pending' \subseteq pending
      BY <1>3 DEF Reply, Reap, Tick, Unexpired, idVars
    <2>2. \A i, s : \A P : RoundSince(i, s, P) => RoundSince(i, s, P)'
      BY <2>1 DEF RoundSince, Passed
    <2>3. Owners' /\ Rounds'
      BY <2>1, <2>2 DEF RoundInv, Owners, Rounds
    <2> QED
      BY <1>1, <2>3 DEF RoundInv
  <1> QED
    BY <1>2, <1>3 DEF IdNext

\* A reply is taken for a newer request's only if nearly the whole id space
\* was handed out in between: all of it but what can be outstanding at once.
THEOREM StaleRepliesAreFar == IdSpec => []MisattributionNeedsWrap
  <1>1. RoundInv => MisattributionNeedsWrap
    BY DEF RoundInv, Rounds, MisattributionNeedsWrap
  <1> QED
    BY <1>1, RoundInit, RoundStep, PTL DEF IdSpec

=============================================================================
