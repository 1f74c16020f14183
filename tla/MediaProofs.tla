----------------------------- MODULE MediaProofs -----------------------------
(***************************************************************************)
(* The media server: for any number of connections, pipelines and switches *)
(* the screen is offered only while it is the source and one pipeline runs *)
(* at a time; and for a resource of any size that changes while it is      *)
(* served, a response is what its head promised.                           *)
(***************************************************************************)
EXTENDS LiveStream, MediaBody, SequenceTheorems, TLAPS

-----------------------------------------------------------------------------
(* LiveStream.                                                             *)

\* What the supervisor runs is what it remembers, and it waits for a start
\* with nothing running.
Remembered ==
    /\ \A p \in Pipes : pipe[p] = "Up" => screen = p
    /\ sup = "Starting" => screen = None

\* Every selection brings the server two commands at most.
Counted == generation + Len(commands) + (IF sup = "Starting" THEN 1 ELSE 0) <= 2 * switches

\* A receiver is attached right after the screen has become the source: no
\* selection comes between the two commands of SelectDisplay.
ToScreen == [op |-> "SetSource", source |-> "Screen"]

AttachFollows ==
    /\ \A i \in 1..Len(commands) : commands[i].op = "Attach" =>
          IF i = 1 THEN current = "Screen" ELSE commands[i - 1] = ToScreen
    /\ (sup = "Starting" /\ server_up = TRUE) =>
          IF commands = <<>> THEN current = "Screen" ELSE commands[Len(commands)] = ToScreen

\* A live response has its receiver, and one whose input has ended that of a
\* pipeline that is gone.
Receiving ==
    \A c \in Conns :
        /\ conn[c] \in {"Write", "Live", "Tail"} => rx[c] \in Pipes
        /\ conn[c] = "Tail" => pipe[rx[c]] = "Down"

LiveIInv == TypeOK /\ NoLiveLeftover /\ Remembered /\ Counted /\ AttachFollows /\ Receiving

\* What a new command, or the end of a command, leaves of the channel.
LEMMA Appending ==
    ASSUME NEW s \in Seq(ServerCommand), NEW e \in ServerCommand
    PROVE  /\ Append(s, e) \in Seq(ServerCommand) /\ Len(Append(s, e)) = Len(s) + 1
           /\ \A i \in 1..Len(s) : Append(s, e)[i] = s[i]
           /\ Append(s, e)[Len(s) + 1] = e
           /\ Append(s, e) # <<>> /\ Len(s) \in Nat
  OBVIOUS

LEMMA Taking ==
    ASSUME NEW s \in Seq(ServerCommand), s # <<>>
    PROVE  /\ Tail(s) \in Seq(ServerCommand) /\ Len(Tail(s)) = Len(s) - 1
           /\ \A i \in 1..Len(Tail(s)) : Tail(s)[i] = s[i + 1]
           /\ Head(s) = s[1] /\ s[1] \in ServerCommand
           /\ Len(s) \in Nat /\ Len(s) >= 1 /\ (Tail(s) = <<>> <=> Len(s) = 1)
<1>1. Tail(s) \in Seq(ServerCommand) /\ Len(Tail(s)) = Len(s) - 1 /\ Len(s) \in Nat /\ Len(s) >= 1
  OBVIOUS
<1>2. \A i \in 1..Len(Tail(s)) : Tail(s)[i] = s[i + 1]
  OBVIOUS
<1>3. Head(s) = s[1] /\ s[1] \in ServerCommand
  OBVIOUS
<1>4. Tail(s) = <<>> <=> Len(Tail(s)) = 0
  BY <1>1, EmptySeq
<1> QED BY <1>1, <1>2, <1>3, <1>4

\* A command is one of the two kinds.
LEMMA CommandKinds ==
    ASSUME NEW e \in ServerCommand
    PROVE  /\ e.op \in {"SetSource", "Attach"}
           /\ e.op = "SetSource" => e.source \in Sources
           /\ e.op = "SetSource" /\ e.source = "Screen" => e = ToScreen
           /\ e.op = "Attach" => e.pipe \in Pipes
  BY DEF ServerCommand, ToScreen

LEMMA SelectingDisplay == LiveIInv /\ SelectDisplay => LiveIInv'
<1> SUFFICES ASSUME LiveIInv, SelectDisplay PROVE LiveIInv'
  OBVIOUS
<1> USE LiveStreamAssumption
<1>1. TypeOK /\ TypeOK'
  <2>1. ToScreen \in ServerCommand BY DEF ToScreen, ServerCommand, Sources
  <2>2. commands' \in Seq(ServerCommand)
    BY <2>1, Appending DEF LiveIInv, TypeOK, SelectDisplay, Send, ToScreen
  <2>3. pipe' \in [Pipes -> {"Off", "Up", "Stopping", "Down"}]
    BY DEF LiveIInv, TypeOK, SelectDisplay, StopOld
  <2> QED BY <2>2, <2>3 DEF LiveIInv, TypeOK, SelectDisplay, server, conns
<1>2. \A p \in Pipes : (pipe[p] = "Down" => pipe'[p] = "Down") /\ pipe'[p] # "Up"
  BY <1>1 DEF LiveIInv, TypeOK, SelectDisplay, StopOld, Remembered, Pipes
<1>3. NoLiveLeftover'
  BY <1>1, <1>2 DEF LiveIInv, TypeOK, NoLiveLeftover, SelectDisplay, server
<1>4. Remembered'
  BY <1>2 DEF Remembered, SelectDisplay
<1>5. ToScreen \in ServerCommand /\ ToScreen.op # "Attach"
  BY DEF ToScreen, ServerCommand, Sources
<1>6. CASE server_up = TRUE
  <2>1. commands' = Append(commands, ToScreen)
    BY <1>6 DEF SelectDisplay, Send, ToScreen
  <2>2. Counted'
    BY <1>1, <1>5, <2>1, Appending DEF LiveIInv, TypeOK, Counted, SelectDisplay, server
  <2>3. AttachFollows'
    BY <1>1, <1>5, <2>1, Appending DEF LiveIInv, TypeOK, AttachFollows, SelectDisplay, server
  <2>4. Receiving'
    BY <1>1, <1>2 DEF LiveIInv, TypeOK, Receiving, SelectDisplay, conns
  <2> QED BY <1>1, <1>3, <1>4, <2>2, <2>3, <2>4 DEF LiveIInv
<1>7. CASE server_up = FALSE
  <2>1. commands' = commands /\ server_up' = FALSE /\ Len(commands) \in Nat
    BY <1>1, <1>7 DEF SelectDisplay, Send, server, TypeOK
  <2>2. Counted'
    BY <1>1, <2>1 DEF LiveIInv, TypeOK, Counted, SelectDisplay, server
  <2>3. AttachFollows'
    BY <2>1 DEF LiveIInv, AttachFollows, SelectDisplay, server
  <2>4. Receiving'
    BY <1>1, <1>2 DEF LiveIInv, TypeOK, Receiving, SelectDisplay, conns
  <2> QED BY <1>1, <1>3, <1>4, <2>2, <2>3, <2>4 DEF LiveIInv
<1> QED BY <1>1, <1>6, <1>7 DEF TypeOK

LEMMA Starting == LiveIInv /\ BridgeStart => LiveIInv'
<1> SUFFICES ASSUME LiveIInv, BridgeStart PROVE LiveIInv'
  OBVIOUS
<1> USE LiveStreamAssumption
<1>1. TypeOK /\ sup = "Starting" /\ sup' = "Idle" /\ screen = None /\ Len(commands) \in Nat
      /\ UNCHANGED <<switches, token, server_up, current, slot, generation, conn, source, seen,
                     rx, stalled>>
  BY DEF LiveIInv, BridgeStart, Remembered, TypeOK, server, conns
<1>2. CASE UNCHANGED <<pipe, screen, commands>>
  <2>1. TypeOK' BY <1>1, <1>2 DEF TypeOK
  <2>2. NoLiveLeftover' /\ Remembered' /\ Receiving'
    BY <1>1, <1>2 DEF LiveIInv, NoLiveLeftover, Remembered, Receiving
  <2>3. Counted' /\ AttachFollows'
    BY <1>1, <1>2 DEF LiveIInv, TypeOK, Counted, AttachFollows
  <2> QED BY <2>1, <2>2, <2>3 DEF LiveIInv
<1>3. ASSUME NEW p \in Pipes, pipe[p] = "Off", pipe' = [pipe EXCEPT ![p] = "Up"], screen' = p,
             Send([op |-> "Attach", pipe |-> p])
      PROVE  LiveIInv'
  <2> DEFINE e == [op |-> "Attach", pipe |-> p]
  <2>1. e \in ServerCommand /\ e.op = "Attach" BY DEF ServerCommand
  <2>2. \A q \in Pipes : (pipe[q] = "Down" => pipe'[q] = "Down") /\ (pipe'[q] = "Up" => q = p)
    BY <1>1, <1>3 DEF LiveIInv, TypeOK, Remembered, Pipes
  <2>3. NoLiveLeftover' /\ Remembered' /\ Receiving'
    BY <1>1, <1>3, <2>2 DEF LiveIInv, TypeOK, NoLiveLeftover, Remembered, Receiving
  <2>4. commands' = Append(commands, e) \/ (server_up = FALSE /\ commands' = commands)
    BY <1>1, <1>3 DEF Send, TypeOK
  <2>5. TypeOK'
    <3>1. commands \in Seq(ServerCommand) BY <1>1 DEF TypeOK
    <3>2. commands' \in Seq(ServerCommand)
      <4> HIDE DEF e
      <4>1. Append(commands, e) \in Seq(ServerCommand) BY <2>1, <3>1, Appending
      <4> QED BY <2>4, <3>1, <4>1
    <3> QED BY <1>1, <1>3, <3>2 DEF TypeOK
  <2>6. Counted'
    BY <1>1, <2>1, <2>4, Appending DEF LiveIInv, TypeOK, Counted
  <2>7. AttachFollows'
    <3>1. CASE server_up = TRUE
      <4>1. commands' = Append(commands, e)
        BY <1>3, <3>1 DEF Send
      <4> HIDE DEF e
      <4>2. IF commands = <<>> THEN current = "Screen" ELSE commands[Len(commands)] = ToScreen
        BY <1>1, <3>1 DEF LiveIInv, AttachFollows
      <4>3. commands = <<>> <=> Len(commands) = 0
        BY <1>1 DEF TypeOK
      <4> QED BY <1>1, <2>1, <4>1, <4>2, <4>3, Appending DEF LiveIInv, TypeOK, AttachFollows
    <3>2. CASE server_up = FALSE
      BY <1>1, <1>3, <3>2 DEF Send, LiveIInv, AttachFollows
    <3> QED BY <1>1, <3>1, <3>2 DEF TypeOK
  <2> QED BY <2>3, <2>5, <2>6, <2>7 DEF LiveIInv
<1> QED BY <1>2, <1>3 DEF BridgeStart

LEMMA SelectingOther == LiveIInv /\ SelectOther => LiveIInv'
<1> SUFFICES ASSUME LiveIInv, SelectOther PROVE LiveIInv'
  OBVIOUS
<1> USE LiveStreamAssumption
<1> DEFINE e == [op |-> "SetSource", source |-> "Other"]
<1>1. TypeOK /\ sup = "Idle" /\ Len(commands) \in Nat /\ switches' = switches + 1
      /\ switches < MaxSwitches
      /\ UNCHANGED <<sup, screen, pipe, token, server_up, current, slot, generation, conn, source,
                     seen, rx, stalled>>
  BY DEF LiveIInv, SelectOther, TypeOK, server, conns
<1>2. e \in ServerCommand /\ e.op = "SetSource" BY DEF ServerCommand, Sources
<1>3. commands' = Append(commands, e) \/ commands' = commands
  BY DEF SelectOther, Send
<1> HIDE DEF e
<1>4. TypeOK'
  <2>1. commands' \in Seq(ServerCommand) BY <1>1, <1>2, <1>3, Appending DEF TypeOK
  <2> QED BY <1>1, <2>1 DEF TypeOK
<1>5. NoLiveLeftover' /\ Remembered' /\ Receiving'
  BY <1>1 DEF LiveIInv, NoLiveLeftover, Remembered, Receiving
<1>6. Counted' BY <1>1, <1>2, <1>3, Appending DEF LiveIInv, TypeOK, Counted
<1>7. AttachFollows'
  <2>1. CASE commands' = commands BY <1>1, <2>1 DEF LiveIInv, AttachFollows
  <2>2. CASE commands' = Append(commands, e)
    BY <1>1, <1>2, <2>2, Appending DEF LiveIInv, TypeOK, AttachFollows
  <2> QED BY <1>3, <2>1, <2>2
<1> QED BY <1>4, <1>5, <1>6, <1>7 DEF LiveIInv

LEMMA ServerStepping == LiveIInv /\ ServerStep => LiveIInv'
<1> SUFFICES ASSUME LiveIInv, ServerStep PROVE LiveIInv'
  OBVIOUS
<1> USE LiveStreamAssumption
<1>1. TypeOK /\ Len(commands) \in Nat
      /\ UNCHANGED <<sup, screen, switches, pipe, token, conn, source, seen, rx, stalled>>
  BY DEF LiveIInv, ServerStep, SetSource, AttachScreenStream, ServerEnds, TypeOK, supervisor,
         server, conns
<1>2. Remembered' /\ Receiving'
  BY <1>1 DEF LiveIInv, Remembered, Receiving
<1>3. CASE SetSource
  <2>1. /\ commands # <<>> /\ commands' = Tail(commands) /\ commands[1].op = "SetSource"
        /\ current' = commands[1].source /\ slot' = None /\ generation' = generation + 1
        /\ server_up' = server_up
    BY <1>1, <1>3, Taking DEF SetSource, Take, SlotCleared, TypeOK
  <2>2. commands[1] \in ServerCommand /\ commands[1].source \in Sources
        /\ (commands[1] = ToScreen => current' = "Screen")
    BY <1>1, <2>1, Taking, CommandKinds DEF TypeOK, ToScreen
  <2>3. TypeOK' /\ Counted'
    BY <1>1, <2>1, <2>2, Taking DEF LiveIInv, TypeOK, Counted
  <2>4. NoLiveLeftover' BY <2>1 DEF NoLiveLeftover
  <2>5. AttachFollows'
    <3>1. commands \in Seq(ServerCommand) BY <1>1 DEF TypeOK
    <3>2. /\ Len(commands') = Len(commands) - 1 /\ Len(commands) >= 1
          /\ \A i \in 1..Len(commands') : commands'[i] = commands[i + 1]
          /\ commands' = <<>> <=> Len(commands) = 1
      BY <2>1, <3>1, Taking
    <3>3. \A i \in 1..Len(commands) :
              commands[i].op = "Attach" => i = 1 \/ commands[i - 1] = ToScreen
      BY DEF LiveIInv, AttachFollows
    <3>4. ASSUME NEW i \in 1..Len(commands'), commands'[i].op = "Attach"
          PROVE  IF i = 1 THEN current' = "Screen" ELSE commands'[i - 1] = ToScreen
      <4>1. i \in Nat /\ i >= 1 /\ i + 1 \in 1..Len(commands) /\ i + 1 # 1 /\ (i + 1) - 1 = i
        BY <1>1, <3>2
      <4>2. commands[i] = ToScreen BY <3>2, <3>3, <3>4, <4>1
      <4>3. CASE i = 1 BY <2>2, <4>2, <4>3
      <4>4. CASE i # 1
        <5>1. i - 1 \in 1..Len(commands') /\ (i - 1) + 1 = i BY <1>1, <3>2, <4>1, <4>4
        <5> QED BY <3>2, <4>2, <4>4, <5>1
      <4> QED BY <4>3, <4>4
    <3>5. ASSUME sup' = "Starting", server_up' = TRUE
          PROVE  IF commands' = <<>> THEN current' = "Screen"
                 ELSE commands'[Len(commands')] = ToScreen
      <4>1. commands[Len(commands)] = ToScreen
        BY <1>1, <2>1, <3>5 DEF LiveIInv, AttachFollows
      <4>2. CASE commands' = <<>> BY <2>2, <3>2, <4>1, <4>2
      <4>3. CASE commands' # <<>>
        <5>1. Len(commands') \in 1..Len(commands') /\ Len(commands') + 1 = Len(commands)
          BY <1>1, <3>2, <4>3
        <5> QED BY <3>2, <4>1, <4>3, <5>1
      <4> QED BY <4>2, <4>3
    <3> QED BY <3>4, <3>5 DEF AttachFollows
  <2> QED BY <1>2, <2>3, <2>4, <2>5 DEF LiveIInv
<1>4. CASE AttachScreenStream
  <2>1. /\ commands # <<>> /\ commands' = Tail(commands) /\ commands[1].op = "Attach"
        /\ slot' = commands[1].pipe /\ generation' = generation + 1
        /\ server_up' = server_up /\ current' = current
    BY <1>1, <1>4, Taking DEF AttachScreenStream, Take, TypeOK
  <2>2. commands[1] \in ServerCommand /\ commands[1].pipe \in Pipes /\ commands[1] # ToScreen
    BY <1>1, <2>1, Taking, CommandKinds DEF TypeOK, ToScreen
  <2>3. TypeOK' /\ Counted'
    BY <1>1, <2>1, <2>2, Taking DEF LiveIInv, TypeOK, Counted
  <2>4. current = "Screen"
    BY <1>1, <2>1, Taking DEF LiveIInv, TypeOK, AttachFollows
  <2>5. NoLiveLeftover' BY <2>1, <2>4 DEF NoLiveLeftover
  <2>6. AttachFollows'
    BY <1>1, <2>1, <2>2, <2>4, Taking DEF LiveIInv, TypeOK, AttachFollows
  <2> QED BY <1>2, <2>3, <2>5, <2>6 DEF LiveIInv
<1>5. CASE ServerEnds
  <2>1. /\ server_up' = FALSE /\ commands' = <<>> /\ Len(commands') = 0
        /\ UNCHANGED <<current, slot, generation>>
    BY <1>5 DEF ServerEnds
  <2>2. TypeOK'
    <3>1. <<>> \in Seq(ServerCommand) OBVIOUS
    <3> QED BY <1>1, <2>1, <3>1 DEF TypeOK
  <2>3. Counted' BY <1>1, <2>1 DEF LiveIInv, TypeOK, Counted
  <2>4. NoLiveLeftover' BY <1>1, <2>1 DEF LiveIInv, NoLiveLeftover
  <2>5. AttachFollows' BY <2>1 DEF AttachFollows
  <2> QED BY <1>2, <2>2, <2>3, <2>4, <2>5 DEF LiveIInv
<1> QED BY <1>3, <1>4, <1>5 DEF ServerStep

\* Neither a pipeline nor a connection touches the channel or the supervisor.
LEMMA Bystanders ==
    LiveIInv /\ UNCHANGED <<sup, screen, switches, commands, server_up, current, generation>>
    /\ (\A p \in Pipes : pipe'[p] = "Up" => pipe[p] = "Up")
        => Remembered' /\ Counted' /\ AttachFollows'
<1> SUFFICES ASSUME LiveIInv,
                    UNCHANGED <<sup, screen, switches, commands, server_up, current, generation>>,
                    \A p \in Pipes : pipe'[p] = "Up" => pipe[p] = "Up"
             PROVE  Remembered' /\ Counted' /\ AttachFollows'
  OBVIOUS
<1>1. Remembered' BY DEF LiveIInv, Remembered
<1>2. Counted' BY DEF LiveIInv, Counted
<1>3. AttachFollows' BY DEF LiveIInv, AttachFollows
<1> QED BY <1>1, <1>2, <1>3

LEMMA PipeStepping ==
    \A p \in Pipes : LiveIInv /\ (PipeStep(p) \/ PipeFails(p)) => LiveIInv'
<1> SUFFICES ASSUME NEW p \in Pipes, LiveIInv, PipeStep(p) \/ PipeFails(p) PROVE LiveIInv'
  OBVIOUS
<1>1. /\ UNCHANGED <<sup, screen, switches, commands, server_up, current, generation, slot, token,
                     conn, source, seen, rx, stalled>>
      /\ \E s \in {"Stopping", "Down"} : pipe' = [pipe EXCEPT ![p] = s]
      /\ pipe[p] # "Down"
  BY DEF PipeStep, PipeFails, PipeOrphaned, PipeEnds, supervisor, server, conns
<1>2. TypeOK' BY <1>1 DEF LiveIInv, TypeOK
<1>3. \A q \in Pipes : (pipe'[q] = "Up" => pipe[q] = "Up")
                      /\ (pipe[q] = "Down" => pipe'[q] = "Down")
  BY <1>1 DEF LiveIInv, TypeOK
<1>4. Remembered' /\ Counted' /\ AttachFollows' BY <1>1, <1>3, Bystanders
<1>5. NoLiveLeftover' BY <1>1, <1>3 DEF LiveIInv, TypeOK, NoLiveLeftover
<1>6. Receiving' BY <1>1, <1>3 DEF LiveIInv, TypeOK, Receiving
<1> QED BY <1>2, <1>4, <1>5, <1>6 DEF LiveIInv

LEMMA ConnStepping ==
    \A c \in Conns :
        LiveIInv /\ (\/ Accept(c) \/ ConnStep(c) \/ HeadRefused(c) \/ HeadOther(c)
                     \/ HeadScreen(c) \/ ServeEnds(c) \/ WriteFails(c) \/ ClientStalls(c))
            => LiveIInv'
<1> SUFFICES ASSUME NEW c \in Conns, LiveIInv,
                    \/ Accept(c) \/ ConnStep(c) \/ HeadRefused(c) \/ HeadOther(c)
                    \/ HeadScreen(c) \/ ServeEnds(c) \/ WriteFails(c) \/ ClientStalls(c)
             PROVE  LiveIInv'
  OBVIOUS
<1> USE LiveStreamAssumption
<1>1. UNCHANGED <<sup, screen, switches, commands, server_up, current, generation, token, pipe>>
  BY DEF Accept, ConnStep, HeadRefused, HeadOther, HeadScreen, ServeEnds, WriteFails, ClientStalls,
         ServeAborted, LiveAborted, LiveChunk, WriteDone, LiveClosed, Recycle, supervisor, server
<1>2. Remembered' /\ Counted' /\ AttachFollows' BY <1>1, Bystanders
<1>3. ASSUME TypeOK', NoLiveLeftover', Receiving' PROVE LiveIInv'
  BY <1>2, <1>3 DEF LiveIInv
<1>4. TypeOK BY DEF LiveIInv
<1>5. CASE Accept(c)
  <2>1. /\ conn' = [conn EXCEPT ![c] = "Head"] /\ slot' = slot /\ rx' = rx /\ stalled' = stalled
        /\ source' = [source EXCEPT ![c] = current] /\ seen' = [seen EXCEPT ![c] = generation]
    BY <1>5 DEF Accept, server
  <2>2. TypeOK' BY <1>1, <1>4, <2>1 DEF TypeOK
  <2>3. NoLiveLeftover' BY <1>1, <2>1 DEF LiveIInv, NoLiveLeftover
  <2>4. Receiving' BY <1>1, <1>4, <2>1 DEF LiveIInv, TypeOK, Receiving
  <2> QED BY <1>3, <2>2, <2>3, <2>4
<1>6. CASE HeadRefused(c) \/ ServeEnds(c) \/ WriteFails(c) \/ ServeAborted(c) \/ LiveAborted(c)
  <2>1. Finish(c) /\ UNCHANGED <<slot, source, seen, stalled>>
    BY <1>6 DEF HeadRefused, ServeEnds, WriteFails, ServeAborted, LiveAborted, AbortDrops, server
  <2>2. TypeOK' BY <1>1, <1>4, <2>1 DEF TypeOK, Finish
  <2>3. NoLiveLeftover' BY <1>1, <2>1 DEF LiveIInv, NoLiveLeftover
  <2>4. Receiving' BY <1>1, <1>4, <2>1 DEF LiveIInv, TypeOK, Receiving, Finish
  <2> QED BY <1>3, <2>2, <2>3, <2>4
<1>7. CASE HeadOther(c) \/ LiveChunk(c) \/ WriteDone(c) \/ LiveClosed(c)
  <2>1. UNCHANGED <<slot, source, seen, rx, stalled>>
    BY <1>7 DEF HeadOther, LiveChunk, WriteDone, LiveClosed, Subscribed, server
  <2>2. \E s \in {"Serve", "Write", "Live", "Tail"} :
            /\ conn' = [conn EXCEPT ![c] = s]
            /\ s # "Serve" => rx[c] \in Pipes
            /\ s = "Tail" => pipe[rx[c]] = "Down"
    <3>1. CASE HeadOther(c) BY <3>1 DEF HeadOther
    <3>2. CASE LiveChunk(c) BY <3>2 DEF LiveChunk, LiveIInv, Receiving
    <3>3. CASE WriteDone(c) BY <3>3 DEF WriteDone, LiveIInv, Receiving
    <3>4. CASE LiveClosed(c) BY <3>4 DEF LiveClosed, LiveIInv, Receiving
    <3> QED BY <1>7, <3>1, <3>2, <3>3, <3>4
  <2>3. TypeOK' BY <1>1, <1>4, <2>1, <2>2 DEF TypeOK
  <2>4. NoLiveLeftover' BY <1>1, <2>1 DEF LiveIInv, NoLiveLeftover
  <2>5. Receiving' BY <1>1, <1>4, <2>1, <2>2 DEF LiveIInv, TypeOK, Receiving
  <2> QED BY <1>3, <2>3, <2>4, <2>5
<1>8. CASE HeadScreen(c)
  <2>1. /\ conn' = [conn EXCEPT ![c] = IF slot = None THEN "Done" ELSE "Write"]
        /\ rx' = [rx EXCEPT ![c] = slot] /\ slot' = None
        /\ UNCHANGED <<source, seen, stalled>>
    BY <1>8 DEF HeadScreen, Subscribed
  <2>2. TypeOK' BY <1>1, <1>4, <2>1 DEF TypeOK
  <2>3. NoLiveLeftover' BY <2>1 DEF NoLiveLeftover
  <2>4. Receiving' BY <1>1, <1>4, <2>1 DEF LiveIInv, TypeOK, Receiving
  <2> QED BY <1>3, <2>2, <2>3, <2>4
<1>9. CASE Recycle(c)
  <2>1. /\ conn[c] = "Tail" /\ slot' = rx[c] /\ Finish(c) /\ UNCHANGED <<source, seen, stalled>>
    BY <1>9 DEF Recycle
  <2>2. rx[c] \in Pipes /\ pipe[rx[c]] = "Down"
    BY <2>1 DEF LiveIInv, Receiving
  <2>3. TypeOK' BY <1>1, <1>4, <2>1, <2>2 DEF TypeOK, Finish
  <2>4. NoLiveLeftover' BY <1>1, <2>1, <2>2 DEF NoLiveLeftover
  <2>5. Receiving' BY <1>1, <1>4, <2>1 DEF LiveIInv, TypeOK, Receiving, Finish
  <2> QED BY <1>3, <2>3, <2>4, <2>5
<1>10. CASE ClientStalls(c)
  <2>1. UNCHANGED <<slot, conn, source, seen, rx>> /\ stalled' = [stalled EXCEPT ![c] = TRUE]
    BY <1>10 DEF ClientStalls, server
  <2>2. TypeOK' BY <1>1, <1>4, <2>1 DEF TypeOK
  <2>3. NoLiveLeftover' /\ Receiving'
    BY <1>1, <2>1 DEF LiveIInv, NoLiveLeftover, Receiving
  <2> QED BY <1>3, <2>2, <2>3
<1> QED BY <1>5, <1>6, <1>7, <1>8, <1>9, <1>10 DEF ConnStep

\* For any connections, pipelines and switches (handle_connection, run,
\* SelectDisplay): a receiver waits in the slot only while the screen is the
\* source, or its pipeline is gone; and one pipeline runs at a time.
THEOREM LiveSafe == Spec => []LiveInv
<1> USE LiveStreamAssumption
<1>1. Init => LiveIInv
  <2> SUFFICES ASSUME Init PROVE LiveIInv
    OBVIOUS
  <2>1. commands \in Seq(ServerCommand) /\ Len(commands) = 0 BY DEF Init
  <2>2. TypeOK
    <3>1. 0 \in 0..MaxSwitches /\ 0 \in 0..2 * MaxSwitches OBVIOUS
    <3>2. pipe \in [Pipes -> {"Off", "Up", "Stopping", "Down"}] BY DEF Init
    <3>3. /\ conn \in [Conns -> {"Idle", "Head", "Serve", "Write", "Live", "Tail", "Done"}]
          /\ source \in [Conns -> Sources \cup {None}] /\ seen \in [Conns -> 0..2 * MaxSwitches]
          /\ rx \in [Conns -> Pipes \cup {None}]
      BY <3>1 DEF Init
    <3>4. stalled \in [Conns -> BOOLEAN] /\ server_up \in BOOLEAN /\ token \in BOOLEAN
      BY Zenon DEF Init
    <3> QED BY <2>1, <3>1, <3>2, <3>3, <3>4 DEF Init, TypeOK
  <2>3. NoLiveLeftover /\ Remembered /\ Receiving
    BY DEF Init, NoLiveLeftover, Remembered, Receiving
  <2>4. Counted /\ AttachFollows BY <2>1 DEF Init, Counted, AttachFollows
  <2> QED BY <2>2, <2>3, <2>4 DEF LiveIInv
<1>2. LiveIInv /\ [Next]_vars => LiveIInv'
  <2> SUFFICES ASSUME LiveIInv, [Next]_vars PROVE LiveIInv'
    OBVIOUS
  <2>1. CASE Trigger
    BY <2>1 DEF Trigger, LiveIInv, TypeOK, NoLiveLeftover, Remembered, Counted, AttachFollows,
                Receiving, supervisor, server, conns
  <2>2. CASE UNCHANGED vars
    BY <2>2 DEF vars, LiveIInv, TypeOK, NoLiveLeftover, Remembered, Counted, AttachFollows,
                Receiving, supervisor, server, conns
  <2> QED
    BY <2>1, <2>2, SelectingDisplay, Starting, SelectingOther, ServerStepping, PipeStepping,
       ConnStepping DEF Next
<1>3. LiveIInv => LiveInv
  BY DEF LiveIInv, LiveInv, OneLivePipeline, Remembered
<1> QED BY <1>1, <1>2, <1>3, PTL DEF Spec

-----------------------------------------------------------------------------
(* MediaBody.                                                              *)

BodyOK ==
    /\ serving \in {"Wait", "Open", "Copy", "Flush", "Stream", "Done", "Aborted"}
    /\ size \in Sizes /\ shrunk \in BOOLEAN /\ headOnly \in BOOLEAN
    /\ reply \in ResponseHead \cup {Nothing}
    /\ left \in Nat /\ offset \in Nat /\ body \in Seq(Nat)
    /\ handle \in {"None", "Open", "Closed", "Dropped"}

\* Where the task may be with what head.
Phases ==
    /\ serving \in {"Wait", "Open"} => reply = Nothing
    /\ reply = Nothing => body = <<>> /\ offset = 0 /\ left = 0 /\ shrunk = FALSE
                          /\ serving \in {"Wait", "Open", "Done", "Aborted"}
    /\ serving = "Open" => kind \in Kinds /\ range \in Ranges
    /\ handle = "Open" => serving = "Copy"
    /\ handle = "Dropped" => serving = "Aborted"
    /\ (serving = "Done" /\ reply # Nothing) => wire = Written

\* A file: the head promises what was asked for ...
Chosen ==
    /\ Promised = Asked(range, reply.size)
    /\ (reply.status = "OK") = (range.form \in {"Absent", "Ignored"})

\* ... and what remains to be copied is what the body does not have yet,
\* unless the file has shrunk below it.
Progress ==
    /\ reply.length \in Nat /\ reply.first + reply.length <= reply.size
    /\ offset = reply.first + Len(body)
    /\ \A i \in 1..Len(body) : body[i] = reply.first + i - 1
    /\ Len(body) + left <= reply.length
    /\ headOnly = TRUE => body = <<>> /\ left = 0
    /\ shrunk = FALSE => reply.size <= size
    /\ (shrunk = FALSE /\ headOnly = FALSE) => Len(body) + left = reply.length

CopiesFile ==
    reply # Nothing /\ reply.status \in {"OK", "Partial", "Unsatisfiable"} =>
        /\ serving \in {"Copy", "Flush", "Done", "Aborted"} /\ Chosen /\ Progress
        /\ serving \in {"Flush", "Done"} => left = 0

\* A stream: its body is as long as what the origin has sent.
CopiesStream ==
    reply # Nothing /\ reply.status = "Stream" =>
        /\ kind \in {"Url", "Live"} /\ reply.length \in {size, Nothing}
        /\ kind = "Live" => reply.length = Nothing
        /\ serving \in {"Stream", "Done", "Aborted"} /\ shrunk = FALSE
        /\ serving = "Stream" => offset = Len(body) /\ (kind = "Url" => headOnly = FALSE)
        /\ (serving = "Done" /\ headOnly = FALSE) => Len(body) = size

\* An answer of the server's own is written at once.
AnswersShort ==
    reply # Nothing /\ reply.status \in {"Refused", "Failed", "Busy"} =>
        /\ reply.first = 0 /\ reply.length = Len(body)
        /\ \A i \in 1..Len(body) : body[i] = i - 1
        /\ serving = "Done"

Responses == CopiesFile /\ CopiesStream /\ AnswersShort

BodyIInv == BodyOK /\ Phases /\ Responses

LEMMA SmallerOf ==
    ASSUME NEW x \in Nat, NEW y \in Nat
    PROVE  Min({x, y}) = IF x <= y THEN x ELSE y
<1> DEFINE m == IF x <= y THEN x ELSE y
<1>1. m \in {x, y} /\ \A z \in {x, y} : m <= z
  OBVIOUS
<1>2. \A z \in {x, y} : (\A w \in {x, y} : z <= w) => z = m
  OBVIOUS
<1> HIDE DEF m
<1>3. Min({x, y}) = m
  BY <1>1, <1>2 DEF Min
<1> QED BY <1>3 DEF m

\* range.rs: the head that is written promises the bytes that were asked for,
\* and those are bytes of the file.
LEMMA RangeParsed ==
    ASSUME size \in Sizes, NEW r \in Ranges
    PROVE  LET h == ParseRange(r)
           IN  /\ h \in ResponseHead /\ h.status \in {"OK", "Partial", "Unsatisfiable"}
               /\ h.size = size /\ h.length \in Nat /\ h.first + h.length <= size
               /\ (h.status = "OK") = (r.form \in {"Absent", "Ignored"})
               /\ {i \in Sizes : h.first <= i /\ i < h.first + h.length} = Asked(r, size)
<1> USE MediaBodyAssumption
<1>1. size \in Nat /\ size <= MaxSize /\ MaxSize \in Nat
  BY DEF Sizes
<1>2. ASSUME NEW a \in Nat, NEW b \in Nat, a <= b, b < size
      PROVE  /\ Partial(a, b) \in ResponseHead /\ Partial(a, b).status = "Partial"
             /\ Partial(a, b).size = size /\ Partial(a, b).first = a
             /\ Partial(a, b).length = b - a + 1
  BY <1>1, <1>2 DEF Partial, ResponseHead
<1>3. CASE r.form \in {"Absent", "Ignored"}
  <2>1. ParseRange(r) = Full BY <1>3 DEF ParseRange
  <2>2. Asked(r, size) = {i \in 0..size : i < size} BY <1>3 DEF Asked
  <2> QED BY <1>1, <1>3, <2>1, <2>2 DEF Full, ResponseHead, Sizes
<1>4. CASE r.form = "Malformed"
  <2>1. ParseRange(r) = Unsatisfiable BY <1>4 DEF ParseRange
  <2>2. Asked(r, size) = {} BY <1>4 DEF Asked
  <2> QED BY <1>1, <1>4, <2>1, <2>2 DEF Unsatisfiable, ResponseHead, Sizes
<1>5. CASE r.form = "From"
  <2>1. r.a \in Nat BY <1>5, <1>1 DEF Ranges
  <2>2. ParseRange(r) = IF r.a >= size THEN Unsatisfiable ELSE Partial(r.a, size - 1)
    BY <1>5 DEF ParseRange, ParseSingleRange
  <2>3. Asked(r, size) = {i \in 0..size : i < size /\ i >= r.a} BY <1>5 DEF Asked
  <2>4. CASE r.a >= size
    BY <1>1, <1>5, <2>1, <2>2, <2>3, <2>4 DEF Unsatisfiable, ResponseHead, Sizes
  <2>5. CASE ~(r.a >= size)
    <3>1. size - 1 \in Nat /\ r.a <= size - 1 /\ size - 1 < size BY <1>1, <2>1, <2>5
    <3>2. ParseRange(r) = Partial(r.a, size - 1) BY <2>2, <2>5
    <3> QED BY <1>1, <1>2, <1>5, <2>1, <2>3, <3>1, <3>2 DEF Sizes
  <2> QED BY <2>4, <2>5
<1>6. CASE r.form = "FromTo"
  <2>1. r.a \in Nat /\ r.b \in Nat BY <1>6, <1>1 DEF Ranges, Sizes
  <2>2. ParseRange(r) = IF r.a > r.b \/ r.a >= size THEN Unsatisfiable
                        ELSE Partial(r.a, Min({r.b, size - 1}))
    BY <1>6 DEF ParseRange, ParseSingleRange
  <2>3. Asked(r, size) = {i \in 0..size : i < size /\ r.a <= i /\ i <= r.b} BY <1>6 DEF Asked
  <2>4. CASE r.a > r.b \/ r.a >= size
    BY <1>1, <1>6, <2>1, <2>2, <2>3, <2>4 DEF Unsatisfiable, ResponseHead, Sizes
  <2>5. CASE ~(r.a > r.b \/ r.a >= size)
    <3> DEFINE b == Min({r.b, size - 1})
    <3>1. size - 1 \in Nat BY <1>1, <2>1, <2>5
    <3>2. b = IF r.b <= size - 1 THEN r.b ELSE size - 1 BY <2>1, <3>1, SmallerOf
    <3>3. ParseRange(r) = Partial(r.a, b) BY <2>2, <2>5
    <3> HIDE DEF b
    <3>4. b \in Nat /\ r.a <= b /\ b < size BY <1>1, <2>1, <2>5, <3>1, <3>2
    <3>5. \A i \in 0..size : i < size /\ r.a <= i /\ i <= r.b <=> r.a <= i /\ i < r.a + (b - r.a + 1)
      BY <1>1, <2>1, <3>1, <3>2, <3>4
    <3>6. {i \in Sizes : r.a <= i /\ i < r.a + (b - r.a + 1)} = Asked(r, size)
      BY <1>1, <2>1, <2>3, <3>4, <3>5 DEF Sizes
    <3> QED BY <1>1, <1>2, <1>6, <2>1, <3>3, <3>4, <3>6
  <2> QED BY <2>4, <2>5
<1>7. CASE r.form = "Suffix"
  <2>1. r.n \in Nat BY <1>7, <1>1 DEF Ranges
  <2>2. ParseRange(r) = IF r.n = 0 \/ size = 0 THEN Unsatisfiable
                        ELSE Partial(IF r.n >= size THEN 0 ELSE size - r.n, size - 1)
    BY <1>7 DEF ParseRange, ParseSingleRange
  <2>3. Asked(r, size) = {i \in 0..size : i < size /\ i + r.n >= size} BY <1>7 DEF Asked
  <2>4. CASE r.n = 0 \/ size = 0
    BY <1>1, <1>7, <2>1, <2>2, <2>3, <2>4 DEF Unsatisfiable, ResponseHead, Sizes
  <2>5. CASE ~(r.n = 0 \/ size = 0)
    <3> DEFINE a == IF r.n >= size THEN 0 ELSE size - r.n
    <3>1. a \in Nat /\ size - 1 \in Nat /\ a <= size - 1 /\ size - 1 < size
      BY <1>1, <2>1, <2>5
    <3>2. ParseRange(r) = Partial(a, size - 1) BY <2>2, <2>5
    <3>3. \A i \in Nat : i + r.n >= size <=> a <= i BY <1>1, <2>1
    <3> HIDE DEF a
    <3>4. {i \in Sizes : a <= i /\ i < a + (size - 1 - a + 1)} = Asked(r, size)
      <4>1. a + (size - 1 - a + 1) = size BY <1>1, <3>1
      <4>2. \A i \in 0..size : i \in Nat /\ i \in Sizes BY <1>1 DEF Sizes
      <4>3. \A i \in Sizes : i \in Nat /\ (i < size => i \in 0..size) BY <1>1 DEF Sizes
      <4>4. Asked(r, size) = {i \in 0..size : i < size /\ a <= i} BY <2>3, <3>3, <4>2
      <4>5. {i \in Sizes : a <= i /\ i < size} = {i \in 0..size : i < size /\ a <= i}
        BY <4>2, <4>3
      <4> QED BY <4>1, <4>4, <4>5
    <3> DEFINE h == Partial(a, size - 1)
    <3>5. /\ h \in ResponseHead /\ h.status = "Partial" /\ h.size = size /\ h.first = a
          /\ h.length = size - 1 - a + 1
      BY <1>2, <3>1
    <3> HIDE DEF h
    <3>6. h.length \in Nat /\ h.first + h.length <= size BY <1>1, <3>1, <3>5
    <3>7. {i \in Sizes : h.first <= i /\ i < h.first + h.length} = Asked(r, size)
      BY <3>4, <3>5
    <3>8. ParseRange(r) = h BY <3>2 DEF h
    <3> QED BY <1>7, <3>5, <3>6, <3>7, <3>8
  <2> QED BY <2>4, <2>5
<1> QED BY <1>3, <1>4, <1>5, <1>6, <1>7 DEF Ranges

\* The body after n more bytes of the resource.
LEMMA MoreBytes ==
    ASSUME NEW s \in Seq(Nat), NEW o \in Nat, NEW n \in Nat
    PROVE  LET t == s \o [i \in 1..n |-> o + i - 1]
           IN  /\ t \in Seq(Nat) /\ Len(t) = Len(s) + n
               /\ \A i \in 1..Len(s) : t[i] = s[i]
               /\ \A i \in Len(s) + 1..Len(s) + n : t[i] = o + (i - Len(s)) - 1
<1> DEFINE e == [i \in 1..n |-> o + i - 1]
           t == s \o e
<1>1. e \in Seq(Nat) /\ Len(e) = n /\ \A i \in 1..n : e[i] = o + i - 1
  OBVIOUS
<1> HIDE DEF e
<1>2. t \in Seq(Nat) /\ Len(t) = Len(s) + n /\ Len(s) \in Nat
  BY <1>1
<1>3. \A i \in 1..Len(t) : t[i] = IF i <= Len(s) THEN s[i] ELSE e[i - Len(s)]
  BY <1>1
<1>4. \A i \in 1..Len(s) : t[i] = s[i]
  BY <1>1, <1>2, <1>3
<1>5. ASSUME NEW i \in Len(s) + 1..Len(s) + n
      PROVE  t[i] = o + (i - Len(s)) - 1
  <2>1. i \in 1..Len(t) /\ ~(i <= Len(s)) /\ i - Len(s) \in 1..n BY <1>2, <1>5
  <2> QED BY <1>1, <1>3, <2>1
<1> QED BY <1>2, <1>4, <1>5 DEF e

LEMMA Reading ==
    BodyIInv /\ (\E k \in Kinds, h \in BOOLEAN, r \in Ranges : ReadRequest(k, h, r)) => BodyIInv'
<1> SUFFICES ASSUME BodyIInv, NEW k \in Kinds, NEW h \in BOOLEAN, NEW r \in Ranges,
                    ReadRequest(k, h, r)
             PROVE  BodyIInv'
  OBVIOUS
<1>1. /\ serving = "Wait" /\ serving' = "Open" /\ kind' = k /\ headOnly' = h /\ range' = r
      /\ UNCHANGED <<size, resizes, shrunk, reply, left, offset, body, wire, pending, handle>>
  BY DEF ReadRequest, resource
<1>2. reply = Nothing BY <1>1 DEF BodyIInv, Phases
<1>3. BodyOK' BY <1>1 DEF BodyIInv, BodyOK
<1>4. Phases' BY <1>1, <1>2 DEF BodyIInv, Phases
<1>5. Responses' BY <1>1, <1>2 DEF Responses, CopiesFile, CopiesStream, AnswersShort
<1> QED BY <1>3, <1>4, <1>5 DEF BodyIInv

\* A short answer is complete when it is given.
LEMMA Answering ==
    ASSUME BodyIInv, serving \in {"Wait", "Open"}, NEW text \in Nat,
           NEW status \in {"Refused", "Failed", "Busy"}, Answer(status, text)
    PROVE  BodyIInv'
<1> USE MediaBodyAssumption
<1> DEFINE h == [status |-> status, size |-> text, first |-> 0, length |-> text]
           t == [i \in 1..text |-> i - 1]
<1>1. /\ reply' = h /\ body' = t /\ wire' = 1 + text /\ serving' = "Done"
      /\ UNCHANGED <<kind, headOnly, range, size, resizes, shrunk, left, offset, pending, handle>>
  BY DEF Answer, request, resource
<1>2. h \in ResponseHead /\ h # Nothing /\ h.status = status /\ h.first = 0 /\ h.length = text
  BY DEF ResponseHead
<1>3. t \in Seq(Nat) /\ Len(t) = text /\ \A i \in 1..text : t[i] = i - 1
  OBVIOUS
<1> HIDE DEF h, t
<1>4. BodyOK' BY <1>1, <1>2, <1>3 DEF BodyIInv, BodyOK
<1>5. Phases' BY <1>1, <1>2, <1>3 DEF BodyIInv, Phases, Written
<1>6. Responses' BY <1>1, <1>2, <1>3 DEF Responses, CopiesFile, CopiesStream, AnswersShort
<1> QED BY <1>4, <1>5, <1>6 DEF BodyIInv

\* A connection that ends may leave anything behind but a handle that counts
\* as open.
LEMMA Dropping == BodyIInv /\ Drop /\ serving \in {"Open", "Copy", "Flush", "Stream"} => BodyIInv'
<1> SUFFICES ASSUME BodyIInv, Drop, serving \in {"Open", "Copy", "Flush", "Stream"}
             PROVE  BodyIInv'
  OBVIOUS
<1>1. /\ serving' = "Aborted" /\ handle' = IF handle = "Open" THEN "Dropped" ELSE handle
      /\ UNCHANGED <<kind, headOnly, range, size, resizes, shrunk, reply, left, offset, body, wire,
                     pending>>
  BY DEF Drop, request, resource
<1>2. BodyOK' BY <1>1 DEF BodyIInv, BodyOK
<1>3. Phases' BY <1>1 DEF BodyIInv, BodyOK, Phases
<1>4. CopiesFile' BY <1>1 DEF BodyIInv, Responses, CopiesFile, Chosen, Progress, Promised
<1>5. CopiesStream' BY <1>1 DEF BodyIInv, Responses, CopiesStream
<1>6. AnswersShort' BY <1>1 DEF BodyIInv, Responses, AnswersShort
<1> QED BY <1>2, <1>3, <1>4, <1>5, <1>6 DEF BodyIInv, Responses

LEMMA Opening == BodyIInv /\ OpenFile => BodyIInv'
<1> SUFFICES ASSUME BodyIInv, OpenFile PROVE BodyIInv'
  OBVIOUS
<1> USE MediaBodyAssumption
<1> DEFINE h == ParseRange(range)
<1>1. /\ serving = "Open" /\ serving' = "Copy" /\ reply' = h /\ offset' = h.first
      /\ left' = (IF headOnly THEN 0 ELSE h.length) /\ handle' \in {"Open", handle}
      /\ UNCHANGED <<kind, headOnly, range, size, resizes, shrunk, body, pending>>
  BY DEF OpenFile, WriteHead, request, resource
<1>2. /\ range \in Ranges /\ reply = Nothing /\ body = <<>> /\ shrunk = FALSE /\ Len(body) = 0
      /\ size \in Sizes /\ handle # "Dropped"
  BY <1>1 DEF BodyIInv, BodyOK, Phases
<1>3. /\ h \in ResponseHead /\ h.status \in {"OK", "Partial", "Unsatisfiable"}
      /\ h.size = size /\ h.length \in Nat /\ h.first + h.length <= size
      /\ (h.status = "OK") = (range.form \in {"Absent", "Ignored"})
      /\ {i \in Sizes : h.first <= i /\ i < h.first + h.length} = Asked(range, size)
  BY <1>2, RangeParsed
<1> HIDE DEF h
<1>4. h # Nothing /\ h.first \in Nat /\ size \in Nat BY <1>2, <1>3 DEF ResponseHead, Sizes
<1>5. headOnly \in BOOLEAN BY DEF BodyIInv, BodyOK
<1>6. (headOnly = TRUE => left' = 0) /\ (headOnly = FALSE => left' = h.length)
  BY <1>1
<1>7. left' \in Nat /\ left' <= h.length BY <1>3, <1>5, <1>6
<1>8. BodyOK' BY <1>1, <1>3, <1>4, <1>7 DEF BodyIInv, BodyOK
<1>9. Phases' BY <1>1, <1>2, <1>4 DEF BodyIInv, BodyOK, Phases
<1>10. CopiesFile'
  <2>1. Chosen' BY <1>1, <1>3 DEF Chosen, Promised
  <2>2. Progress' BY <1>1, <1>2, <1>3, <1>4, <1>5, <1>6, <1>7 DEF Progress
  <2> QED BY <1>1, <2>1, <2>2 DEF CopiesFile
<1>11. CopiesStream' /\ AnswersShort' BY <1>1, <1>3 DEF CopiesStream, AnswersShort
<1> QED BY <1>8, <1>9, <1>10, <1>11 DEF BodyIInv, Responses

\* What the copying of a file starts from.
LEMMA Copied ==
    ASSUME BodyIInv, serving \in {"Copy", "Flush"}
    PROVE  /\ reply # Nothing /\ reply.status \in {"OK", "Partial", "Unsatisfiable"}
           /\ reply.size \in Nat /\ reply.first \in Nat
           /\ size \in Nat /\ left \in Nat /\ offset \in Nat /\ Len(body) \in Nat
           /\ Chosen /\ Progress
<1> USE MediaBodyAssumption
<1>1. reply \in ResponseHead /\ reply # Nothing BY DEF BodyIInv, BodyOK, Phases
<1>2. reply.status \in {"OK", "Partial", "Unsatisfiable"}
  <2>1. reply.status \in {"OK", "Partial", "Unsatisfiable", "Stream", "Refused", "Failed", "Busy"}
    BY <1>1 DEF ResponseHead
  <2>2. reply.status # "Stream" BY <1>1 DEF BodyIInv, Responses, CopiesStream
  <2>3. reply.status \notin {"Refused", "Failed", "Busy"}
    BY <1>1 DEF BodyIInv, Responses, AnswersShort
  <2> QED BY <2>1, <2>2, <2>3
<1>3. size \in Nat /\ left \in Nat /\ offset \in Nat /\ Len(body) \in Nat
  BY DEF BodyIInv, BodyOK, Sizes
<1>4. reply.size \in Nat /\ reply.first \in Nat BY <1>1 DEF ResponseHead
<1>5. Chosen /\ Progress BY <1>1, <1>2 DEF BodyIInv, Responses, CopiesFile
<1> QED BY <1>1, <1>2, <1>3, <1>4, <1>5

LEMMA CopyingChunk == BodyIInv /\ ReadChunk => BodyIInv'
<1> SUFFICES ASSUME BodyIInv, ReadChunk PROVE BodyIInv'
  OBVIOUS
<1> USE MediaBodyAssumption
<1>1. serving = "Copy" /\ left > 0 /\ offset < size
      /\ UNCHANGED <<kind, headOnly, range, serving, size, resizes, shrunk, reply, pending, handle>>
  BY DEF ReadChunk, request, resource
<1>2. /\ reply # Nothing /\ reply.status \in {"OK", "Partial", "Unsatisfiable"}
      /\ Chosen /\ Progress /\ reply.first \in Nat /\ left \in Nat /\ offset \in Nat /\ size \in Nat
      /\ Len(body) \in Nat
  BY <1>1, Copied
<1>3. PICK n \in Nat : /\ n <= left /\ left' = left - n /\ offset' = offset + n
                       /\ body' = body \o [i \in 1..n |-> offset + i - 1]
  <2> DEFINE most == Min({Want, size - offset})
  <2>1. PICK n \in (IF kind = "Smb" THEN {most} ELSE 1..most) :
            WriteBytes(n) /\ left' = IF n > left THEN 0 ELSE left - n
    BY DEF ReadChunk
  <2>2. Want \in Nat /\ Want <= left BY <1>2, SmallerOf DEF Want
  <2>3. size - offset \in Nat BY <1>1, <1>2
  <2>4. most \in Nat /\ most <= Want BY <2>2, <2>3, SmallerOf
  <2> HIDE DEF most
  <2>5. n \in Nat /\ n <= left BY <1>2, <2>1, <2>2, <2>4
  <2>6. left' = left - n BY <1>2, <2>1, <2>5
  <2> QED BY <2>1, <2>5, <2>6 DEF WriteBytes, Bytes
<1>4. /\ body' \in Seq(Nat) /\ Len(body') = Len(body) + n
      /\ \A i \in 1..Len(body) : body'[i] = body[i]
      /\ \A i \in Len(body) + 1..Len(body) + n : body'[i] = offset + (i - Len(body)) - 1
  <2>1. body \in Seq(Nat) BY DEF BodyIInv, BodyOK
  <2> DEFINE t == body \o [i \in 1..n |-> offset + i - 1]
  <2>2. /\ t \in Seq(Nat) /\ Len(t) = Len(body) + n
        /\ \A i \in 1..Len(body) : t[i] = body[i]
        /\ \A i \in Len(body) + 1..Len(body) + n : t[i] = offset + (i - Len(body)) - 1
    BY <1>2, <2>1, MoreBytes
  <2>3. body' = t BY <1>3
  <2> HIDE DEF t
  <2> QED BY <2>2, <2>3
<1>5. BodyOK' BY <1>1, <1>2, <1>3, <1>4 DEF BodyIInv, BodyOK
<1>6. Phases' BY <1>1, <1>2 DEF BodyIInv, Phases
<1>7. Progress'
  <2>1. ASSUME NEW i \in 1..Len(body') PROVE body'[i] = reply'.first + i - 1
    <3>1. CASE i <= Len(body)
      <4>1. i \in 1..Len(body) BY <1>2, <1>3, <1>4, <3>1
      <4> QED BY <1>1, <1>2, <1>4, <4>1 DEF Progress
    <3>2. CASE ~(i <= Len(body))
      <4>1. i \in Len(body) + 1..Len(body) + n BY <1>2, <1>3, <1>4, <3>2
      <4>2. offset = reply.first + Len(body) BY <1>2 DEF Progress
      <4>3. body'[i] = offset + (i - Len(body)) - 1 BY <1>4, <4>1
      <4>4. offset + (i - Len(body)) - 1 = reply.first + i - 1
        <5>1. i \in Int /\ Len(body) \in Int /\ reply.first \in Int BY <1>2, <4>1
        <5> QED BY <4>2, <5>1
      <4> QED BY <1>1, <4>3, <4>4
    <3> QED BY <3>1, <3>2
  <2>2. ~(headOnly = TRUE)
    <3>1. ~(left = 0) BY <1>1, <1>2
    <3> QED BY <1>2, <3>1, Zenon DEF Progress
  <2>3. Len(body') + left' = Len(body) + left BY <1>2, <1>3, <1>4
  <2>4. /\ reply'.length \in Nat /\ reply'.first + reply'.length <= reply'.size
        /\ offset' = reply'.first + Len(body') /\ Len(body') + left' <= reply'.length
    <3>1. /\ reply.length \in Nat /\ reply.first + reply.length <= reply.size
          /\ offset = reply.first + Len(body) /\ Len(body) + left <= reply.length
      BY <1>2, Zenon DEF Progress
    <3>2. offset' = reply.first + Len(body')
      <4>1. offset' = reply.first + Len(body) + n /\ Len(body') = Len(body) + n
        BY <1>3, <1>4, <3>1
      <4>2. reply.first \in Int /\ Len(body) \in Int /\ n \in Int BY <1>2
      <4> QED BY <4>1, <4>2
    <3> QED BY <1>1, <2>3, <3>1, <3>2
  <2>5. shrunk' = FALSE => reply'.size <= size' BY <1>1, <1>2 DEF Progress
  <2>6. (shrunk' = FALSE /\ headOnly' = FALSE) => Len(body') + left' = reply'.length
    BY <1>1, <1>2, <2>3 DEF Progress
  <2> QED BY <1>1, <2>1, <2>2, <2>4, <2>5, <2>6 DEF Progress
<1>8. CopiesFile'
  <2>1. Chosen' BY <1>1, <1>2 DEF Chosen, Promised
  <2> QED BY <1>1, <1>7, <2>1 DEF CopiesFile
<1>9. CopiesStream' /\ AnswersShort' BY <1>1, <1>2 DEF CopiesStream, AnswersShort
<1> QED BY <1>5, <1>6, <1>8, <1>9 DEF BodyIInv, Responses

\* A body ends early only if the file has shrunk below what was promised.
LEMMA Ending == BodyIInv /\ (EndOfFile \/ EndCopy \/ Flush) => BodyIInv'
<1> SUFFICES ASSUME BodyIInv, EndOfFile \/ EndCopy \/ Flush PROVE BodyIInv'
  OBVIOUS
<1> USE MediaBodyAssumption
<1>1. serving \in {"Copy", "Flush"}
      /\ UNCHANGED <<kind, headOnly, range, size, resizes, shrunk, reply, offset, body, pending>>
  BY DEF EndOfFile, EndCopy, Flush, request, resource
<1>2. /\ reply # Nothing /\ reply.status \in {"OK", "Partial", "Unsatisfiable"}
      /\ Chosen /\ Progress /\ reply.size \in Nat /\ reply.first \in Nat /\ left \in Nat
      /\ offset \in Nat /\ size \in Nat /\ Len(body) \in Nat
  BY <1>1, Copied
<1>3. left' = 0 /\ ((shrunk = FALSE /\ headOnly = FALSE) => Len(body) = reply.length)
  <2>1. CASE EndOfFile
    <3>1. left' = 0 /\ left > 0 /\ offset >= size BY <2>1 DEF EndOfFile
    <3>2. ~(shrunk = FALSE /\ headOnly = FALSE)
      BY <1>2, <3>1 DEF Progress
    <3> QED BY <3>1, <3>2
  <2>2. CASE EndCopy \/ Flush
    <3>1. left = 0 /\ left' = 0
      BY <1>2, <2>2 DEF EndCopy, Flush, BodyIInv, Responses, CopiesFile
    <3> QED BY <1>2, <3>1 DEF Progress
  <2> QED BY <2>1, <2>2
<1>4. serving' \in {"Copy", "Flush", "Done"} /\ handle' \in {handle, "Closed"}
      /\ (handle' = "Open" => serving' = "Copy") /\ (serving' = "Done" => wire' = Written)
  BY <1>1 DEF EndOfFile, EndCopy, Flush, Released, BodyIInv, BodyOK, Phases
<1>5. BodyOK' BY <1>1, <1>3, <1>4 DEF BodyIInv, BodyOK
<1>6. Phases'
  <2>1. Written' = Written BY <1>1 DEF Written
  <2>2. handle # "Dropped" BY <1>1 DEF BodyIInv, Phases
  <2> QED BY <1>1, <1>2, <1>4, <2>1, <2>2 DEF Phases
<1>7. CopiesFile'
  <2>1. Chosen' BY <1>1, <1>2 DEF Chosen, Promised
  <2>2. Progress' BY <1>1, <1>2, <1>3 DEF Progress
  <2> QED BY <1>1, <1>3, <1>4, <2>1, <2>2 DEF CopiesFile
<1>8. CopiesStream' /\ AnswersShort' BY <1>1, <1>2 DEF CopiesStream, AnswersShort
<1> QED BY <1>5, <1>6, <1>7, <1>8 DEF BodyIInv, Responses

LEMMA Resizing == BodyIInv /\ (\E n \in Sizes : Resize(n)) => BodyIInv'
<1> SUFFICES ASSUME BodyIInv, NEW n \in Sizes, Resize(n) PROVE BodyIInv'
  OBVIOUS
<1> USE MediaBodyAssumption
<1>1. serving = "Copy" /\ size' = n /\ shrunk' = (shrunk \/ n < size)
      /\ UNCHANGED <<kind, headOnly, range, serving, reply, left, offset, body, wire, pending, handle>>
  BY DEF Resize, request
<1>2. /\ reply # Nothing /\ reply.status \in {"OK", "Partial", "Unsatisfiable"}
      /\ Chosen /\ Progress /\ size \in Nat /\ reply.size \in Nat
  BY <1>1, Copied
<1>3. shrunk \in BOOLEAN /\ n \in Nat BY DEF BodyIInv, BodyOK, Sizes
<1>4. shrunk' \in BOOLEAN BY <1>1, <1>3, Zenon
<1>5. shrunk' = FALSE => shrunk = FALSE /\ ~(n < size) BY <1>1, <1>3, Zenon
<1>6. BodyOK' BY <1>1, <1>4 DEF BodyIInv, BodyOK
<1>7. Phases' BY <1>1, <1>2 DEF BodyIInv, Phases
<1>8. CopiesFile'
  <2>1. Chosen' BY <1>1, <1>2 DEF Chosen, Promised
  <2>2. Progress' BY <1>1, <1>2, <1>3, <1>5 DEF Progress
  <2> QED BY <1>1, <2>1, <2>2 DEF CopiesFile
<1>9. CopiesStream' /\ AnswersShort' BY <1>1, <1>2 DEF CopiesStream, AnswersShort
<1> QED BY <1>6, <1>7, <1>8, <1>9 DEF BodyIInv, Responses

LEMMA OpeningStream == BodyIInv /\ OpenStream => BodyIInv'
<1> SUFFICES ASSUME BodyIInv, OpenStream PROVE BodyIInv'
  OBVIOUS
<1> USE MediaBodyAssumption
<1>1. /\ serving = "Open" /\ kind \in {"Url", "Live"} /\ wire' = 1
      /\ serving' = (IF kind = "Url" /\ headOnly THEN "Done" ELSE "Stream")
      /\ UNCHANGED <<kind, headOnly, range, size, resizes, shrunk, left, offset, body, handle>>
  BY DEF OpenStream, request, resource
<1>2. PICK n \in IF kind = "Url" THEN {size, Nothing} ELSE {Nothing} :
          reply' = [status |-> "Stream", size |-> size, first |-> 0, length |-> n]
  BY DEF OpenStream
<1>3. size \in Nat /\ reply = Nothing /\ body = <<>> /\ Len(body) = 0 /\ offset = 0 /\ shrunk = FALSE
      /\ headOnly \in BOOLEAN
  BY <1>1 DEF BodyIInv, BodyOK, Phases, Sizes
<1>4. /\ reply' \in ResponseHead /\ reply' # Nothing /\ reply'.status = "Stream"
      /\ reply'.length \in {size, Nothing} /\ (kind = "Live" => reply'.length = Nothing)
  BY <1>1, <1>2, <1>3 DEF ResponseHead
<1>5. serving' \in {"Done", "Stream"} /\ (serving' = "Done" => headOnly = TRUE)
      /\ (serving' = "Stream" /\ kind = "Url" => headOnly = FALSE)
  BY <1>1, <1>3
<1>6. BodyOK' BY <1>1, <1>4, <1>5 DEF BodyIInv, BodyOK
<1>7. Phases' BY <1>1, <1>3, <1>4, <1>5 DEF BodyIInv, Phases, Written
<1>8. CopiesStream' BY <1>1, <1>3, <1>4, <1>5 DEF CopiesStream
<1>9. CopiesFile' /\ AnswersShort' BY <1>4 DEF CopiesFile, AnswersShort
<1> QED BY <1>6, <1>7, <1>8, <1>9 DEF BodyIInv, Responses

\* What the proxying of a stream starts from.
LEMMA Streamed ==
    ASSUME BodyIInv, serving = "Stream"
    PROVE  /\ reply # Nothing /\ reply.status = "Stream"
           /\ kind \in {"Url", "Live"} /\ reply.length \in {size, Nothing}
           /\ kind = "Live" => reply.length = Nothing
           /\ shrunk = FALSE /\ offset = Len(body) /\ (kind = "Url" => headOnly = FALSE)
           /\ offset \in Nat /\ size \in Nat /\ body \in Seq(Nat)
<1> USE MediaBodyAssumption
<1>1. reply \in ResponseHead /\ reply # Nothing BY DEF BodyIInv, BodyOK, Phases
<1>2. reply.status = "Stream"
  <2>1. reply.status \in {"OK", "Partial", "Unsatisfiable", "Stream", "Refused", "Failed", "Busy"}
    BY <1>1 DEF ResponseHead
  <2>2. reply.status \notin {"OK", "Partial", "Unsatisfiable"}
    BY <1>1 DEF BodyIInv, Responses, CopiesFile
  <2>3. reply.status \notin {"Refused", "Failed", "Busy"}
    BY <1>1 DEF BodyIInv, Responses, AnswersShort
  <2> QED BY <2>1, <2>2, <2>3
<1> QED BY <1>1, <1>2 DEF BodyIInv, BodyOK, Responses, CopiesStream, Sizes

LEMMA Streaming == BodyIInv /\ (StreamChunk \/ FlushDeadline \/ StreamEnds) => BodyIInv'
<1> SUFFICES ASSUME BodyIInv, StreamChunk \/ FlushDeadline \/ StreamEnds PROVE BodyIInv'
  OBVIOUS
<1> USE MediaBodyAssumption
<1>1. serving = "Stream"
      /\ UNCHANGED <<kind, headOnly, range, size, resizes, shrunk, reply, left, handle>>
  BY DEF StreamChunk, FlushDeadline, StreamEnds, request, resource
<1>2. CopiesFile' /\ AnswersShort' BY <1>1, Streamed DEF CopiesFile, AnswersShort
<1>3. CASE StreamChunk
  <2>1. serving' = serving /\ offset < size BY <1>3 DEF StreamChunk
  <2>2. PICK n \in 1..Min({Chunk, size - offset}) : WriteBytes(n)
    BY <1>3 DEF StreamChunk
  <2>3. Chunk \in Nat /\ size - offset \in Nat BY <1>1, <2>1, Streamed
  <2>4. n \in Nat BY <2>2, <2>3, SmallerOf
  <2>5. body' \in Seq(Nat) /\ Len(body') = Len(body) + n /\ offset' = offset + n
    <3>1. body \in Seq(Nat) /\ offset \in Nat BY <1>1, Streamed
    <3> DEFINE t == body \o [i \in 1..n |-> offset + i - 1]
    <3>2. body' = t /\ offset' = offset + n BY <2>2 DEF WriteBytes, Bytes
    <3>3. t \in Seq(Nat) /\ Len(t) = Len(body) + n BY <2>4, <3>1, MoreBytes
    <3> HIDE DEF t
    <3> QED BY <3>2, <3>3
  <2>6. BodyOK' BY <1>1, <2>1, <2>4, <2>5, Streamed DEF BodyIInv, BodyOK
  <2>7. Phases' BY <1>1, <2>1, Streamed DEF BodyIInv, Phases
  <2>8. CopiesStream' BY <1>1, <2>1, <2>5, Streamed DEF CopiesStream
  <2> QED BY <1>2, <2>6, <2>7, <2>8 DEF BodyIInv, Responses
<1>4. CASE FlushDeadline
  <2>1. UNCHANGED <<serving, offset, body>> BY <1>4 DEF FlushDeadline
  <2>2. BodyOK' BY <1>1, <2>1 DEF BodyIInv, BodyOK
  <2>3. Phases' BY <1>1, <2>1, Streamed DEF BodyIInv, Phases
  <2>4. CopiesStream' BY <1>1, <2>1, Streamed DEF CopiesStream
  <2> QED BY <1>2, <2>2, <2>3, <2>4 DEF BodyIInv, Responses
<1>5. CASE StreamEnds
  <2>1. serving' = "Done" /\ offset = size /\ wire' = Written /\ UNCHANGED <<offset, body>>
    BY <1>5 DEF StreamEnds, FlushTail
  <2>2. Written' = Written BY <1>1, <2>1 DEF Written
  <2>3. BodyOK' BY <1>1, <2>1 DEF BodyIInv, BodyOK
  <2>4. Phases' BY <1>1, <2>1, <2>2, Streamed DEF BodyIInv, Phases
  <2>5. CopiesStream' BY <1>1, <2>1, Streamed DEF CopiesStream
  <2> QED BY <1>2, <2>3, <2>4, <2>5 DEF BodyIInv, Responses
<1> QED BY <1>3, <1>4, <1>5

LEMMA PromiseKept == BodyIInv => ServedAsPromised
<1> SUFFICES ASSUME BodyIInv, reply # Nothing PROVE ServedAsPromised
  BY DEF ServedAsPromised, BodyIsPromised, DoneIsDelivered
<1> USE MediaBodyAssumption
<1>1. /\ reply \in ResponseHead /\ headOnly \in BOOLEAN /\ shrunk \in BOOLEAN
      /\ Len(body) \in Nat /\ left \in Nat
  BY DEF BodyIInv, BodyOK
<1>2. serving = "Done" => wire = Written /\ handle \in {"None", "Closed"}
  BY DEF BodyIInv, BodyOK, Phases
<1>3. CASE reply.status \in {"OK", "Partial", "Unsatisfiable"}
  <2>1. Chosen /\ Progress /\ (serving = "Done" => left = 0)
    BY <1>3 DEF BodyIInv, Responses, CopiesFile
  <2>2. BodyIsPromised BY <1>1, <2>1 DEF Chosen, Progress, BodyIsPromised
  <2>3. DoneIsDelivered BY <1>1, <1>2, <1>3, <2>1 DEF Progress, DoneIsDelivered
  <2> QED BY <2>2, <2>3 DEF ServedAsPromised
<1>4. CASE reply.status = "Stream"
  <2>1. BodyIsPromised BY <1>4 DEF BodyIInv, Responses, CopiesStream, BodyIsPromised
  <2>2. DoneIsDelivered
    BY <1>1, <1>2, <1>4 DEF BodyIInv, Responses, CopiesStream, DoneIsDelivered
  <2> QED BY <2>1, <2>2 DEF ServedAsPromised
<1>5. CASE reply.status \in {"Refused", "Failed", "Busy"}
  <2>1. BodyIsPromised BY <1>1, <1>5 DEF BodyIInv, Responses, AnswersShort, BodyIsPromised
  <2>2. DoneIsDelivered
    BY <1>1, <1>2, <1>5 DEF BodyIInv, Responses, AnswersShort, DoneIsDelivered
  <2> QED BY <2>1, <2>2 DEF ServedAsPromised
<1> QED BY <1>1, <1>3, <1>4, <1>5 DEF ResponseHead

\* For a resource, a range and buffers of any size, and whenever the file
\* changes, the origin fails or the connection ends (serve_range, stream_reader,
\* smb_source, url_proxy, serve_live_screen): the body is the range that was
\* asked for, byte for byte, and a response that ended by itself is complete,
\* flushed and rid of its handle, unless the file shrank under it.
THEOREM ResponsesKeepPromise == BodySpec => []ServedAsPromised
<1> USE MediaBodyAssumption
<1>1. BodyInit => BodyIInv
  <2> SUFFICES ASSUME BodyInit PROVE BodyIInv
    OBVIOUS
  <2>1. body \in Seq(Nat) BY DEF BodyInit
  <2>2. headOnly \in BOOLEAN /\ shrunk \in BOOLEAN BY Zenon DEF BodyInit
  <2>3. BodyOK BY <2>1, <2>2 DEF BodyInit, BodyOK
  <2>4. Phases BY DEF BodyInit, Phases
  <2>5. Responses BY DEF BodyInit, Responses, CopiesFile, CopiesStream, AnswersShort
  <2> QED BY <2>3, <2>4, <2>5 DEF BodyIInv
<1>2. BodyIInv /\ [BodyNext]_bodyVars => BodyIInv'
  <2> SUFFICES ASSUME BodyIInv, [BodyNext]_bodyVars PROVE BodyIInv'
    OBVIOUS
  <2>1. CASE Refuse
    <3>1. CASE Answer("Refused", 0) BY <2>1, <3>1, Answering DEF Refuse
    <3>2. CASE /\ serving' = "Done"
               /\ UNCHANGED <<request, resource, reply, left, offset, body, wire, pending, handle>>
      <4>1. serving = "Wait" BY <2>1 DEF Refuse
      <4>2. reply = Nothing /\ reply' = Nothing BY <3>2, <4>1 DEF BodyIInv, Phases
      <4>3. BodyOK' BY <3>2 DEF BodyIInv, BodyOK, request, resource
      <4>4. Phases' BY <3>2, <4>1, <4>2 DEF BodyIInv, Phases, request, resource
      <4>5. Responses' BY <4>2 DEF Responses, CopiesFile, CopiesStream, AnswersShort
      <4> QED BY <4>3, <4>4, <4>5 DEF BodyIInv
    <3> QED BY <2>1, <3>1, <3>2 DEF Refuse
  <2>2. CASE OpenFails
    <3>1. serving = "Open" /\ (Drop \/ \E t \in Nat, s \in {"Refused", "Failed", "Busy"} : Answer(s, t))
      BY <2>2 DEF OpenFails
    <3> QED BY <3>1, Dropping, Answering
  <2>3. CASE Abort \/ ReadFails \/ StreamFails
    BY <2>3, Dropping DEF Abort, ReadFails, StreamFails
  <2>4. CASE CopyStep
    BY <2>4, CopyingChunk, Ending DEF CopyStep
  <2>5. CASE UNCHANGED bodyVars
    <3>1. UNCHANGED <<kind, headOnly, range, serving, size, resizes, shrunk, reply, left, offset, body,
                      wire, pending, handle>>
      BY <2>5 DEF bodyVars, request, resource
    <3>2. BodyOK' BY <3>1 DEF BodyIInv, BodyOK
    <3>3. Phases' BY <3>1 DEF BodyIInv, Phases, Written
    <3>4. CopiesFile' BY <3>1 DEF BodyIInv, Responses, CopiesFile, Chosen, Progress, Promised
    <3>5. CopiesStream' /\ AnswersShort' BY <3>1 DEF BodyIInv, Responses, CopiesStream, AnswersShort
    <3> QED BY <3>2, <3>3, <3>4, <3>5 DEF BodyIInv, Responses
  <2> QED
    BY <2>1, <2>2, <2>3, <2>4, <2>5, Reading, Opening, Resizing, OpeningStream, Streaming
    DEF BodyNext
<1> QED BY <1>1, <1>2, PromiseKept, PTL DEF BodySpec

=============================================================================
