--------------------------- MODULE MediaBindProofs ---------------------------
(***************************************************************************)
(* Nothing listens on all interfaces without consent, for any interfaces,  *)
(* ports and queue lengths.  The invariant says where an intention to bind *)
(* the wildcard can be: in the answer, in the latch, in a queued           *)
(* SetBindAddr, in the remembered bind address, in the listener.           *)
(***************************************************************************)
EXTENDS MediaBind, FiniteSetTheorems, TLAPS

\* What Append and Tail do to the elements of a channel.
LEMMA AppendElems ==
  ASSUME NEW S, NEW s \in Seq(S), NEW e \in S
  PROVE  /\ Append(s, e) \in Seq(S)
         /\ \A i \in DOMAIN Append(s, e) :
              Append(s, e)[i] = e \/ \E j \in DOMAIN s : Append(s, e)[i] = s[j]
  OBVIOUS

LEMMA TailElems ==
  ASSUME NEW S, NEW s \in Seq(S), s # <<>>
  PROVE  /\ Tail(s) \in Seq(S)
         /\ 1 \in DOMAIN s /\ Head(s) = s[1] /\ s[1] \in S
         /\ \A i \in DOMAIN Tail(s) : \E j \in DOMAIN s : Tail(s)[i] = s[j]
  OBVIOUS

LEMMA ConsentInit == Init => ConsentInv
  <1> SUFFICES ASSUME Init PROVE ConsentInv
    OBVIOUS
  <1>1. commands \in Seq(AppCommand) /\ requests \in Seq(ServerCommand) /\ proxy_port \in Ports
    BY DEF Init
  <1>2. DOMAIN commands = {} /\ DOMAIN requests = {}
    BY DEF Init
  <1>3. bind_ip # Wild
    BY MediaBindAssumption DEF Init, MediaBindAssumption
  <1> QED
    BY <1>1, <1>2, <1>3 DEF Init, ConsentInv, WildcardNeedsConsent

\* A command leaves the channel; what it was, and what is left.
LEMMA TakeKeeps ==
  ASSUME ConsentInv, commands # <<>>, commands' = Tail(commands)
  PROVE  /\ commands' \in Seq(AppCommand)
         /\ Head(commands) \in AppCommand
         /\ Head(commands).op = "BindFallback" /\ Head(commands).consent => granted
         /\ \A i \in DOMAIN commands' :
              commands'[i].op = "BindFallback" /\ commands'[i].consent => granted
  BY TailElems DEF ConsentInv

LEMMA ServeKeeps ==
  ASSUME ConsentInv, requests # <<>>, requests' = Tail(requests)
  PROVE  /\ requests' \in Seq(ServerCommand)
         /\ Head(requests) \in ServerCommand
         /\ Head(requests).op = "SetBindAddr" /\ Head(requests).addr.ip = Wild => granted
         /\ \A i \in DOMAIN requests' :
              requests'[i].op = "SetBindAddr" /\ requests'[i].addr.ip = Wild => granted
  BY TailElems DEF ConsentInv

\* A bind request is queued, one for the wildcard only with consent.
LEMMA RequestKeeps ==
  ASSUME ConsentInv, NEW ip \in Ips \cup {Wild}, ip = Wild => granted,
         requests' = Append(requests, [op |-> "SetBindAddr", addr |-> [ip |-> ip, port |-> proxy_port]])
  PROVE  /\ requests' \in Seq(ServerCommand)
         /\ \A i \in DOMAIN requests' :
              requests'[i].op = "SetBindAddr" /\ requests'[i].addr.ip = Wild => granted
  <1> DEFINE e == [op |-> "SetBindAddr", addr |-> [ip |-> ip, port |-> proxy_port]]
  <1>1. e \in ServerCommand
    BY DEF ConsentInv, ServerCommand, Addr
  <1>2. e.addr.ip = Wild => granted
    OBVIOUS
  <1> HIDE DEF e
  <1>3. requests \in Seq(ServerCommand) /\ requests' = Append(requests, e)
    BY DEF ConsentInv, e
  <1> QED
    BY <1>1, <1>2, <1>3, AppendElems DEF ConsentInv

\* Steps that leave the channels, the latch and the server alone.
LEMMA QuietKeeps ==
  ASSUME ConsentInv, granted => granted',
         UNCHANGED <<proxy_port, wildcard_consented, requests, bind_ip, listener>>,
         commands' \in Seq(AppCommand),
         \A i \in DOMAIN commands' :
            commands'[i].op = "BindFallback" /\ commands'[i].consent => granted'
  PROVE  ConsentInv'
  BY DEF ConsentInv, WildcardNeedsConsent

\* Steps of the supervisor that queue a bind request, or none.
LEMMA SupervisorKeeps ==
  ASSUME ConsentInv, UNCHANGED <<granted, bind_ip, listener>>,
         proxy_port' \in Ports, wildcard_consented' => granted,
         commands' \in Seq(AppCommand),
         \A i \in DOMAIN commands' :
            commands'[i].op = "BindFallback" /\ commands'[i].consent => granted,
         requests' \in Seq(ServerCommand),
         \A i \in DOMAIN requests' :
            requests'[i].op = "SetBindAddr" /\ requests'[i].addr.ip = Wild => granted
  PROVE  ConsentInv'
  BY DEF ConsentInv, WildcardNeedsConsent

\* bind_addr, for an interface or, with consent, for the wildcard.
LEMMA BindAddrKeeps ==
  ASSUME ConsentInv, NEW ip \in Ips \cup {Wild}, ip = Wild => granted, NEW pc, BindAddr(ip, pc)
  PROVE  /\ requests' \in Seq(ServerCommand)
         /\ \A i \in DOMAIN requests' :
              requests'[i].op = "SetBindAddr" /\ requests'[i].addr.ip = Wild => granted
  <1>1. CASE server_up
    BY <1>1, RequestKeeps DEF BindAddr
  <1>2. CASE ~server_up
    BY <1>2 DEF BindAddr, ConsentInv
  <1> QED
    BY <1>1, <1>2

LEMMA GuiStep == ConsentInv /\ Gui => ConsentInv'
  <1> SUFFICES ASSUME ConsentInv, Gui PROVE ConsentInv'
    OBVIOUS
  <1>1. CASE ShowPrompt
    BY <1>1, QuietKeeps DEF ShowPrompt, ConsentInv, state, server
  <1>2. ASSUME NEW consent \in BOOLEAN, AnswerPrompt(consent) PROVE ConsentInv'
    <2> DEFINE c == [op |-> "BindFallback", consent |-> consent]
    <2>1. c \in AppCommand /\ c.consent = consent
      BY DEF AppCommand
    <2>2. commands \in Seq(AppCommand) /\ commands' = Append(commands, c)
      BY <1>2 DEF ConsentInv, AnswerPrompt
    <2>3. (granted => granted') /\ (consent => granted')
      BY <1>2 DEF AnswerPrompt
    <2> HIDE DEF c
    <2>4. /\ commands' \in Seq(AppCommand)
          /\ \A i \in DOMAIN commands' :
               commands'[i].op = "BindFallback" /\ commands'[i].consent => granted'
      BY <2>1, <2>2, <2>3, AppendElems DEF ConsentInv
    <2> QED
      BY <1>2, <2>3, <2>4, QuietKeeps DEF AnswerPrompt, state, server
  <1>3. ASSUME NEW c \in AppCommand, Dispatch(c) PROVE ConsentInv'
    <2>1. /\ commands' \in Seq(AppCommand)
          /\ \A i \in DOMAIN commands' :
               commands'[i].op = "BindFallback" /\ commands'[i].consent => granted
      BY <1>3, AppendElems DEF ConsentInv, Dispatch
    <2>2. granted' = granted
      BY <1>3 DEF Dispatch, gui
    <2> QED
      BY <1>3, <2>1, <2>2, QuietKeeps DEF Dispatch, state, server
  <1> QED
    BY <1>1, <1>2, <1>3 DEF Gui

LEMMA SupervisorStep == ConsentInv /\ Supervisor => ConsentInv'
  <1> SUFFICES ASSUME ConsentInv, Supervisor PROVE ConsentInv'
    OBVIOUS
  <1> USE DEF gui, server
  <1>1. CASE SelectReceiver
    <2>1. PICK ip \in Ips : BindAddr(ip, "LanBind")
      BY <1>1 DEF SelectReceiver
    <2>2. ip # Wild
      BY MediaBindAssumption DEF MediaBindAssumption
    <2> QED
      BY <1>1, <2>1, <2>2, BindAddrKeeps, TakeKeeps, SupervisorKeeps
      DEF SelectReceiver, Take, ConsentInv
  <1>2. CASE LanBindDone
    <2>1. UNCHANGED <<granted, commands, proxy_port, wildcard_consented, bind_ip, listener>>
      BY <1>2 DEF LanBindDone
    <2>2. /\ requests' \in Seq(ServerCommand)
          /\ \A i \in DOMAIN requests' :
               requests'[i].op = "SetBindAddr" /\ requests'[i].addr.ip = Wild => granted
      <3>1. CASE requests' = requests
        BY <3>1 DEF ConsentInv
      <3>2. CASE requests' # requests
        <4>1. wildcard_consented /\ requests' =
                Append(requests, [op |-> "SetBindAddr", addr |-> [ip |-> Wild, port |-> proxy_port]])
          BY <1>2, <3>2 DEF LanBindDone, FallbackAllowed
        <4> QED
          BY <4>1, RequestKeeps DEF ConsentInv
      <3> QED
        BY <3>1, <3>2
    <2> QED
      BY <2>1, <2>2, SupervisorKeeps DEF ConsentInv
  <1>3. CASE BindFallback
    <2>1. commands # <<>> /\ commands' = Tail(commands) /\ Head(commands).op = "BindFallback"
      BY <1>3 DEF BindFallback, Take
    <2>2. CASE Head(commands).consent
      <3>1. granted
        BY <2>1, <2>2, TakeKeeps
      <3>2. BindAddr(Wild, "WildBind")
        BY <1>3, <2>2 DEF BindFallback
      <3> QED
        BY <1>3, <2>1, <3>1, <3>2, BindAddrKeeps, TakeKeeps, SupervisorKeeps
        DEF BindFallback, ConsentInv
    <2>3. CASE ~Head(commands).consent
      BY <1>3, <2>1, <2>3, TakeKeeps, SupervisorKeeps DEF BindFallback, ConsentInv
    <2> QED
      BY <2>2, <2>3
  <1>4. CASE WildBindDone
    BY <1>4, QuietKeeps DEF WildBindDone, ConsentInv, state
  <1>5. CASE SetProxyPort
    <2>1. commands # <<>> /\ commands' = Tail(commands) /\ Head(commands).op = "SetProxyPort"
      BY <1>5 DEF SetProxyPort, Take
    <2>2. PICK port \in Ports : Head(commands).port = port
      BY <2>1, TakeKeeps DEF AppCommand
    <2>3. /\ requests' \in Seq(ServerCommand)
          /\ \A i \in DOMAIN requests' :
               requests'[i].op = "SetBindAddr" /\ requests'[i].addr.ip = Wild => granted
      <3> DEFINE e == [op |-> "SetPort", port |-> port]
      <3>1. e \in ServerCommand /\ e.op = "SetPort"
        BY DEF ServerCommand
      <3>2. requests' = Append(requests, e) \/ requests' = requests
        BY <1>5, <2>2 DEF SetProxyPort
      <3> HIDE DEF e
      <3>3. CASE requests' = Append(requests, e)
        <4>1. requests \in Seq(ServerCommand)
          BY DEF ConsentInv
        <4>2. /\ requests' \in Seq(ServerCommand)
              /\ \A i \in DOMAIN requests' :
                   requests'[i] = e \/ \E j \in DOMAIN requests : requests'[i] = requests[j]
          BY <3>1, <3>3, <4>1, AppendElems
        <4> QED
          BY <3>1, <4>2 DEF ConsentInv
      <3>4. CASE requests' = requests
        BY <3>4 DEF ConsentInv
      <3> QED
        BY <3>2, <3>3, <3>4
    <2> QED
      BY <1>5, <2>1, <2>2, <2>3, TakeKeeps, SupervisorKeeps DEF SetProxyPort, ConsentInv
  <1>6. CASE Play
    BY <1>6, TakeKeeps, QuietKeeps DEF Play, Take, state
  <1> QED
    BY <1>1, <1>2, <1>3, <1>4, <1>5, <1>6 DEF Supervisor

LEMMA ServerStep == ConsentInv /\ (Server \/ ServerEnds) => ConsentInv'
  <1> SUFFICES ASSUME ConsentInv, Server \/ ServerEnds PROVE ConsentInv'
    OBVIOUS
  <1> USE DEF gui, state
  <1>1. CASE SetPort
    <2>1. UNCHANGED <<granted, commands, proxy_port, wildcard_consented, bind_ip>>
      BY <1>1 DEF SetPort, Serve
    <2>2. listener' = listener \/ listener' = [ip |-> bind_ip, port |-> Head(requests).port]
      BY <1>1 DEF SetPort
    <2>3. listener' # None /\ listener'.ip = Wild => granted
      BY <2>2 DEF ConsentInv, WildcardNeedsConsent
    <2> QED
      BY <1>1, <2>1, <2>3, ServeKeeps DEF SetPort, Serve, ConsentInv, WildcardNeedsConsent
  <1>2. CASE SetBindAddr
    <2>1. UNCHANGED <<granted, commands, proxy_port, wildcard_consented>>
      BY <1>2 DEF SetBindAddr, Serve
    <2>2. \/ bind_ip' = Head(requests).addr.ip /\ listener' = Head(requests).addr
          \/ bind_ip' = bind_ip /\ listener' = None
      BY <1>2 DEF SetBindAddr, LosesListener
    <2>3. (bind_ip' = Wild => granted) /\ (listener' # None /\ listener'.ip = Wild => granted)
      BY <1>2, <2>2, ServeKeeps DEF ConsentInv, SetBindAddr, Serve
    <2> QED
      BY <1>2, <2>1, <2>3, ServeKeeps DEF SetBindAddr, Serve, ConsentInv, WildcardNeedsConsent
  <1>3. CASE ServerEnds
    <2>1. requests' \in Seq(ServerCommand) /\ DOMAIN requests' = {}
      BY <1>3 DEF ServerEnds
    <2> QED
      BY <1>3, <2>1 DEF ServerEnds, ConsentInv, WildcardNeedsConsent
  <1> QED
    BY <1>1, <1>2, <1>3 DEF Server

LEMMA ConsentStep == ConsentInv /\ [Next]_vars => ConsentInv'
  <1> SUFFICES ASSUME ConsentInv, [Next]_vars PROVE ConsentInv'
    OBVIOUS
  <1>1. CASE UNCHANGED vars
    BY <1>1, QuietKeeps DEF vars, gui, state, server, ConsentInv
  <1> QED
    BY <1>1, GuiStep, SupervisorStep, ServerStep DEF Next

\* The media server listens on 0.0.0.0 only after the user said yes to the
\* prompt, whatever the receiver selections, port changes, failed binds and
\* late answers before.
THEOREM ConsentFirst == Spec => []WildcardNeedsConsent
  <1>1. ConsentInv => WildcardNeedsConsent
    BY DEF ConsentInv
  <1> QED
    BY <1>1, ConsentInit, ConsentStep, PTL DEF Spec

-----------------------------------------------------------------------------
(* The types, the question, and the rebinds.                               *)

LEMMA TypeInit == Init => TypeOK
  <1> SUFFICES ASSUME Init PROVE TypeOK
    OBVIOUS
  <1>1. commands \in Seq(AppCommand) /\ requests \in Seq(ServerCommand) /\ asked \in Nat
    BY DEF Init
  <1> QED
    BY <1>1 DEF Init, TypeOK

\* What the two channels hand out.
LEMMA TakeTypes ==
  ASSUME TypeOK, NEW op, Take(op)
  PROVE  /\ commands' \in Seq(AppCommand) /\ Head(commands) \in AppCommand
         /\ op = "SetProxyPort" => Head(commands).port \in Ports
  <1>1. commands' \in Seq(AppCommand) /\ Head(commands) \in AppCommand /\ Head(commands).op = op
    BY TailElems DEF TypeOK, Take
  <1> QED
    BY <1>1 DEF AppCommand

LEMMA ServeTypes ==
  ASSUME TypeOK, NEW op, Serve(op)
  PROVE  /\ requests' \in Seq(ServerCommand) /\ Head(requests) \in ServerCommand
         /\ op = "SetPort" => Head(requests).port \in Ports
         /\ op = "SetBindAddr" => Head(requests).addr \in Addr
  <1>1. requests' \in Seq(ServerCommand) /\ Head(requests) \in ServerCommand /\ Head(requests).op = op
    BY TailElems DEF TypeOK, Serve
  <1> QED
    BY <1>1 DEF ServerCommand

LEMMA BindAddrTypes ==
  ASSUME TypeOK, NEW ip \in Ips \cup {Wild}, NEW pc, BindAddr(ip, pc)
  PROVE  requests' \in Seq(ServerCommand) /\ ack' \in {None, "Ok", "Err"} /\ sup' = pc
  <1>1. [op |-> "SetBindAddr", addr |-> [ip |-> ip, port |-> proxy_port]] \in ServerCommand
    BY DEF TypeOK, ServerCommand, Addr
  <1> DEFINE e == [op |-> "SetBindAddr", addr |-> [ip |-> ip, port |-> proxy_port]]
  <1>2. requests \in Seq(ServerCommand) /\ ack \in {None, "Ok", "Err"}
    BY DEF TypeOK
  <1>3. /\ sup' = pc /\ requests' \in {requests, Append(requests, e)} /\ ack' \in {ack, "Err"}
    BY DEF BindAddr
  <1>4. e \in ServerCommand
    BY <1>1
  <1> HIDE DEF e
  <1>5. Append(requests, e) \in Seq(ServerCommand)
    BY <1>2, <1>4
  <1> QED
    BY <1>2, <1>3, <1>5

LEMMA TypeStep == TypeOK /\ [Next]_vars => TypeOK'
  <1> SUFFICES ASSUME TypeOK, [Next]_vars PROVE TypeOK'
    OBVIOUS
  <1> USE MediaBindAssumption DEF gui, state, server
  <1>1. CASE ShowPrompt
    BY <1>1 DEF ShowPrompt, TypeOK
  <1>2. ASSUME NEW consent \in BOOLEAN, AnswerPrompt(consent) PROVE TypeOK'
    <2>1. [op |-> "BindFallback", consent |-> consent] \in AppCommand
      BY DEF AppCommand
    <2>2. commands' \in Seq(AppCommand) /\ prompt' = FALSE /\ granted' \in BOOLEAN /\ advert' = None
      BY <1>2, <2>1 DEF AnswerPrompt, TypeOK
    <2> QED
      BY <1>2, <2>2 DEF AnswerPrompt, TypeOK
  <1>3. ASSUME NEW c \in AppCommand, Dispatch(c) PROVE TypeOK'
    <2>1. commands' \in Seq(AppCommand)
      BY <1>3 DEF Dispatch, TypeOK
    <2> QED
      BY <1>3, <2>1 DEF Dispatch, TypeOK
  <1>4. CASE SelectReceiver
    <2>1. commands' \in Seq(AppCommand)
      BY <1>4, TakeTypes DEF SelectReceiver
    <2>2. requests' \in Seq(ServerCommand) /\ ack' \in {None, "Ok", "Err"} /\ sup' = "LanBind"
      BY <1>4, BindAddrTypes DEF SelectReceiver
    <2> QED
      BY <1>4, <2>1, <2>2 DEF SelectReceiver, TypeOK
  <1>5. CASE LanBindDone
    <2> DEFINE e == [op |-> "SetBindAddr", addr |-> [ip |-> Wild, port |-> proxy_port]]
    <2>1. e \in ServerCommand
      BY DEF TypeOK, ServerCommand, Addr
    <2>2. requests' \in Seq(ServerCommand) /\ ack' \in {None, "Ok", "Err"}
      <3>1. requests' \in {requests, Append(requests, e)} /\ ack' \in {ack, None}
        BY <1>5 DEF LanBindDone
      <3> HIDE DEF e
      <3>2. requests' \in Seq(ServerCommand)
        BY <2>1, <3>1 DEF TypeOK
      <3> QED
        BY <3>1, <3>2 DEF TypeOK
    <2>3. /\ sup' \in {"Idle", "WildBind"} /\ advert' = None
          /\ asked' = asked \/ asked' = asked + 1
          /\ fallback_pending' = fallback_pending \/ fallback_pending' = TRUE
      BY <1>5 DEF LanBindDone, RequestWildcardFallback
    <2>4. asked' \in Nat
      BY <2>3 DEF TypeOK
    <2>5. fallback_pending' \in BOOLEAN
      BY <2>3, Zenon DEF TypeOK
    <2>6. UNCHANGED <<prompt, granted, commands, lan_ip, proxy_port, wildcard_consented,
                      bind_ip, listener, bound_port, server_up>>
      BY <1>5 DEF LanBindDone
    <2> QED
      BY <2>2, <2>3, <2>4, <2>5, <2>6 DEF TypeOK
  <1>6. CASE BindFallback
    <2>1. commands' \in Seq(AppCommand)
      BY <1>6, TakeTypes DEF BindFallback
    <2>2. CASE Head(commands).consent
      <3>1. requests' \in Seq(ServerCommand) /\ ack' \in {None, "Ok", "Err"} /\ sup' = "WildBind"
        BY <1>6, <2>2, BindAddrTypes DEF BindFallback
      <3> QED
        BY <1>6, <2>1, <2>2, <3>1 DEF BindFallback, TypeOK
    <2>3. CASE ~Head(commands).consent
      <3>1. /\ fallback_pending' = FALSE /\ advert' = None
            /\ UNCHANGED <<wildcard_consented, sup, requests, ack, prompt, granted, asked, lan_ip,
                           proxy_port, bind_ip, listener, bound_port, server_up>>
        BY <1>6, <2>3 DEF BindFallback
      <3>2. /\ fallback_pending' \in BOOLEAN /\ wildcard_consented' \in BOOLEAN
            /\ prompt' \in BOOLEAN /\ granted' \in BOOLEAN /\ server_up' \in BOOLEAN
        BY <3>1, Zenon DEF TypeOK
      <3> QED
        BY <2>1, <3>1, <3>2 DEF TypeOK
    <2> QED
      BY <2>2, <2>3
  <1>7. CASE WildBindDone
    BY <1>7 DEF WildBindDone, TypeOK
  <1>8. CASE SetProxyPort
    <2>1. commands' \in Seq(AppCommand) /\ Head(commands).port \in Ports
      BY <1>8, TakeTypes DEF SetProxyPort
    <2>2. [op |-> "SetPort", port |-> Head(commands).port] \in ServerCommand
      BY <2>1 DEF ServerCommand
    <2>3. requests' \in Seq(ServerCommand)
      BY <1>8, <2>2 DEF SetProxyPort, TypeOK
    <2> QED
      BY <1>8, <2>1, <2>3 DEF SetProxyPort, TypeOK
  <1>9. CASE Play
    <2>1. commands' \in Seq(AppCommand)
      BY <1>9, TakeTypes DEF Play
    <2>2. advert' \in Addr \cup {None}
      BY <1>9 DEF Play, Unbound, TypeOK, Addr
    <2> QED
      BY <1>9, <2>1, <2>2 DEF Play, Take, TypeOK
  <1>10. CASE SetPort
    <2>1. requests' \in Seq(ServerCommand) /\ Head(requests).port \in Ports
      BY <1>10, ServeTypes DEF SetPort
    <2>2. listener' \in Addr \cup {None} /\ bound_port' \in Ports \cup {0}
      BY <1>10, <2>1 DEF SetPort, PublishPort, TypeOK, Addr
    <2> QED
      BY <1>10, <2>1, <2>2 DEF SetPort, Serve, TypeOK
  <1>11. CASE SetBindAddr
    <2>1. requests' \in Seq(ServerCommand) /\ Head(requests).addr \in Addr
      BY <1>11, ServeTypes DEF SetBindAddr
    <2>2. /\ bind_ip' \in Ips \cup {Wild, None} /\ listener' \in Addr \cup {None}
          /\ bound_port' \in Ports \cup {0} /\ ack' \in {"Ok", "Err"}
      BY <1>11, <2>1 DEF SetBindAddr, PublishPort, LosesListener, Acknowledge, TypeOK, Addr
    <2> QED
      BY <1>11, <2>1, <2>2 DEF SetBindAddr, Serve, TypeOK
  <1>12. CASE ServerEnds
    <2>1. requests' \in Seq(ServerCommand) /\ ack' \in {ack, "Err"}
      BY <1>12 DEF ServerEnds
    <2> QED
      BY <1>12, <2>1 DEF ServerEnds, TypeOK
  <1>13. CASE UNCHANGED vars
    <2>1. UNCHANGED <<prompt, granted, commands, asked, lan_ip, proxy_port, wildcard_consented,
                      fallback_pending, sup, advert, requests, bind_ip, listener, bound_port,
                      server_up, ack>>
      BY <1>13 DEF vars
    <2> QED
      BY <2>1 DEF TypeOK
  <1> QED
    BY <1>1, <1>2, <1>3, <1>4, <1>5, <1>6, <1>7, <1>8, <1>9, <1>10, <1>11, <1>12, <1>13
    DEF Next, Gui, Supervisor, Server

\* Who holds the question: nobody, or the event, the modal or one answer.
Question ==
    \/ fallback_pending = FALSE /\ asked = 0 /\ prompt = FALSE /\ Answers = {}
    \/ fallback_pending = TRUE /\ asked = 1 /\ prompt = FALSE /\ Answers = {}
    \/ fallback_pending = TRUE /\ asked = 0 /\ prompt = TRUE /\ Answers = {}
    \/ fallback_pending = TRUE /\ asked = 0 /\ prompt = FALSE
       /\ \E i \in DOMAIN commands : Answers = {i}

LEMMA QuestionInit == Init => Question
  BY DEF Init, Question, Answers

\* A command enters the channel behind the others, or leaves it before them.
LEMMA AnswerEnters ==
  ASSUME TypeOK, NEW c \in AppCommand, commands' = Append(commands, c)
  PROVE  Answers' = IF c.op = "BindFallback" THEN Answers \cup {Len(commands) + 1} ELSE Answers
  BY DEF TypeOK, Answers

LEMMA AnswerLeaves ==
  ASSUME TypeOK, NEW op, Take(op)
  PROVE  /\ \A i \in Nat : i \in Answers' <=> i + 1 \in Answers /\ i # 0
         /\ Answers' \subseteq Nat
         /\ 1 \in Answers <=> op = "BindFallback"
  <1>1. commands \in Seq(AppCommand) /\ Len(commands) >= 1 /\ commands' = Tail(commands)
    BY DEF TypeOK, Take
  <1>2. commands[1].op = op /\ 1 \in DOMAIN commands
    BY <1>1 DEF Take
  <1>3. /\ DOMAIN commands' = 1..(Len(commands) - 1)
        /\ \A i \in DOMAIN commands' : commands'[i] = commands[i + 1]
    BY <1>1
  <1> QED
    BY <1>1, <1>2, <1>3 DEF Answers

\* The supervisor takes a command that is no answer: the question stays.
LEMMA QuestionTaken ==
  ASSUME TypeOK, Question, NEW op, Take(op), op # "BindFallback",
         UNCHANGED <<asked, prompt, fallback_pending>>
  PROVE  Question'
  <1>1. CASE Answers = {}
    <2>1. Answers' = {}
      BY <1>1, AnswerLeaves
    <2> QED
      BY <1>1, <2>1 DEF Question
  <1>2. ASSUME NEW i \in DOMAIN commands, Answers = {i} PROVE Question'
    <2>1. i \in Nat /\ i # 1 /\ i > 0
      BY <1>2, AnswerLeaves DEF TypeOK
    <2>2. Answers' = {i - 1} /\ i - 1 \in DOMAIN commands'
      <3>1. i - 1 \in Nat /\ i - 1 # 0 /\ (i - 1) + 1 = i
        BY <2>1
      <3>2. i - 1 \in Answers'
        BY <1>2, <3>1, AnswerLeaves
      <3>3. \A j \in Answers' : j = i - 1
        BY <1>2, <2>1, AnswerLeaves
      <3> QED
        BY <3>2, <3>3 DEF Answers
    <2> QED
      BY <1>2, <2>2 DEF Question
  <1> QED
    BY <1>1, <1>2 DEF Question

LEMMA QuestionStep == TypeOK /\ Question /\ [Next]_vars => Question'
  <1> SUFFICES ASSUME TypeOK, Question, [Next]_vars PROVE Question'
    OBVIOUS
  <1> USE DEF gui, state
  <1>1. CASE ShowPrompt
    BY <1>1 DEF ShowPrompt, Question, Answers
  <1>2. ASSUME NEW consent \in BOOLEAN, AnswerPrompt(consent) PROVE Question'
    <2> DEFINE c == [op |-> "BindFallback", consent |-> consent]
    <2>1. c \in AppCommand /\ c.op = "BindFallback" /\ commands' = Append(commands, c)
      BY <1>2 DEF AnswerPrompt, AppCommand
    <2>2. Answers' = Answers \cup {Len(commands) + 1}
      BY <2>1, AnswerEnters
    <2>3. Len(commands) + 1 \in DOMAIN commands'
      BY <2>1 DEF TypeOK
    <2>4. Answers = {} /\ asked = 0 /\ fallback_pending = TRUE
      BY <1>2 DEF AnswerPrompt, Question
    <2> QED
      BY <1>2, <2>2, <2>3, <2>4 DEF AnswerPrompt, Question
  <1>3. ASSUME NEW c \in AppCommand, Dispatch(c) PROVE Question'
    <2>1. Answers' = Answers
      BY <1>3, AnswerEnters DEF Dispatch
    <2>2. DOMAIN commands \subseteq DOMAIN commands'
      BY <1>3 DEF Dispatch, TypeOK
    <2> QED
      BY <1>3, <2>1, <2>2 DEF Dispatch, Question
  <1>4. CASE SelectReceiver
    BY <1>4, QuestionTaken DEF SelectReceiver
  <1>5. CASE LanBindDone
    <2>1. UNCHANGED <<prompt, commands>> /\ Answers' = Answers
      BY <1>5 DEF LanBindDone, Answers
    <2>2. UNCHANGED <<asked, fallback_pending>> \/ RequestWildcardFallback
      BY <1>5 DEF LanBindDone
    <2> QED
      BY <2>1, <2>2 DEF RequestWildcardFallback, Question
  <1>6. CASE BindFallback
    <2>1. Take("BindFallback") /\ fallback_pending' = FALSE /\ UNCHANGED <<asked, prompt>>
      BY <1>6 DEF BindFallback
    <2>2. Answers = {1} /\ asked = 0 /\ prompt = FALSE
      BY <2>1, AnswerLeaves DEF Question
    <2>3. Answers' = {}
      BY <2>1, <2>2, AnswerLeaves
    <2> QED
      BY <2>1, <2>2, <2>3 DEF Question
  <1>7. CASE SetProxyPort
    BY <1>7, QuestionTaken DEF SetProxyPort
  <1>8. CASE Play
    BY <1>8, QuestionTaken DEF Play
  <1>9. CASE UNCHANGED <<prompt, commands, asked, fallback_pending>>
    BY <1>9 DEF Question, Answers
  <1> QED
    BY <1>1, <1>2, <1>3, <1>4, <1>5, <1>6, <1>7, <1>8, <1>9
    DEF Next, Gui, Supervisor, Server, WildBindDone, SetPort, SetBindAddr, Serve, ServerEnds, vars

\* The consent question is never lost and never doubled: while a request is
\* pending exactly one event, modal or answer stands for it, and what Play
\* advertises is a real address.
THEOREM QuestionAccounted == Spec => []PromptInv
  <1>1. Question => PromptAccounted
    <2>1. Cardinality({}) = 0 /\ \A i : Cardinality({i}) = 1
      BY FS_EmptySet, FS_Singleton
    <2>2. Answers = {} => Cardinality(Answers) = 0
      BY <2>1
    <2>3. (\E i \in DOMAIN commands : Answers = {i}) => Cardinality(Answers) = 1
      BY <2>1
    <2> QED
      BY <2>2, <2>3 DEF Question, PromptAccounted
  <1> QED
    BY <1>1, TypeInit, TypeStep, QuestionInit, QuestionStep, PTL DEF Spec, PromptInv

\* A bind of the address the supervisor wants now.
Wanted(addr) == addr.ip \in {lan_ip, Wild} /\ addr.port = proxy_port

\* Where the rebind in progress is.  Its request is the last one in the
\* channel; once it is acknowledged the channel is empty, and there is no
\* listener or the one asked for.  What listens has its port published.
Rebind ==
    /\ listener # None => listener.port = bound_port
    /\ server_up = FALSE => requests = <<>> /\ listener = None
    /\ sup = "Idle" => ack = None /\ \A i \in DOMAIN requests : requests[i].op = "SetPort"
    /\ sup # "Idle" /\ ack = None =>
         /\ requests # <<>>
         /\ requests[Len(requests)].op = "SetBindAddr" /\ Wanted(requests[Len(requests)].addr)
         /\ \A i \in DOMAIN requests : i # Len(requests) => requests[i].op = "SetPort"
    /\ sup # "Idle" /\ ack # None =>
         requests = <<>> /\ (listener = None \/ (ack = "Ok" /\ Wanted(listener)))

LEMMA RebindInit == Init => Rebind
  BY DEF Init, Rebind

\* bind_addr starts a rebind when nothing but SetPort is in the channel.
LEMMA RebindStarts ==
  ASSUME TypeOK, Rebind, NEW ip, NEW pc \in {"LanBind", "WildBind"},
         BindAddr(ip, pc), ip \in {lan_ip', Wild}, ack = None,
         \A i \in DOMAIN requests : requests[i].op = "SetPort",
         UNCHANGED <<proxy_port, server>>
  PROVE  Rebind'
  <1> DEFINE e == [op |-> "SetBindAddr", addr |-> [ip |-> ip, port |-> proxy_port]]
  <1>1. sup' # "Idle" /\ UNCHANGED <<listener, bound_port, server_up>>
    BY DEF BindAddr, server
  <1>2. CASE server_up
    <2>1. requests' = Append(requests, e) /\ ack' = None
      BY <1>2 DEF BindAddr
    <2>2. e.op = "SetBindAddr" /\ e.addr.ip \in {lan_ip', Wild} /\ e.addr.port = proxy_port'
      OBVIOUS
    <2> HIDE DEF e
    <2>3. /\ requests' # <<>> /\ requests'[Len(requests')] = e
          /\ \A i \in DOMAIN requests' : i # Len(requests') => requests'[i].op = "SetPort"
      BY <2>1 DEF TypeOK
    <2> QED
      BY <1>1, <1>2, <2>1, <2>2, <2>3 DEF Rebind, Wanted
  <1>3. CASE ~server_up
    <2>1. requests' = <<>> /\ listener' = None /\ ack' = "Err" /\ server_up = FALSE
      BY <1>1, <1>3 DEF BindAddr, Rebind, TypeOK
    <2>2. ack' # None /\ sup' # "Idle"
      BY <1>1, <2>1, MediaBindAssumption
    <2> QED
      BY <1>1, <2>1, <2>2 DEF Rebind
  <1> QED
    BY <1>2, <1>3

\* The server takes a request; a SetBindAddr is the last one.
LEMMA RebindServed ==
  ASSUME TypeOK, Rebind, NEW op \in {"SetPort", "SetBindAddr"}, Serve(op)
  PROVE  /\ op = "SetBindAddr" =>
              sup # "Idle" /\ ack = None /\ requests' = <<>> /\ Wanted(Head(requests).addr)
         /\ op = "SetPort" /\ sup # "Idle" => 
              /\ ack = None /\ requests' # <<>>
              /\ requests'[Len(requests')].op = "SetBindAddr" /\ Wanted(requests'[Len(requests')].addr)
              /\ \A i \in DOMAIN requests' : i # Len(requests') => requests'[i].op = "SetPort"
         /\ sup = "Idle" => \A i \in DOMAIN requests' : requests'[i].op = "SetPort"
  <1>1. /\ requests \in Seq(ServerCommand) /\ Len(requests) \in Nat \ {0} /\ requests # <<>>
        /\ requests' = Tail(requests) /\ requests[1].op = op /\ Head(requests) = requests[1]
        /\ DOMAIN requests = 1..Len(requests) /\ 1 \in DOMAIN requests
    BY DEF TypeOK, Serve
  <1>2. /\ Len(requests') = Len(requests) - 1 /\ DOMAIN requests' = 1..(Len(requests) - 1)
        /\ \A i \in DOMAIN requests' : requests'[i] = requests[i + 1]
    BY <1>1
  <1>3. CASE sup = "Idle"
    <2>1. \A i \in DOMAIN requests : requests[i].op = "SetPort"
      BY <1>3 DEF Rebind
    <2> QED
      BY <1>1, <1>2, <1>3, <2>1
  <1>4. CASE sup # "Idle"
    <2>1. ack = None
      BY <1>1, <1>4 DEF Rebind
    <2>2. /\ requests[Len(requests)].op = "SetBindAddr" /\ Wanted(requests[Len(requests)].addr)
          /\ \A i \in DOMAIN requests : i # Len(requests) => requests[i].op = "SetPort"
      BY <1>4, <2>1 DEF Rebind
    <2>3. CASE op = "SetBindAddr"
      <3>1. Len(requests) = 1
        BY <1>1, <2>2, <2>3
      <3> QED
        BY <1>1, <1>4, <2>1, <2>2, <2>3, <3>1
    <2>4. CASE op = "SetPort"
      <3>1. Len(requests) # 1
        BY <1>1, <2>2, <2>4
      <3>2. requests' # <<>> /\ requests'[Len(requests')] = requests[Len(requests)]
        <4>1. Len(requests) - 1 \in DOMAIN requests' /\ (Len(requests) - 1) + 1 = Len(requests)
          BY <1>1, <1>2, <3>1
        <4> QED
          BY <1>2, <4>1
      <3>3. \A i \in DOMAIN requests' : i # Len(requests') => requests'[i].op = "SetPort"
        BY <1>1, <1>2, <2>2
      <3> QED
        BY <1>4, <2>1, <2>2, <2>4, <3>2, <3>3
    <2> QED
      BY <2>3, <2>4
  <1> QED
    BY <1>3, <1>4

LEMMA RebindStep == TypeOK /\ Rebind /\ [Next]_vars => Rebind'
  <1> SUFFICES ASSUME TypeOK, Rebind, [Next]_vars PROVE Rebind'
    OBVIOUS
  <1> DEFINE Others == <<lan_ip, proxy_port, sup, requests, listener, bound_port, server_up, ack>>
  <1>1. CASE UNCHANGED Others
    BY <1>1 DEF Rebind, Wanted
  <1>2. CASE SelectReceiver
    <2>1. ack = None /\ \A i \in DOMAIN requests : requests[i].op = "SetPort"
      BY <1>2 DEF SelectReceiver, Take, Rebind
    <2> QED
      BY <1>2, <2>1, RebindStarts DEF SelectReceiver
  <1>3. CASE LanBindDone
    <2>1. requests = <<>> /\ UNCHANGED <<lan_ip, proxy_port, server>> /\ ack # None /\ sup # "Idle"
      BY <1>3 DEF LanBindDone, Rebind
    <2>2. DOMAIN requests = {}
      BY <2>1
    <2>3. CASE sup' = "Idle"
      <3>1. ack' = None /\ requests' = <<>>
        BY <1>3, <2>1, <2>3 DEF LanBindDone
      <3> QED
        BY <2>1, <2>2, <2>3, <3>1 DEF Rebind, server
    <2>4. CASE sup' = "WildBind"
      <3> DEFINE e == [op |-> "SetBindAddr", addr |-> [ip |-> Wild, port |-> proxy_port]]
      <3>1. IF server_up THEN ack' = None /\ requests' = Append(requests, e)
            ELSE UNCHANGED <<ack, requests>>
        BY <1>3, <2>4 DEF LanBindDone
      <3>2. CASE server_up
        <4>1. e.op = "SetBindAddr" /\ e.addr.ip = Wild /\ e.addr.port = proxy_port'
          BY <2>1
        <4> HIDE DEF e
        <4>2. requests' = <<e>> /\ requests' # <<>> /\ Len(requests') = 1 /\ requests'[1] = e
              /\ DOMAIN requests' = {1}
          BY <2>1, <3>1, <3>2
        <4> QED
          BY <2>1, <2>4, <3>1, <3>2, <4>1, <4>2 DEF Rebind, Wanted, server
      <3>3. CASE ~server_up
        BY <2>1, <2>4, <3>1, <3>3 DEF Rebind, Wanted, server, TypeOK
      <3> QED
        BY <3>2, <3>3
    <2> QED
      BY <1>3, <2>3, <2>4 DEF LanBindDone
  <1>4. CASE BindFallback
    <2>1. ack = None /\ \A i \in DOMAIN requests : requests[i].op = "SetPort"
      BY <1>4 DEF BindFallback, Take, Rebind
    <2>2. CASE Head(commands).consent
      BY <1>4, <2>1, <2>2, RebindStarts DEF BindFallback
    <2>3. CASE ~Head(commands).consent
      <3>1. UNCHANGED Others
        BY <1>4, <2>3 DEF BindFallback, server
      <3> QED
        BY <1>1, <3>1
    <2> QED
      BY <2>2, <2>3
  <1>5. CASE WildBindDone
    <2>1. requests = <<>> /\ UNCHANGED <<listener, bound_port, server_up, requests>>
          /\ ack' = None /\ sup' = "Idle"
      BY <1>5 DEF WildBindDone, Rebind, server
    <2>2. DOMAIN requests' = {}
      BY <2>1
    <2> QED
      BY <2>1, <2>2 DEF Rebind
  <1>6. CASE SetProxyPort
    <2>1. /\ sup = "Idle" /\ sup' = "Idle" /\ ack' = None
          /\ UNCHANGED <<listener, bound_port, server_up>>
          /\ \A i \in DOMAIN requests : requests[i].op = "SetPort"
      BY <1>6 DEF SetProxyPort, Take, Rebind, server
    <2>2. CASE ~server_up
      BY <1>6, <2>1, <2>2 DEF SetProxyPort, Rebind
    <2>3. CASE server_up
      <3>1. PICK e : e.op = "SetPort" /\ requests' = Append(requests, e)
        BY <1>6, <2>3 DEF SetProxyPort
      <3>2. \A i \in DOMAIN requests' : requests'[i] = e \/ (i \in DOMAIN requests /\ requests'[i] = requests[i])
        BY <3>1 DEF TypeOK
      <3> QED
        BY <2>1, <2>3, <3>1, <3>2 DEF Rebind
    <2> QED
      BY <2>2, <2>3
  <1>7. CASE SetPort
    <2>1. Serve("SetPort") /\ server_up /\ UNCHANGED <<lan_ip, proxy_port, sup, server_up, ack>>
      BY <1>7 DEF SetPort, Serve, state
    <2>2. listener' # None => listener'.port = bound_port'
      BY <1>7 DEF SetPort, PublishPort, Rebind
    <2>3. CASE sup = "Idle"
      BY <2>1, <2>2, <2>3, RebindServed DEF Rebind
    <2>4. CASE sup # "Idle"
      BY <2>1, <2>2, <2>4, RebindServed DEF Rebind, Wanted
    <2> QED
      BY <2>3, <2>4
  <1>8. CASE SetBindAddr
    <2>1. Serve("SetBindAddr") /\ server_up /\ UNCHANGED <<lan_ip, proxy_port, sup, server_up>>
      BY <1>8 DEF SetBindAddr, Serve, state
    <2>2. sup # "Idle" /\ requests' = <<>> /\ Wanted(Head(requests).addr)
      BY <2>1, RebindServed
    <2>3. ack' # None
      BY <1>8, MediaBindAssumption DEF SetBindAddr, Acknowledge
    <2>4. \/ listener' = None
          \/ listener' = Head(requests).addr /\ bound_port' = listener'.port /\ ack' = "Ok"
      BY <1>8 DEF SetBindAddr, PublishPort, LosesListener, Acknowledge
    <2> QED
      BY <2>1, <2>2, <2>3, <2>4 DEF Rebind, Wanted
  <1>9. CASE ServerEnds
    <2>1. /\ requests' = <<>> /\ DOMAIN requests' = {} /\ listener' = None /\ server_up' = FALSE
          /\ UNCHANGED <<lan_ip, proxy_port, sup>>
      BY <1>9 DEF ServerEnds, state
    <2>2. CASE sup = "Idle"
      <3>1. ack' = None
        BY <1>9, <2>2 DEF ServerEnds, Rebind
      <3> QED
        BY <2>1, <2>2, <3>1 DEF Rebind
    <2>3. CASE sup # "Idle"
      <3>1. ack = None => \E i \in DOMAIN requests : requests[i].op = "SetBindAddr"
        <4>1. requests # <<>> => Len(requests) \in DOMAIN requests
          BY DEF TypeOK
        <4> QED
          BY <2>3, <4>1 DEF Rebind
      <3>2. ack' # None
        BY <1>9, <3>1, MediaBindAssumption DEF ServerEnds
      <3> QED
        BY <2>1, <2>3, <3>2 DEF Rebind
    <2> QED
      BY <2>2, <2>3
  <1>10. CASE ShowPrompt \/ (\E consent \in BOOLEAN : AnswerPrompt(consent))
              \/ (\E c \in AppCommand : Dispatch(c)) \/ Play \/ UNCHANGED vars
    <2>1. UNCHANGED Others
      BY <1>10 DEF ShowPrompt, AnswerPrompt, Dispatch, Play, vars, state, server
    <2> QED
      BY <1>1, <2>1
  <1> QED
    BY <1>2, <1>3, <1>4, <1>5, <1>6, <1>7, <1>8, <1>9, <1>10 DEF Next, Gui, Supervisor, Server

\* When rebind_to_lan_ip or bind_wildcard is over, what listens is on the
\* address it was asked for, at the port configured now.
THEOREM RebindsFollow == Spec => RebindFollowsReceiver
  <1> DEFINE Follow == sup # "Idle" /\ sup' = "Idle" /\ listener' # None =>
                         listener'.ip \in {lan_ip', Wild} /\ listener'.port = proxy_port'
  <1>1. TypeOK /\ Rebind /\ [Next]_vars => [Follow]_vars
    <2> SUFFICES ASSUME TypeOK, Rebind, Next, sup # "Idle", sup' = "Idle", listener' # None
                 PROVE  listener'.ip \in {lan_ip', Wild} /\ listener'.port = proxy_port'
      OBVIOUS
    <2>1. LanBindDone \/ WildBindDone
      BY DEF Next, Gui, Supervisor, Server, ShowPrompt, AnswerPrompt, Dispatch, SelectReceiver, BindFallback,
         SetProxyPort, Play, Take, SetPort, SetBindAddr, Serve, ServerEnds
    <2>2. ack # None /\ UNCHANGED <<lan_ip, proxy_port, listener>>
      BY <2>1 DEF LanBindDone, WildBindDone, state, server
    <2> QED
      BY <2>2 DEF Rebind, Wanted
  <1> QED
    BY <1>1, TypeInit, TypeStep, RebindInit, RebindStep, PTL DEF Spec, RebindFollowsReceiver

\* The URL of a LOAD carries the port of the listener there is.
THEOREM AdvertsListen == Spec => AdvertisesListeningPort
  <1> DEFINE Advertise == advert' # None /\ listener # None => advert'.port = listener.port
  <1>1. TypeOK /\ Rebind /\ [Next]_vars => [Advertise]_vars
    <2> SUFFICES ASSUME Rebind, Next, advert' # None, listener # None
                 PROVE  advert'.port = listener.port
      OBVIOUS
    <2>1. Play
      BY DEF Next, Gui, Supervisor, Server, ShowPrompt, AnswerPrompt, Dispatch, SelectReceiver, BindFallback,
         SetProxyPort, LanBindDone, WildBindDone, SetPort, SetBindAddr, Serve, ServerEnds
    <2> QED
      BY <2>1 DEF Play, Rebind
  <1> QED
    BY <1>1, TypeInit, TypeStep, RebindInit, RebindStep, PTL DEF Spec, AdvertisesListeningPort

=============================================================================
