------------------------------ MODULE MediaBind ------------------------------
(***************************************************************************)
(* Where the media server listens: the GUI's consent prompt, the           *)
(* supervisor (src/runtime.rs) and the media-server task                   *)
(* (src/media/server.rs), which talk over an AppCommand channel, an event  *)
(* channel, a ServerCommand channel, a oneshot acknowledgement and a watch *)
(* on the bound port.                                                      *)
(*                                                                         *)
(* The supervisor handles one command at a time and awaits the             *)
(* acknowledgement of every SetBindAddr; SetPort is sent and forgotten.    *)
(* Which interface address suits a receiver, and whether a bind succeeds,  *)
(* are choices, but a port the server itself still holds cannot be bound   *)
(* again.                                                                  *)
(***************************************************************************)
EXTENDS Naturals, Sequences, FiniteSets

CONSTANTS
    Ips,          \* interface addresses
    Wild,         \* 0.0.0.0
    Ports,        \* ports the settings allow (1024..65535)
    MaxQueue,     \* bound on the AppCommand channel
    MaxRequests,  \* bound on the ServerCommand channel
    Upsets,       \* "ServerEnds" if the server task may end
    None

ASSUME MediaBindAssumption ==
    /\ Wild \notin Ips
    /\ None \notin Ips \cup {Wild, "Ok", "Err"}
    /\ Ports \subseteq Nat \ {0}
    /\ MaxQueue \in Nat /\ MaxRequests \in Nat
    /\ Upsets \subseteq {"ServerEnds"}

Addr == [ip : Ips \cup {Wild}, port : Ports]

AppCommand == [op : {"SelectReceiver", "Play"}]
              \cup [op : {"SetProxyPort"}, port : Ports]
              \cup [op : {"BindFallback"}, consent : BOOLEAN]

ServerCommand == [op : {"SetPort"}, port : Ports] \cup [op : {"SetBindAddr"}, addr : Addr]

VARIABLES
    prompt,       \* CastDashboard.bind_fallback is Some: the modal is open
    granted,      \* history: the user has answered yes
    commands,     \* AppCommand channel
    asked,        \* BindFallbackRequested events not yet drained by the GUI
    lan_ip, proxy_port, wildcard_consented, fallback_pending,   \* SupervisorState
    sup,          \* what the supervisor awaits: nothing, or a bind's ack
    advert,       \* the URL of the LOAD issued in this step, or None
    requests,     \* ServerCommand channel
    bind_ip, listener, bound_port,                              \* server task
    ack,          \* the oneshot: None, "Ok" or "Err"
    server_up

gui    == <<prompt, granted>>
state  == <<lan_ip, proxy_port, wildcard_consented, fallback_pending>>
server == <<bind_ip, listener, bound_port, server_up>>
vars   == <<gui, commands, asked, state, sup, advert, requests, server, ack>>

\* supervise: unbound, and the first thing it does is to ask.
Init ==
    /\ prompt = FALSE /\ granted = FALSE
    /\ commands = <<>> /\ asked = 1
    /\ lan_ip \in Ips /\ proxy_port \in Ports
    /\ wildcard_consented = FALSE /\ fallback_pending = TRUE
    /\ sup = "Idle" /\ advert = None
    /\ requests = <<>> /\ ack = None
    /\ bind_ip = None /\ listener = None /\ bound_port = 0 /\ server_up = TRUE

-----------------------------------------------------------------------------
(* The GUI.  The consent modal keeps the user from everything else.        *)

\* apply_event(BindFallbackRequested): open, or refresh, the modal.
ShowPrompt ==
    /\ asked > 0
    /\ asked' = asked - 1 /\ prompt' = TRUE /\ advert' = None
    /\ UNCHANGED <<granted, commands, state, sup, requests, server, ack>>

\* answer_bind_fallback
AnswerPrompt(consent) ==
    /\ prompt
    /\ prompt' = FALSE /\ granted' = (granted \/ consent) /\ advert' = None
    /\ commands' = Append(commands, [op |-> "BindFallback", consent |-> consent])
    /\ UNCHANGED <<asked, state, sup, requests, server, ack>>

\* select_receiver, try_manual_connect, save_proxy_port, play
Dispatch(c) ==
    /\ ~prompt /\ c.op # "BindFallback"
    /\ Len(commands) < MaxQueue
    /\ commands' = Append(commands, c) /\ advert' = None
    /\ UNCHANGED <<gui, asked, state, sup, requests, server, ack>>

-----------------------------------------------------------------------------
(* The supervisor.                                                         *)

Take(op) ==
    /\ sup = "Idle" /\ commands # <<>> /\ Head(commands).op = op
    /\ commands' = Tail(commands)

\* bind_addr: send SetBindAddr and await its ack in state pc.  The ack of a
\* server that has ended is an error.
BindAddr(ip, pc) ==
    /\ sup' = pc
    /\ IF server_up
       THEN requests' = Append(requests, [op |-> "SetBindAddr", addr |-> [ip |-> ip, port |-> proxy_port]])
            /\ UNCHANGED ack
       ELSE ack' = "Err" /\ UNCHANGED requests

\* request_wildcard_fallback: at most one request is outstanding.
AskAgain == asked' = asked + 1 /\ fallback_pending' = TRUE
RequestWildcardFallback ==
    /\ asked' = IF fallback_pending THEN asked ELSE asked + 1
    /\ fallback_pending' = TRUE

\* SelectReceiver and ManualConnect: cast.select, then rebind_to_lan_ip.
SelectReceiver ==
    /\ Take("SelectReceiver")
    /\ lan_ip' \in Ips
    /\ BindAddr(lan_ip', "LanBind") /\ advert' = None
    /\ UNCHANGED <<gui, asked, proxy_port, wildcard_consented, fallback_pending, server>>

\* Whether a failed bind may fall back to the wildcard without asking.
FallbackAllowedAnyway == TRUE
FallbackAllowed == wildcard_consented

\* rebind_to_lan_ip, when the ack arrives.
LanBindDone ==
    /\ sup = "LanBind" /\ ack # None
    /\ advert' = None
    /\ \/ /\ ack = "Ok"
          /\ sup' = "Idle" /\ ack' = None
          /\ UNCHANGED <<asked, requests, fallback_pending>>
       \/ /\ ack = "Err" /\ FallbackAllowed
          /\ sup' = "WildBind"
          /\ IF server_up
             THEN /\ ack' = None
                  /\ requests' = Append(requests, [op |-> "SetBindAddr", addr |-> [ip |-> Wild, port |-> proxy_port]])
             ELSE UNCHANGED <<ack, requests>>
          /\ UNCHANGED <<asked, fallback_pending>>
       \/ /\ ack = "Err" /\ ~FallbackAllowed
          /\ sup' = "Idle" /\ ack' = None
          /\ RequestWildcardFallback
          /\ UNCHANGED requests
    /\ UNCHANGED <<gui, commands, lan_ip, proxy_port, wildcard_consented, server>>

\* BindFallback: the answer; yes latches and binds the wildcard.
BindFallback ==
    /\ Take("BindFallback")
    /\ fallback_pending' = FALSE /\ advert' = None
    /\ IF Head(commands).consent
       THEN wildcard_consented' = TRUE /\ BindAddr(Wild, "WildBind")
       ELSE UNCHANGED <<wildcard_consented, sup, requests, ack>>
    /\ UNCHANGED <<gui, asked, lan_ip, proxy_port, server>>

\* bind_wildcard, when the ack arrives: a failure is only logged.
WildBindDone ==
    /\ sup = "WildBind" /\ ack # None
    /\ sup' = "Idle" /\ ack' = None /\ advert' = None
    /\ UNCHANGED <<gui, commands, asked, state, requests, server>>

SetProxyPort ==
    /\ Take("SetProxyPort") /\ Len(requests) < MaxRequests
    /\ proxy_port' = Head(commands).port /\ advert' = None
    /\ requests' = IF server_up
                   THEN Append(requests, [op |-> "SetPort", port |-> Head(commands).port])
                   ELSE requests
    /\ UNCHANGED <<gui, asked, lan_ip, wildcard_consented, fallback_pending, sup, server, ack>>

\* Play gives up while the server was never bound.
Unbound == bound_port = 0

\* Play, with a source active: a LOAD of http://lan_ip:bound_port/stream.
Play ==
    /\ Take("Play")
    /\ advert' = IF Unbound THEN None ELSE [ip |-> lan_ip, port |-> bound_port]
    /\ UNCHANGED <<gui, asked, state, sup, requests, server, ack>>

-----------------------------------------------------------------------------
(* The media-server task.                                                  *)

Serve(op) ==
    /\ server_up /\ requests # <<>> /\ Head(requests).op = op
    /\ requests' = Tail(requests)
    /\ advert' = None
    /\ UNCHANGED <<gui, commands, asked, state, sup, server_up>>

\* The server still holds a listener on which a bind of ip:port would clash.
Clash(ip, port) ==
    /\ listener # None /\ listener.port = port
    /\ listener.ip = ip \/ Wild \in {listener.ip, ip}

\* port_tx.send
PublishFirst(port) == bound_port' = IF bound_port = 0 THEN port ELSE bound_port
PublishPort(port) == bound_port' = port

\* Without a bind address SetPort is ignored; a failed bind keeps the listener.
SetPort ==
    /\ Serve("SetPort")
    /\ LET port == Head(requests).port
       IN  \/ /\ bind_ip # None /\ ~Clash(bind_ip, port)
              /\ listener' = [ip |-> bind_ip, port |-> port] /\ PublishPort(port)
           \/ UNCHANGED <<listener, bound_port>>
    /\ UNCHANGED <<bind_ip, ack>>

\* What a failed SetBindAddr leaves: the old listener was dropped first.
KeepsListener == UNCHANGED listener
LosesListener == listener' = None

\* The result of the bind is always acknowledged.
AckOnlySuccess(result) == IF result = "Ok" THEN ack' = result ELSE UNCHANGED ack
Acknowledge(result) == ack' = result

SetBindAddr ==
    /\ Serve("SetBindAddr")
    /\ LET addr == Head(requests).addr
       IN  \/ /\ bind_ip' = addr.ip /\ listener' = addr /\ PublishPort(addr.port)
              /\ Acknowledge("Ok")
           \/ /\ LosesListener
              /\ Acknowledge("Err")
              /\ UNCHANGED <<bind_ip, bound_port>>

\* The task ends (token): the listener, the channel and the acks in it drop.
ServerEnds ==
    /\ "ServerEnds" \in Upsets
    /\ server_up /\ server_up' = FALSE
    /\ listener' = None /\ requests' = <<>> /\ advert' = None
    /\ ack' = IF \E i \in DOMAIN requests : requests[i].op = "SetBindAddr" THEN "Err" ELSE ack
    /\ UNCHANGED <<gui, commands, asked, state, sup, bind_ip, bound_port>>

-----------------------------------------------------------------------------

Gui ==
    \/ ShowPrompt
    \/ \E consent \in BOOLEAN : AnswerPrompt(consent)
    \/ \E c \in AppCommand : Dispatch(c)

Supervisor ==
    \/ SelectReceiver
    \/ LanBindDone
    \/ BindFallback
    \/ WildBindDone
    \/ SetProxyPort
    \/ Play

Server == SetPort \/ SetBindAddr

Next == Gui \/ Supervisor \/ Server \/ ServerEnds

Spec == Init /\ [][Next]_vars

\* Both tasks are runnable while they have something to do.
FairSpec == Spec /\ WF_vars(Supervisor) /\ WF_vars(Server)

-----------------------------------------------------------------------------

\* Types; in particular what Play advertises is a real address: it never goes
\* out with port 0, the bound_port of a server that is not bound yet.
TypeOK ==
    /\ prompt \in BOOLEAN /\ granted \in BOOLEAN
    /\ commands \in Seq(AppCommand) /\ asked \in Nat
    /\ lan_ip \in Ips /\ proxy_port \in Ports
    /\ wildcard_consented \in BOOLEAN /\ fallback_pending \in BOOLEAN
    /\ sup \in {"Idle", "LanBind", "WildBind"} /\ advert \in Addr \cup {None}
    /\ requests \in Seq(ServerCommand) /\ ack \in {None, "Ok", "Err"}
    /\ bind_ip \in Ips \cup {Wild, None} /\ listener \in Addr \cup {None}
    /\ bound_port \in Ports \cup {0} /\ server_up \in BOOLEAN

\* "The wildcard bind SHALL be used only after that consent": nothing listens
\* on all interfaces before the user has said yes, however the answer, port
\* changes, re-selections and failed binds interleave.
WildcardNeedsConsent ==
    listener # None /\ listener.ip = Wild => granted

\* Why: a wildcard bind is only ever asked for by an answer, or by a failed
\* bind after one, and SetPort reuses an address bound before.
ConsentInv ==
    /\ commands \in Seq(AppCommand) /\ requests \in Seq(ServerCommand) /\ proxy_port \in Ports
    /\ \A i \in DOMAIN commands :
         commands[i].op = "BindFallback" /\ commands[i].consent => granted
    /\ wildcard_consented => granted
    /\ \A i \in DOMAIN requests :
         requests[i].op = "SetBindAddr" /\ requests[i].addr.ip = Wild => granted
    /\ bind_ip = Wild => granted
    /\ WildcardNeedsConsent

\* Someone always holds the question: the request is pending exactly while its
\* event, the open modal or the queued answer exists, and only one of them
\* (request_wildcard_fallback, apply_event, answer_bind_fallback).
Answers == {i \in DOMAIN commands : commands[i].op = "BindFallback"}
PromptAccounted ==
    asked + (IF prompt THEN 1 ELSE 0) + Cardinality(Answers) = IF fallback_pending THEN 1 ELSE 0

\* What holds of the question and of the addresses in use at every moment.
PromptInv == TypeOK /\ PromptAccounted

\* When a rebind is over, the listener, if there is one, is on the interface
\* of the receiver selected last, or on the wildcard, at the configured port:
\* no listener of an earlier selection survives.
RebindFollowsReceiver ==
    [][sup # "Idle" /\ sup' = "Idle" /\ listener' # None =>
         listener'.ip \in {lan_ip', Wild} /\ listener'.port = proxy_port']_vars

\* While something listens, Play advertises the port it listens on, even
\* between a SetPort and its effect.
AdvertisesListeningPort ==
    [][advert' # None /\ listener # None => advert'.port = listener.port]_vars

\* The supervisor never waits for an acknowledgement that does not come, not
\* even from a server that ends meanwhile.
RebindsFinish == (sup # "Idle") ~> (sup = "Idle")

=============================================================================
