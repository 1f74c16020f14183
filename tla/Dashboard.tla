------------------------------ MODULE Dashboard ------------------------------
(***************************************************************************)
(* The dashboard's picture of the backend (src/app.rs) and the supervisor  *)
(* between them (src/runtime.rs).  The user acts on the picture, which is  *)
(* as old as the events on their way to it; what he does takes two         *)
(* channels to reach the connection task, of which ReceiverLink has what   *)
(* it promises.  Connection shows that the task keeps the promise.         *)
(*                                                                         *)
(* Volume has the slider, MediaBind the consent prompt.  Banners, tabs,    *)
(* the settings and the text fields change nothing but themselves.         *)
(***************************************************************************)
EXTENDS ReceiverLink, Naturals, Sequences

CONSTANTS
    MaxPicks,      \* bound on the receivers the user selects
    MaxPlays,      \* bound on his clicks on Play
    MaxUpsets,     \* bound on links lost and statuses sent
    MaxSnapshots   \* bound on the receiver lists discovery publishes

ASSUME DashboardAssumption ==
    {MaxPicks, MaxPlays, MaxUpsets, MaxSnapshots} \subseteq Nat /\ None \notin Devices

VARIABLES
    gui,       \* the dashboard's fields
    orders,    \* AppCommand channel
    casts,     \* Command channel of the connection task
    facts,     \* ConnectionEvent channel
    inbox,     \* BackendEvent channel
    mdns,      \* the discovery task runs
    table,     \* the list it published last
    picked,    \* history: the receiver the user picked last
    picks, plays, upsets, snapshots

counts   == <<picks, plays, upsets, snapshots>>
dashVars == <<linkVars, gui, orders, casts, facts, inbox, mdns, table, picked, counts>>

Connected(d)    == [kind |-> "Connected", device |-> d]
Disconnected(d) == [kind |-> "Disconnected", device |-> d]
Failure         == [kind |-> "Error"]
MediaStatus     == [kind |-> "MediaStatus"]
Receivers(ds)   == [kind |-> "Receivers", devices |-> ds]

\* A socket that cannot be set up is reported as a connection error.
DashInit ==
    /\ LinkInit
    /\ gui = [selected |-> None, connection |-> None, playing |-> FALSE,
              listed |-> {}, discovery |-> "Scanning"]
    /\ orders = <<>> /\ casts = <<>> /\ facts = <<>>
    /\ mdns \in BOOLEAN /\ inbox = IF mdns THEN <<>> ELSE <<Failure>>
    /\ table = {} /\ picked = None
    /\ picks = 0 /\ plays = 0 /\ upsets = 0 /\ snapshots = 0

-----------------------------------------------------------------------------
(* The dashboard.                                                          *)

\* ReceiverConnected shows its receiver as the selected one;
\* ReceiverDisconnected deselects the receiver it names, and no other.
KeepSelected(g, d) == g.selected
NowSelected(g, d)  == d
Deselected(g, d)   == IF g.selected = d THEN None ELSE g.selected

ApplyEvent(g, e) ==
    CASE e.kind = "Receivers" ->
           [g EXCEPT !.listed = e.devices,
                     !.discovery = IF e.devices = {} THEN "NoReceivers" ELSE "Ready"]
      [] e.kind = "Connected" ->
           [g EXCEPT !.selected = NowSelected(g, e.device), !.connection = e.device]
      [] e.kind = "Disconnected" ->
           [g EXCEPT !.selected = Deselected(g, e.device),
                     !.connection = None, !.playing = FALSE]
      [] e.kind = "Error" ->
           [g EXCEPT !.connection = None, !.playing = FALSE,
                     !.discovery = IF g.listed = {} THEN "Error" ELSE g.discovery]
      [] e.kind = "MediaStatus" -> [g EXCEPT !.playing = TRUE]

\* A frame drains the channel before the user sees anything of it.
Drained(g, events) ==
    LET after[i \in 0..Len(events)] == IF i = 0 THEN g ELSE ApplyEvent(after[i - 1], events[i])
    IN  after[Len(events)]

HandleEvents ==
    /\ inbox # <<>> /\ inbox' = <<>> /\ gui' = Drained(gui, inbox)
    /\ UNCHANGED <<linkVars, orders, casts, facts, mdns, table, picked, counts>>

Dispatch(order) ==
    /\ orders' = Append(orders, order)
    /\ UNCHANGED <<linkVars, casts, facts, inbox, mdns, table, upsets, snapshots>>

\* A receiver of the list, or one whose address is typed in.
SelectReceiver(d) ==
    /\ picks < MaxPicks /\ picks' = picks + 1 /\ picked' = d
    /\ gui' = [gui EXCEPT !.selected = d]
    /\ Dispatch([op |-> "Select", device |-> d]) /\ UNCHANGED plays

\* can_play; a source is active.
CanPlay == gui.selected # None

Play ==
    /\ CanPlay /\ plays < MaxPlays /\ plays' = plays + 1
    /\ Dispatch([op |-> "Play", for |-> picked]) /\ UNCHANGED <<gui, picked, picks>>

RetryDiscovery ==
    /\ gui.discovery = "Error" /\ gui' = [gui EXCEPT !.discovery = "Scanning"]
    /\ Dispatch([op |-> "Rescan"]) /\ UNCHANGED <<picked, picks, plays>>

-----------------------------------------------------------------------------
(* The supervisor.                                                         *)

\* handle_command: Play is dropped unless the media server is bound;
\* Rescan binds the socket again if discovery never started, which may fail.
HandleOrder ==
    /\ orders # <<>> /\ orders' = Tail(orders)
    /\ LET o == Head(orders)
       IN \/ /\ o.op = "Select" /\ casts' = Append(casts, o)
             /\ UNCHANGED mdns
          \/ /\ o.op = "Play"
             /\ casts' \in {casts, Append(casts, [op |-> "Load", for |-> o.for])}
             /\ UNCHANGED mdns
          \/ /\ o.op = "Rescan" /\ mdns' \in {mdns, TRUE}
             /\ UNCHANGED casts
    /\ UNCHANGED <<linkVars, gui, facts, inbox, table, picked, counts>>

\* forward_connection_event; Ready is not passed on.
ForwardFact ==
    /\ facts # <<>> /\ facts' = Tail(facts)
    /\ inbox' = Append(inbox, Head(facts))
    /\ UNCHANGED <<linkVars, gui, orders, casts, mdns, table, picked, counts>>

-----------------------------------------------------------------------------
(* The connection task, and what it reports of each step.                  *)

Report(es) ==
    /\ facts' = facts \o es
    /\ UNCHANGED <<gui, orders, inbox, mdns, table, picked, picks, plays, snapshots>>

\* teardown_session reports a session it ends.
TornDown == IF link = None THEN <<>> ELSE <<Disconnected(link)>>

CastSelect ==
    /\ casts # <<>> /\ Head(casts).op = "Select" /\ casts' = Tail(casts)
    /\ Select(Head(casts).device)
    /\ Report(TornDown \o IF link' = None THEN <<Failure>> ELSE <<Connected(link')>>)
    /\ UNCHANGED upsets

\* A LOAD goes to the session there is, if there is one.
CastLoad ==
    /\ casts # <<>> /\ Head(casts).op = "Load" /\ casts' = Tail(casts)
    /\ Report(<<>>) /\ UNCHANGED <<linkVars, upsets>>

CastLose ==
    /\ upsets < MaxUpsets /\ upsets' = upsets + 1
    /\ Lose /\ Report(TornDown \o IF wanted' = None THEN <<Failure>> ELSE <<>>)
    /\ UNCHANGED casts

CastReconnect ==
    /\ Reconnect /\ Report(<<Connected(link')>>) /\ UNCHANGED <<casts, upsets>>

CastGiveUp ==
    /\ GiveUp /\ Report(<<Failure>>) /\ UNCHANGED <<casts, upsets>>

CastLaunched ==
    /\ Launched /\ Report(<<>>) /\ UNCHANGED <<casts, upsets>>

\* apply_media_status, in whatever phase the session is.
CastStatus ==
    /\ ~over /\ link # None /\ upsets < MaxUpsets /\ upsets' = upsets + 1
    /\ Report(<<MediaStatus>>) /\ UNCHANGED <<linkVars, casts>>

\* Discovery publishes a list that differs from its last.
Publish(ds) ==
    /\ mdns /\ ds # table /\ snapshots < MaxSnapshots /\ snapshots' = snapshots + 1
    /\ table' = ds /\ inbox' = Append(inbox, Receivers(ds))
    /\ UNCHANGED <<linkVars, gui, orders, casts, facts, mdns, picked, picks, plays, upsets>>

-----------------------------------------------------------------------------

DashNext ==
    \/ HandleEvents \/ Play \/ RetryDiscovery
    \/ \E d \in Devices : SelectReceiver(d)
    \/ HandleOrder \/ ForwardFact
    \/ CastSelect \/ CastLoad \/ CastLose \/ CastReconnect \/ CastGiveUp \/ CastLaunched
    \/ CastStatus
    \/ \E ds \in SUBSET Devices : Publish(ds)

DashSpec == DashInit /\ [][DashNext]_dashVars

-----------------------------------------------------------------------------
(* Properties.                                                             *)

\* Nothing the dashboard has not been told is on its way.
Quiet == facts = <<>> /\ inbox = <<>>

\* Once everything is delivered the dashboard shows the session there is and
\* the list discovery published, and the receiver in use is the selected one
\* unless the user has just picked another, through any order of picks,
\* losses, reconnects and failures (apply_event).
ViewAgrees ==
    Quiet => /\ gui.connection = link /\ gui.listed = table
             /\ link # None /\ orders = <<>> /\ casts = <<>> => gui.selected = link

\* Playback is shown only together with the connection it runs over, however
\* late the status is.
PlaybackIsConnected == gui.playing => gui.connection # None

\* The LOAD of a click on Play is given to a session with the receiver the
\* user had picked last when he clicked, or to none: no slower selection or
\* reconnect makes it play elsewhere.
LoadReachesPick ==
    casts # <<>> /\ Head(casts).op = "Load" /\ link # None => Head(casts).for = link

\* What the user is shown, and what his clicks do.
DashboardInv == ViewAgrees /\ PlaybackIsConnected /\ LoadReachesPick

=============================================================================
