------------------------------- MODULE Volume -------------------------------
(***************************************************************************)
(* The volume, which four parties keep a copy of: the receiver, the        *)
(* supervisor (src/runtime.rs, last_volume and muted), and in the          *)
(* dashboard the slider and the value its throttle holds back              *)
(* (src/app.rs).  Commands go one way and receiver statuses the other,     *)
(* both through unbounded channels, so that each copy is stale in its own  *)
(* way.                                                                    *)
(*                                                                         *)
(* A session is up for the whole behaviour, its first RECEIVER_STATUS on   *)
(* the way; Connection has what happens without one.  Rounding between     *)
(* 0..100 and 0.0..1.0 loses nothing on the slider's own positions.        *)
(***************************************************************************)
EXTENDS Naturals, SequencesExt

CONSTANTS
    Levels,     \* positions of the slider
    MaxMoves,   \* bound on the user's moves of it
    MaxMutes,   \* bound on his clicks on Mute
    MaxRemote,  \* bound on the changes another client makes
    NoLevel     \* no position

ASSUME VolumeAssumption ==
    /\ 0 \in Levels /\ NoLevel \notin Levels
    /\ {MaxMoves, MaxMutes, MaxRemote} \subseteq Nat

Setting    == [level : Levels, muted : BOOLEAN]
AppCommand == [op : {"SetVolume"}, level : Levels] \cup [op : {"Mute"}, muted : BOOLEAN]

VARIABLES
    slider, dragging, box,   \* the dashboard's volume, volume_dragging, muted
    pending, due,            \* VolumeThrottle: held value; MIN_INTERVAL has passed
    commands,                \* AppCommand channel
    mirror,                  \* the supervisor's last_volume and muted
    requests,                \* SET_VOLUMEs on their way to the receiver
    receiver,                \* its setting
    statuses,                \* RECEIVER_STATUSes on their way back
    events,                  \* BackendEvent channel
    chosen,                  \* history: the position the user chose last
    moves, mutes, remote

throttle == <<pending, due>>
dashboard == <<slider, dragging, box, throttle>>
bounds   == <<moves, mutes, remote>>
vars     == <<dashboard, commands, mirror, requests, receiver, statuses, events, chosen, bounds>>

Init ==
    /\ slider = 0 /\ dragging = FALSE /\ box = FALSE
    /\ pending = NoLevel /\ due = TRUE
    /\ commands = <<>> /\ mirror = [level |-> 0, muted |-> FALSE] /\ requests = <<>>
    /\ receiver \in Setting /\ statuses = <<receiver>> /\ events = <<>>
    /\ chosen = NoLevel /\ moves = 0 /\ mutes = 0 /\ remote = 0

-----------------------------------------------------------------------------
(* The dashboard.  A frame is one step: it drains the events, polls the    *)
(* throttle and only then lets the user act on what it shows.              *)

\* handle_events: of the queued Volume events the last one shows, but the
\* slider is not moved under the user's hand.
Shown   == IF dragging \/ events = <<>> THEN slider ELSE Last(events).level
Checked == IF events = <<>> THEN box ELSE Last(events).muted

\* VolumeThrottle.poll: what is held goes out when the interval has passed.
Releases == pending # NoLevel /\ due
Held == IF Releases THEN NoLevel ELSE pending
Sent == IF Releases THEN Append(commands, [op |-> "SetVolume", level |-> pending]) ELSE commands

Frame == /\ events' = <<>> /\ due' = (due /\ ~Releases)
         /\ UNCHANGED <<mirror, requests, receiver, statuses, remote>>

\* note_change: the newest position replaces one that is still held.
LeadingEdge(v) == pending' = IF due THEN v ELSE Held
NoteChange(v) == pending' = v

\* The user puts the slider at v; one more of his bounded moves.
Choose(v) == /\ moves < MaxMoves /\ moves' = moves + 1
             /\ slider' = v /\ chosen' = v /\ NoteChange(v)

\* A frame the user does nothing in.
IdleFrame ==
    /\ Frame /\ ~dragging /\ (events # <<>> \/ Releases)
    /\ slider' = Shown /\ box' = Checked /\ commands' = Sent /\ pending' = Held
    /\ UNCHANGED <<dragging, chosen, moves, mutes>>

\* slider.dragged(): every frame of a drag queues the position, moved or not.
DragSlider(v) ==
    /\ Frame /\ Choose(v)
    /\ dragging' = TRUE /\ box' = Checked /\ commands' = Sent
    /\ UNCHANGED mutes

\* drag_stopped(), on a frame that may still move the slider.
ReleaseSlider(v) ==
    /\ Frame /\ dragging
    /\ \/ v # Shown /\ Choose(v)
       \/ v = Shown /\ slider' = v /\ pending' = Held /\ UNCHANGED <<chosen, moves>>
    /\ dragging' = FALSE /\ box' = Checked /\ commands' = Sent
    /\ UNCHANGED mutes

\* slider.changed() without a drag: a click on the track.
ClickSlider(v) ==
    /\ Frame /\ ~dragging /\ v # Shown /\ Choose(v)
    /\ box' = Checked /\ commands' = Sent
    /\ UNCHANGED <<dragging, mutes>>

ToggleMute ==
    /\ Frame /\ ~dragging
    /\ mutes < MaxMutes /\ mutes' = mutes + 1
    /\ box' = ~Checked /\ commands' = Append(Sent, [op |-> "Mute", muted |-> ~Checked])
    /\ slider' = Shown /\ pending' = Held
    /\ UNCHANGED <<dragging, chosen, moves>>

\* MIN_INTERVAL passes.
Elapse ==
    /\ ~due /\ due' = TRUE
    /\ UNCHANGED <<slider, dragging, box, pending, commands, mirror, requests, receiver, statuses,
                   events, chosen, bounds>>

-----------------------------------------------------------------------------
(* The supervisor.                                                         *)

\* handle_command: both commands send a whole setting, completed from the
\* mirror, which keeps what was asked for.
Remember(c) == IF c.op = "SetVolume" THEN [mirror EXCEPT !.level = c.level]
               ELSE [mirror EXCEPT !.muted = c.muted]

HandleCommand ==
    /\ commands # <<>> /\ commands' = Tail(commands)
    /\ mirror' = Remember(Head(commands))
    /\ requests' = Append(requests, mirror')
    /\ UNCHANGED <<dashboard, receiver, statuses, events, chosen, bounds>>

\* forward_connection_event(Volume)
OnlyForward == UNCHANGED mirror
MirrorStatus == mirror' = Head(statuses)

ForwardStatus ==
    /\ statuses # <<>> /\ statuses' = Tail(statuses)
    /\ MirrorStatus
    /\ events' = Append(events, Head(statuses))
    /\ UNCHANGED <<dashboard, commands, requests, receiver, chosen, bounds>>

-----------------------------------------------------------------------------
(* The receiver.                                                           *)

\* Every SET_VOLUME is answered by a RECEIVER_STATUS.
ReceiverSets ==
    /\ requests # <<>> /\ requests' = Tail(requests)
    /\ receiver' = Head(requests) /\ statuses' = Append(statuses, receiver')
    /\ UNCHANGED <<dashboard, commands, mirror, events, chosen, bounds>>

\* Someone else turns the volume.
OtherClient(s) ==
    /\ remote < MaxRemote /\ remote' = remote + 1
    /\ receiver' = s /\ statuses' = Append(statuses, s)
    /\ UNCHANGED <<dashboard, commands, mirror, requests, events, chosen, moves, mutes>>

-----------------------------------------------------------------------------

Next ==
    \/ \E v \in Levels : DragSlider(v) \/ ReleaseSlider(v) \/ ClickSlider(v)
    \/ IdleFrame \/ ToggleMute \/ Elapse
    \/ HandleCommand \/ ForwardStatus \/ ReceiverSets
    \/ \E s \in Setting : OtherClient(s)

Spec == Init /\ [][Next]_vars

\* The window repaints at least every REPAINT_INTERVAL, the tasks run, the
\* receiver answers, and nobody holds the slider for ever.
FairSpec ==
    /\ Spec
    /\ WF_vars(IdleFrame) /\ WF_vars(ReleaseSlider(slider)) /\ WF_vars(Elapse)
    /\ WF_vars(HandleCommand) /\ WF_vars(ForwardStatus) /\ WF_vars(ReceiverSets)

-----------------------------------------------------------------------------
(* Properties.                                                             *)

\* Types; in particular the throttle releases only a value it holds (poll).
TypeOK ==
    /\ slider \in Levels /\ {dragging, box, due} \subseteq BOOLEAN
    /\ pending \in Levels \cup {NoLevel} /\ chosen \in Levels \cup {NoLevel}
    /\ commands \in Seq(AppCommand) /\ mirror \in Setting
    /\ requests \in Seq(Setting) /\ receiver \in Setting
    /\ statuses \in Seq(Setting) /\ events \in Seq(Setting)
    /\ moves \in 0..MaxMoves /\ mutes \in 0..MaxMutes /\ remote \in 0..MaxRemote

\* When everything has been delivered, slider, check box and mirror show what
\* the receiver is set to: each was overwritten from both directions on the
\* way, and statuses were skipped while the slider was dragged.
CopiesAgree == /\ slider = receiver.level /\ box = receiver.muted
               /\ mirror = receiver
CopiesSettle == <>[]CopiesAgree

\* "a trailing edge so the last position always wins" (VolumeThrottle): when
\* all is done, the receiver plays at the level the user chose last, if he
\* was alone with the slider.  A click on Mute sends the mirrored level, which
\* an older status may have overwritten.
LastPositionWins ==
    <>[](chosen # NoLevel /\ mutes = 0 /\ remote = 0 => receiver.level = chosen)

=============================================================================
