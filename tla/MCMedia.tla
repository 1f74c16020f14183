------------------------------- MODULE MCMedia -------------------------------
(***************************************************************************)
(* The switching of sources and the body of one response, checked side by  *)
(* side in one state space: a behaviour is one of the former or of the     *)
(* latter, for a switch is all that the second sees of the first.          *)
(***************************************************************************)
EXTENDS LiveStream, MediaBody

mediaVars == <<vars, bodyVars>>

\* No connection is looked into.
NoBody == serving = "None" /\ kind = Nothing /\ headOnly = FALSE /\ range = Nothing
          /\ size = 0 /\ resizes = 0 /\ shrunk = FALSE /\ reply = Nothing /\ left = 0
          /\ offset = 0 /\ body = <<>> /\ wire = 0 /\ pending = 0 /\ handle = "None"

MediaInit == Init /\ (NoBody \/ BodyInit)

Switching(A) == serving = "None" /\ A /\ UNCHANGED bodyVars
Serving(A)   == serving # "None" /\ A /\ UNCHANGED vars

MediaSpec ==
    /\ MediaInit /\ [][Switching(Next) \/ Serving(BodyNext)]_mediaVars
    /\ WF_mediaVars(Switching(BridgeStart)) /\ WF_mediaVars(Switching(ServerStep))
    /\ \A p \in Pipes : WF_mediaVars(Switching(PipeStep(p)))
    /\ \A c \in Conns :
        /\ WF_mediaVars(Switching(ConnStep(c))) /\ SF_mediaVars(Switching(LiveAborted(c)))
        /\ WF_mediaVars(Switching(HeadRefused(c) \/ HeadOther(c) \/ HeadScreen(c)))
    /\ WF_mediaVars(Serving(CopyStep)) /\ WF_mediaVars(Serving(FlushDeadline))

=============================================================================
