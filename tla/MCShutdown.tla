----------------------------- MODULE MCShutdown -----------------------------
(***************************************************************************)
(* The end of the application and the end of one capture through the       *)
(* desktop portal, checked side by side in one state space: a behaviour is *)
(* one of the former or of the latter.  Of the supervisor the capture sees *)
(* only its stop and the token, and the supervisor only that it ends.      *)
(***************************************************************************)
EXTENDS Lifecycle, PortalCapture

shutdownVars == <<vars, portalVars>>

\* No capture is looked into.
NoCapture == ctl = "None" /\ stop = FALSE /\ errors = 0 /\ shutdown = FALSE /\ heard = FALSE
             /\ session = "None" /\ pw = "None" /\ pw_stop = FALSE /\ format = None
             /\ format_sent = FALSE /\ status = <<>> /\ frames = None /\ current = None
             /\ changes = 0

ShutdownInit == Init /\ (NoCapture \/ PortalInit)

Ending(A)    == ctl = "None" /\ A /\ UNCHANGED portalVars
Capturing(A) == ctl # "None" /\ A /\ UNCHANGED vars

ShutdownSpec ==
    /\ ShutdownInit /\ [][Ending(Next) \/ Capturing(PortalNext)]_shutdownVars
    /\ WF_shutdownVars(Ending(MainThread)) /\ WF_shutdownVars(Ending(Supervisor))
    /\ WF_shutdownVars(Ending(TornDown))
    /\ \A t \in Tasks :
          WF_shutdownVars(Ending(TaskStarts(t) \/ TaskFailsToStart(t) \/ TaskStops(t)))
    /\ \A p \in Pipelines : WF_shutdownVars(Ending(pipeline[p] = "Stopped" /\ PipelineEnds(p)))
    /\ WF_shutdownVars(Capturing(Controller)) /\ WF_shutdownVars(Capturing(Connect))
    /\ WF_shutdownVars(Capturing(CaptureStops)) /\ WF_shutdownVars(Capturing(ShutdownStops))

=============================================================================
