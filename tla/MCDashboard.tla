----------------------------- MODULE MCDashboard -----------------------------
(***************************************************************************)
(* The dashboard's picture of sessions and its volume, checked side by     *)
(* side in one state space: a behaviour is one of the former or of the     *)
(* latter, for Volume keeps its session throughout.                        *)
(***************************************************************************)
EXTENDS Volume, Dashboard

VARIABLE part   \* the one that is looked at

desktopVars == <<part, vars, dashVars>>

DesktopInit ==
    /\ Init /\ DashInit
    /\ \/ part = "Volume" /\ mdns
       \/ part = "Sessions" /\ receiver = [level |-> 0, muted |-> FALSE]

InVolume(A)   == part = "Volume" /\ A /\ UNCHANGED <<part, dashVars>>
InSessions(A) == part = "Sessions" /\ A /\ UNCHANGED <<part, vars>>

DesktopSpec ==
    /\ DesktopInit /\ [][InVolume(Next) \/ InSessions(DashNext)]_desktopVars
    /\ WF_desktopVars(InVolume(IdleFrame)) /\ WF_desktopVars(InVolume(ReleaseSlider(slider)))
    /\ WF_desktopVars(InVolume(Elapse)) /\ WF_desktopVars(InVolume(HandleCommand))
    /\ WF_desktopVars(InVolume(ForwardStatus)) /\ WF_desktopVars(InVolume(ReceiverSets))

\* What the dashboard holds and shows at every moment.
DesktopInv == TypeOK /\ DashboardInv

=============================================================================
