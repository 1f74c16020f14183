---------------------------- MODULE ReceiverLink ----------------------------
(***************************************************************************)
(* What the connection task promises the backend (specs/03-cast-engine.md, *)
(* sections 7 and 7.1), without transports, timers, readers or messages:   *)
(* one link at a time, always to the receiver the user last selected; a    *)
(* launch once per link; after a loss a reconnect to the same receiver or  *)
(* giving up.                                                              *)
(***************************************************************************)
CONSTANTS Devices, None

VARIABLES
    wanted,   \* the receiver the user wants, or None
    link,     \* the receiver connected to, or None
    ready,    \* the link's application is launched
    over      \* the task has ended

linkVars == <<wanted, link, ready, over>>

LinkInit == wanted = None /\ link = None /\ ready = FALSE /\ over = FALSE

\* The user selects d; the connection succeeds or the selection is dropped.
Select(d) ==
    /\ ~over
    /\ \E x \in {d, None} : wanted' = x /\ link' = x
    /\ ready' = FALSE
    /\ UNCHANGED over

Launched ==
    /\ ~over /\ link # None /\ ~ready
    /\ ready' = TRUE
    /\ UNCHANGED <<wanted, link, over>>

\* The link is lost; wanted is kept unless the policy allows no reconnect.
Lose ==
    /\ ~over /\ link # None
    /\ link' = None /\ ready' = FALSE
    /\ wanted' \in {wanted, None}
    /\ UNCHANGED over

Reconnect ==
    /\ ~over /\ link = None /\ wanted # None
    /\ link' = wanted
    /\ UNCHANGED <<wanted, ready, over>>

GiveUp ==
    /\ ~over /\ link = None /\ wanted # None
    /\ wanted' = None
    /\ UNCHANGED <<link, ready, over>>

\* The task ends: the link is torn down, or left behind when the last command
\* sender is gone.
End ==
    /\ ~over /\ over' = TRUE
    /\ \/ link' = None /\ ready' = FALSE
       \/ UNCHANGED <<link, ready>>
    /\ UNCHANGED wanted

LinkNext ==
    \/ \E d \in Devices : Select(d)
    \/ Launched
    \/ Lose
    \/ Reconnect
    \/ GiveUp
    \/ End

LinkSpec == LinkInit /\ [][LinkNext]_linkVars

\* A wanted receiver without a link is reconnected or given up.
FairLinkSpec == LinkSpec /\ WF_linkVars(Reconnect \/ GiveUp)

=============================================================================
