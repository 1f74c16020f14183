---------------------------- MODULE MCConnection ----------------------------
(* The safety runs of Connection.                                          *)
EXTENDS Connection

\* Between two selects the task only returns to the select.  That step
\* commutes with every step of another actor but the trigger of the token, so
\* the runs interleave only the latter with it.
BusyIsBrief == pc = "Busy" => pc' # "Busy" \/ token' # token

=============================================================================
