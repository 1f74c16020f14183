------------------------------ MODULE TofuStore ------------------------------
(***************************************************************************)
(* The trust-on-first-use store of certificate pins (src/cast/tofu.rs): a  *)
(* map in memory, loaded at start and written to known_hosts.json, by way  *)
(* of a temporary file, when a receiver is pinned.                         *)
(*                                                                         *)
(* The connection task checks one certificate at a time.  The application  *)
(* may crash at any point and be started again, and every file operation   *)
(* may fail.  One instance of it runs at a time.                           *)
(***************************************************************************)
CONSTANTS
    Keys,      \* receiver_key of receivers
    Prints,    \* certificate fingerprints
    None,      \* no pin
    Torn       \* a file whose writing was cut short

Pins   == [Keys -> Prints \cup {None}]
NoPins == [k \in Keys |-> None]

ASSUME TofuStoreAssumption == None \notin Prints /\ None \notin Pins /\ Torn \notin Pins \cup {None}

VARIABLES
    step,      \* "Down", "Up", or the step of save it is in
    pins,      \* the map in memory
    file,      \* known_hosts.json; NoPins while there is none
    tmp,       \* known_hosts.json.tmp: None, a map, or Torn
    degraded   \* this run started without the pins on file

vars == <<step, pins, file, tmp, degraded>>

Init ==
    /\ step = "Down" /\ pins = NoPins
    /\ file = NoPins /\ tmp = None /\ degraded = FALSE

\* load: a missing, unreadable or corrupt file is an empty store.
Load ==
    /\ step = "Down" /\ step' = "Up"
    /\ \/ file # Torn /\ pins' = file /\ degraded' = FALSE
       \/ pins' = NoPins /\ degraded' = TRUE
    /\ UNCHANGED <<file, tmp>>

\* check: the first fingerprint is pinned and saved; another one later is
\* reported, and the pin stays.
Differs(k, f)  == pins[k] # f
FirstUse(k, f) == pins[k] = None

Check(k, f) ==
    /\ step = "Up" /\ FirstUse(k, f)
    /\ pins' = [pins EXCEPT ![k] = f] /\ step' = "Create"
    /\ UNCHANGED <<file, tmp, degraded>>

\* save: fs::write creates or truncates the temporary file, ...
Overwritten == file' = Torn /\ UNCHANGED tmp
Sibling     == tmp' = Torn /\ UNCHANGED file

CreateTmp ==
    /\ step = "Create"
    /\ \/ Sibling /\ step' = "Write"
       \/ step' = "Up" /\ UNCHANGED <<file, tmp>>
    /\ UNCHANGED <<pins, degraded>>

\* ... which is to hold the whole map, and stays as it is when a write fails.
OnlyNews == [k \in Keys |-> IF file[k] = None THEN pins[k] ELSE None]
WholeMap == pins

WriteTmp ==
    /\ step = "Write"
    /\ \/ tmp' = WholeMap /\ step' = "Rename"
       \/ step' = "Up" /\ UNCHANGED tmp
    /\ UNCHANGED <<pins, file, degraded>>

\* rename; when it fails the temporary file is removed, if possible.
Renamed == tmp' = None /\ file' = tmp

RenameTmp ==
    /\ step = "Rename" /\ step' = "Up"
    /\ \/ Renamed
       \/ tmp' \in {tmp, None} /\ UNCHANGED file
    /\ UNCHANGED <<pins, degraded>>

\* The application ends, in the middle of a save or not.
Crash ==
    /\ step # "Down" /\ step' = "Down"
    /\ pins' = NoPins /\ degraded' = FALSE
    /\ UNCHANGED <<file, tmp>>

Next == \/ Load \/ CreateTmp \/ WriteTmp \/ RenameTmp \/ Crash
        \/ \E k \in Keys, f \in Prints : Check(k, f)

Spec == Init /\ [][Next]_vars

-----------------------------------------------------------------------------
(* Properties.                                                             *)

\* Types of the map in memory, the store file and its temporary sibling.
TypeOK ==
    /\ step \in {"Down", "Up", "Create", "Write", "Rename"}
    /\ pins \in Pins /\ file \in Pins \cup {Torn}
    /\ tmp \in Pins \cup {None, Torn} /\ degraded \in BOOLEAN

\* "a crash mid-write can never truncate the store" (save).
NeverTorn == file # Torn

\* While the application runs, what is pinned on file is pinned in memory to
\* the same certificate: a receiver once trusted is never a first use again,
\* unless this run could not read the file.
FileIsRemembered ==
    step # "Down" /\ ~degraded =>
        \A k \in Keys : file[k] # None => pins[k] = file[k]

\* The store file is always a whole map of pins, also after a crash in save,
\* and memory knows all of it.
StoreInv == TypeOK /\ NeverTorn /\ FileIsRemembered

\* A pin on file is never replaced, nor lost, through any sequence of checks,
\* failed saves and crashes, except by a run that could not read it.
PinKept ==
    [][~degraded => \A k \in Keys : file[k] # None => file'[k] = file[k]]_vars

=============================================================================
