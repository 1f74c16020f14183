------------------------------ MODULE TlsConnect ------------------------------
(***************************************************************************)
(* Opening a TLS connection to a receiver and checking its certificate     *)
(* (src/cast/tls.rs, connection/transport.rs), on top of the pin store.    *)
(*                                                                         *)
(* The connection task (the caller) opens one connection at a time.  The   *)
(* handshake runs on a thread of the blocking pool, which the caller's     *)
(* timeout does not stop: workers of given-up attempts go on beside the    *)
(* next attempt and end by themselves.  The outcome of complete_io         *)
(* (rustls) and of each socket call is free.                               *)
(***************************************************************************)
EXTENDS TofuStore, FiniteSets, Naturals

CONSTANTS
    Slots,     \* bounds the handshake workers alive at once
    Failed     \* a handshake that ended in an error


VARIABLES
    caller,    \* "Idle", or the step of connect it is in, or "Open"
    key,       \* the receiver it connects to
    slot,      \* its attempt
    cert,      \* the certificate of the stream it holds
    warned,    \* CertificateMismatch was sent for this connection
    worker,    \* of each attempt: "None", "Run", "Sent"
    late,      \* attempts whose deadline has passed
    result,    \* the oneshot of each attempt: None, Failed, or a certificate
    open,      \* attempts whose socket is open
    inFlight   \* IN_FLIGHT_HANDSHAKES

callerVars == <<caller, key, slot, cert, warned>>
workerVars == <<worker, late, result, open, inFlight>>
tlsVars    == <<vars, callerVars, workerVars>>

NoCert   == "none presented"
Certs    == Prints \cup {NoCert}
Outcomes == Certs \cup {Failed}

ASSUME TlsConnectAssumption ==
    IsFiniteSet(Slots) /\ NoCert \notin Prints \cup {None} /\ Failed \notin Certs \cup {None}

\* No attempt was made since the process started.
Fresh(at, of, in, c, w, ws, l, r, o, n) ==
    /\ at = "Idle" /\ of = None /\ in = None /\ c = None /\ w = FALSE
    /\ ws = [a \in Slots |-> "None"] /\ l = {} /\ r = [a \in Slots |-> None]
    /\ o = {} /\ n = 0

Running(a) == worker[a] = "Run"

TlsInit == Init /\ Fresh(caller, key, slot, cert, warned, worker, late, result, open, inFlight)

----------------------------------------------------------------------------
(* The caller.                                                             *)

\* connect gives up, or the session ends: the stream is dropped, if it has one.
Release(attempts) ==
    /\ caller' = "Idle" /\ key' = None /\ slot' = None /\ cert' = None /\ warned' = FALSE
    /\ open' = open \ attempts

Begin(k) ==
    /\ caller = "Idle" /\ step = "Up"
    /\ \E a \in Slots : worker[a] = "None"
    /\ caller' = "Tcp" /\ key' = k
    /\ UNCHANGED <<vars, slot, cert, warned, workerVars>>

\* The TCP connect, bounded by the deadline, the socket options and the TLS
\* configuration; any of them may fail.
TcpFails ==
    /\ caller = "Tcp" /\ Release({})
    /\ UNCHANGED <<vars, worker, late, result, inFlight>>

FreeSlot == CHOOSE a \in Slots : worker[a] = "None"

SpawnWorker ==
    /\ caller = "Tcp" /\ caller' = "Handshake" /\ slot' = FreeSlot
    /\ worker' = [worker EXCEPT ![FreeSlot] = "Run"]
    /\ open' = open \cup {FreeSlot} /\ inFlight' = inFlight + 1
    /\ UNCHANGED <<vars, key, cert, warned, late, result>>

\* timeout(deadline, rx): the caller's timer starts after the worker's, and a
\* result that is there is taken first.
CallerTimeout ==
    /\ caller = "Handshake" /\ slot \in late /\ result[slot] = None
    /\ Running(slot) /\ Release({})
    /\ UNCHANGED <<vars, worker, late, result, inFlight>>

\* The worker's result, or a closed channel after a panic.  A stream is
\* configured, which may fail and drop it; then its certificate is looked at.
CallerResult ==
    /\ caller = "Handshake" /\ result[slot] # None
    /\ result' = [result EXCEPT ![slot] = None]
    /\ \/ Release({slot})
       \/ /\ result[slot] \in Certs
          /\ caller' = "Pin" /\ cert' = result[slot]
          /\ UNCHANGED <<key, slot, warned, open>>
    /\ UNCHANGED <<vars, worker, late, inFlight>>

\* record_pin: a first use is pinned and saved before connect returns.
FirstSeen ==
    /\ caller = "Pin" /\ cert # NoCert /\ Check(key, cert)
    /\ caller' = "Save"
    /\ UNCHANGED <<key, slot, cert, warned, workerVars>>

Saved ==
    /\ caller = "Save" /\ step = "Up" /\ caller' = "Open"
    /\ UNCHANGED <<vars, key, slot, cert, warned, workerVars>>

\* A match, a mismatch, which establish sends on as a warning, and a receiver
\* without a certificate.
NeverWarned == FALSE
IsMismatch  == cert # NoCert /\ Differs(key, cert)

Seen ==
    /\ caller = "Pin" /\ (cert = NoCert \/ ~FirstUse(key, cert))
    /\ caller' = "Open" /\ warned' = IsMismatch
    /\ UNCHANGED <<vars, key, slot, cert, workerVars>>

\* The session ends, by close_notify or because CONNECT could not be sent.
CloseStream ==
    /\ caller = "Open" /\ Release({slot})
    /\ UNCHANGED <<vars, worker, late, result, inFlight>>

----------------------------------------------------------------------------
(* The workers.                                                            *)

Deadline(a) ==
    /\ Running(a) /\ late' = late \cup {a} /\ a \notin late
    /\ UNCHANGED <<vars, callerVars, worker, result, open, inFlight>>

\* The worker hands its result to a caller that still waits; otherwise it is
\* dropped, and the socket with it.
Deliver(a, r, heard) ==
    /\ result' = [result EXCEPT ![a] = IF heard THEN r ELSE None]
    /\ open' = IF heard /\ r \in Certs THEN open ELSE open \ {a}
    /\ worker' = [worker EXCEPT ![a] = "Sent"] /\ late' = late \ {a}
    /\ UNCHANGED <<vars, callerVars, inFlight>>

SendToAnyone(a, r) == Deliver(a, r, TRUE)
Send(a, r)         == Deliver(a, r, caller = "Handshake" /\ slot = a)

\* The loop: complete_io blocks for at most the rest of the budget.  A call
\* that stalls, or leaves the handshake unfinished, goes round again, which
\* ends the worker once the budget is spent; one that finishes or fails, or a
\* panic, ends it at any time, the deadline passed or not.
Unbounded(a)   == FALSE
OutOfBudget(a) == a \in late

Expire(a) == Running(a) /\ OutOfBudget(a) /\ Send(a, Failed)
Finish(a) == Running(a) /\ \E r \in Outcomes : Send(a, r)

\* The guard decrements the gauge as the closure ends.
Exit(a) ==
    /\ worker[a] = "Sent" /\ worker' = [worker EXCEPT ![a] = "None"]
    /\ inFlight' = inFlight - 1
    /\ UNCHANGED <<vars, callerVars, late, result, open>>

----------------------------------------------------------------------------
\* The steps of the store by themselves: start, and save.
StoreStep == (Load \/ CreateTmp \/ WriteTmp \/ RenameTmp) /\ UNCHANGED <<callerVars, workerVars>>

\* The process ends, with every thread and socket of it.
ProcessCrash ==
    /\ Crash
    /\ Fresh(caller', key', slot', cert', warned', worker', late', result', open', inFlight')

CallerStep == TcpFails \/ SpawnWorker \/ CallerTimeout \/ CallerResult \/ FirstSeen
              \/ Saved \/ Seen

TlsNext == \/ \E k \in Keys : Begin(k)
           \/ CallerStep \/ CloseStream \/ StoreStep \/ ProcessCrash
           \/ \E a \in Slots : Deadline(a) \/ Expire(a) \/ Finish(a) \/ Exit(a)

\* Time passes, the blocking pool runs its threads, each socket operation
\* ends by its timeout, and the connection task and file operations proceed.
TlsSpec ==
    /\ TlsInit /\ [][TlsNext]_tlsVars
    /\ WF_tlsVars(CallerStep) /\ WF_tlsVars(StoreStep)
    /\ \A a \in Slots : WF_tlsVars(Deadline(a)) /\ WF_tlsVars(Expire(a) \/ Exit(a))

-----------------------------------------------------------------------------
(* Properties.                                                             *)

\* Every open socket has exactly one owner who will drop or use it: the
\* worker that still runs the handshake, the result on its way to a caller
\* that waits for it, or the caller.  Nothing is left behind by a timeout that
\* races the end of a handshake, and the gauge counts the workers alive.
SocketsOwned ==
    /\ \A a \in open :
        \/ Running(a) /\ result[a] = None
        \/ result[a] \in Certs /\ caller = "Handshake" /\ slot = a
        \/ caller \in {"Pin", "Save", "Open"} /\ slot = a /\ ~Running(a)
    /\ \A a \in Slots : Running(a) => a \in open
    /\ inFlight = Cardinality({a \in Slots : worker[a] # "None"})

\* A connection in use shows the certificate its receiver is pinned to, or the
\* user was warned that it does not (establish, record_pin).
TrustedOrWarned ==
    caller = "Open" /\ cert # NoCert => (pins[key] = cert <=> ~warned)

\* Every connect returns and every handshake worker ends, also when the
\* caller has long given up and the receiver never answers
\* ("exits at latest one op timeout after the deadline").
HandshakesEnd ==
    /\ \A a \in Slots : worker[a] # "None" ~> worker[a] = "None"
    /\ caller \in {"Tcp", "Handshake", "Pin", "Save"} ~> caller \in {"Idle", "Open"}

=============================================================================
