------------------------------ MODULE WireProofs ------------------------------
(***************************************************************************)
(* The link to a receiver and the byte streams.  The file of certificate   *)
(* pins is never torn and loses no pin, and the connecting task leaks no   *)
(* socket and trusts no changed certificate in silence, for any number of  *)
(* receivers, certificates and handshakes in flight.  What the two reader  *)
(* threads hand over does not depend on how the bytes were cut into reads, *)
(* for any messages and any output of the encoder.                         *)
(***************************************************************************)
EXTENDS TlsConnect, ByteStreams, FiniteSetTheorems, SequenceTheorems, WellFoundedInduction, TLAPS

-----------------------------------------------------------------------------
(* Certificate pins and handshakes.                                        *)

\* m pins whatever the file pins, to the same certificate.
Extends(m) == \A k \in Keys : file[k] # None => m[k] = file[k]

\* The inductive invariant.  What is about to be renamed is a whole map, and
\* both it and the map in memory extend the file, unless the run is degraded.
IInv ==
    /\ step \in {"Down", "Up", "Create", "Write", "Rename"}
    /\ pins \in Pins /\ file \in Pins
    /\ tmp \in Pins \cup {None, Torn} /\ degraded \in BOOLEAN
    /\ step = "Rename" => tmp = pins
    /\ step # "Down" /\ degraded = FALSE => Extends(pins)

LEMMA IInvInit == Init => IInv
  BY TofuStoreAssumption DEF Init, IInv, Pins, NoPins, Extends

\* Every step keeps the invariant.
LEMMA IInvNext == IInv /\ [Next]_vars => IInv'
<1> SUFFICES ASSUME IInv, [Next]_vars PROVE IInv'
  OBVIOUS
<1> USE TofuStoreAssumption DEF IInv
<1>1. CASE Load
  <2>1. NoPins \in Pins
    BY DEF NoPins, Pins
  <2>2. CASE pins' = file /\ degraded' = FALSE
    BY <1>1, <2>2 DEF Load, Extends
  <2>3. CASE pins' = NoPins /\ degraded' = TRUE
    BY <1>1, <2>1, <2>3 DEF Load, Extends
  <2> QED
    BY <1>1, <2>2, <2>3 DEF Load
<1>2. CASE CreateTmp
  BY <1>2 DEF CreateTmp, Sibling, Extends
<1>3. CASE WriteTmp
  BY <1>3 DEF WriteTmp, WholeMap, Extends
<1>4. CASE RenameTmp
  BY <1>4 DEF RenameTmp, Renamed, Extends
<1>5. CASE Crash
  BY <1>5 DEF Crash, NoPins, Pins, Extends
<1>6. ASSUME NEW k \in Keys, NEW f \in Prints, Check(k, f) PROVE IInv'
  <2>1. pins' \in Pins /\ step' = "Create" /\ UNCHANGED <<file, tmp, degraded>>
    BY <1>6 DEF Check, Pins
  <2>2. ASSUME degraded = FALSE PROVE Extends(pins)'
    <3>1. Extends(pins) /\ pins[k] = None
      BY <1>6, <2>2 DEF Check, FirstUse
    <3>2. ASSUME NEW j \in Keys, file[j] # None PROVE pins'[j] = file[j]
      <4>1. pins[j] = file[j] /\ j # k
        BY <3>1, <3>2 DEF Extends
      <4>2. pins'[j] = pins[j]
        BY <1>6, <4>1 DEF Check, Pins
      <4> QED
        BY <4>1, <4>2
    <3> QED
      BY <2>1, <3>2 DEF Extends
  <2> QED
    BY <2>1, <2>2
<1>7. CASE UNCHANGED vars
  BY <1>7 DEF vars, Extends
<1> QED
  BY <1>1, <1>2, <1>3, <1>4, <1>5, <1>6, <1>7 DEF Next

\* Whatever fails and whenever the application crashes, known_hosts.json is
\* whole, and memory knows every pin in it unless load gave up on it.
THEOREM PinsRemembered == Spec => []StoreInv
<1>1. IInv => StoreInv
  BY TofuStoreAssumption DEF IInv, StoreInv, TypeOK, NeverTorn, FileIsRemembered, Extends
<1> QED
  BY <1>1, IInvInit, IInvNext, PTL DEF Spec

\* A step loses or replaces no pin on file, unless its run is degraded.
THEOREM PinsKept == Spec => PinKept
<1> DEFINE Keep == ~degraded => \A k \in Keys : file[k] # None => file'[k] = file[k]
<1>1. IInv /\ [Next]_vars => [Keep]_vars
  <2> SUFFICES ASSUME IInv, Next PROVE Keep
    OBVIOUS
  <2>1. CASE RenameTmp
    BY <2>1 DEF RenameTmp, Renamed, IInv, Extends
  <2>2. CASE UNCHANGED file
    BY <2>2
  <2> QED
    BY <2>1, <2>2 DEF Next, Load, CreateTmp, Sibling, WriteTmp, Crash, Check
<1> QED
  BY <1>1, IInvInit, IInvNext, PTL DEF Spec, PinKept

-----------------------------------------------------------------------------
(* The connecting task.                                                    *)

Alive == {a \in Slots : worker[a] # "None"}

\* Types of the caller and its workers.
TlsTypes ==
    /\ caller \in {"Idle", "Tcp", "Handshake", "Pin", "Save", "Open"}
    /\ warned \in BOOLEAN
    /\ worker \in [Slots -> {"None", "Run", "Sent"}]
    /\ result \in [Slots -> Outcomes \cup {None}]
    /\ open \in SUBSET Slots
    /\ caller # "Idle" => key \in Keys
    /\ caller \notin {"Idle", "Tcp"} => slot \in Slots
    /\ caller \in {"Pin", "Save", "Open"} => cert \in Certs

\* A result waits only for the caller of its attempt, whose worker is done;
\* a socket has its owner; there is a slot for the worker about to start.
Ownership ==
    /\ \A a \in Slots : result[a] # None => caller = "Handshake" /\ slot = a /\ worker[a] # "Run"
    /\ \A a \in open : \/ worker[a] = "Run"
                       \/ result[a] \in Certs
                       \/ caller \in {"Pin", "Save", "Open"} /\ slot = a
    /\ \A a \in Slots : worker[a] = "Run" => a \in open
    /\ caller \in {"Pin", "Save", "Open"} => worker[slot] # "Run"
    /\ caller = "Tcp" => \E a \in Slots : worker[a] = "None"

\* Nobody connects before the store is loaded.  The warning is decided as the
\* connection opens, and what save is still writing is pinned in memory.
Trust ==
    /\ step = "Down" => caller = "Idle"
    /\ caller # "Open" => warned = FALSE
    /\ caller = "Save" => pins[key] = cert
    /\ caller = "Open" /\ cert # NoCert => (pins[key] = cert <=> warned = FALSE)

TlsIInv == IInv /\ TlsTypes /\ Ownership /\ Trust /\ inFlight = Cardinality(Alive)

LEMMA TlsIInvInit == TlsInit => TlsIInv
<1> SUFFICES ASSUME TlsInit PROVE TlsIInv
  OBVIOUS
<1>1. IInv
  BY IInvInit DEF TlsInit
<1>2. TlsTypes /\ Ownership /\ Trust
  BY TlsConnectAssumption DEF TlsInit, Fresh, TlsTypes, Ownership, Trust
<1>3. Alive = {} /\ inFlight = 0
  BY DEF TlsInit, Fresh, Alive
<1> QED
  BY <1>1, <1>2, <1>3, FS_EmptySet DEF TlsIInv

\* Every step of the connecting task is a step of the store, or none.
LEMMA TlsStepIsStoreStep == TlsIInv /\ [TlsNext]_tlsVars => [Next]_vars
<1> SUFFICES ASSUME TlsIInv, [TlsNext]_tlsVars PROVE [Next]_vars
  OBVIOUS
<1>1. CASE FirstSeen
  <2>1. key \in Keys /\ cert \in Prints
    BY <1>1 DEF FirstSeen, TlsIInv, TlsTypes, Certs
  <2> QED
    BY <1>1, <2>1 DEF FirstSeen, Next
<1>2. CASE StoreStep \/ ProcessCrash
  BY <1>2 DEF StoreStep, ProcessCrash, Next
<1>3. CASE UNCHANGED vars
  BY <1>3
<1>4. CASE UNCHANGED tlsVars
  BY <1>4 DEF tlsVars
<1> QED
  BY <1>1, <1>2, <1>3, <1>4 DEF TlsNext, Begin, CallerStep, TcpFails, SpawnWorker, CallerTimeout,
     CallerResult, Saved, Seen, CloseStream, Deadline, Expire, Finish, Exit, Send, Deliver

\* The gauge follows one worker that starts, and one that ends.
LEMMA AliveFinite == IsFiniteSet(Alive)
  BY TlsConnectAssumption, FS_Subset DEF Alive

LEMMA OneMore ==
  ASSUME TlsTypes, NEW a \in Slots, worker[a] = "None",
         worker' = [worker EXCEPT ![a] = "Run"]
  PROVE  Cardinality(Alive') = Cardinality(Alive) + 1
<1>1. Alive' = Alive \cup {a} /\ a \notin Alive
  BY DEF TlsTypes, Alive
<1> QED
  BY <1>1, AliveFinite, FS_AddElement

LEMMA OneLess ==
  ASSUME TlsTypes, NEW a \in Slots, worker[a] = "Sent",
         worker' = [worker EXCEPT ![a] = "None"]
  PROVE  Cardinality(Alive') = Cardinality(Alive) - 1
<1>1. Alive' = Alive \ {a} /\ a \in Alive
  BY DEF TlsTypes, Alive
<1> QED
  BY <1>1, AliveFinite, FS_RemoveElement

\* Every step of the caller keeps the invariant, ...
LEMMA CallerKeeps ==
  ASSUME TlsIInv, IInv',
         \/ \E k \in Keys : Begin(k)
         \/ CallerStep \/ CloseStream
  PROVE  TlsIInv'
<1> USE TlsConnectAssumption
<1> USE DEF TlsIInv
<1>1. ASSUME NEW k \in Keys, Begin(k) PROVE TlsIInv'
  BY <1>1 DEF Begin, vars, workerVars, TlsTypes, Ownership, Trust, Alive
<1>2. CASE TcpFails
  BY <1>2 DEF TcpFails, Release, vars, TlsTypes, Ownership, Trust, Alive
<1>3. CASE SpawnWorker
  <2>1. FreeSlot \in Slots /\ worker[FreeSlot] = "None"
    BY <1>3 DEF SpawnWorker, FreeSlot, Ownership
  <2>2. TlsTypes' /\ Trust'
    BY <1>3, <2>1 DEF SpawnWorker, vars, TlsTypes, Trust
  <2>3. Ownership'
    BY <1>3, <2>1 DEF SpawnWorker, vars, TlsTypes, Ownership
  <2> QED
    BY <1>3, <2>1, <2>2, <2>3, OneMore DEF SpawnWorker
<1>4. CASE CallerTimeout
  BY <1>4 DEF CallerTimeout, Running, Release, vars, TlsTypes, Ownership, Trust, Alive
<1>5. CASE CallerResult
  <2>1. /\ slot \in Slots /\ worker[slot] # "Run"
        /\ \A a \in Slots : result'[a] = None
    BY <1>5 DEF CallerResult, TlsTypes, Ownership
  <2>2. CASE Release({slot})
    BY <1>5, <2>1, <2>2 DEF CallerResult, Release, vars, TlsTypes, Ownership, Trust, Alive
  <2>3. CASE caller' = "Pin"
    BY <1>5, <2>1, <2>3 DEF CallerResult, Release, vars, TlsTypes, Ownership, Trust, Alive, Outcomes
  <2> QED
    BY <1>5, <2>2, <2>3 DEF CallerResult
<1>6. CASE FirstSeen
  <2>1. pins' = [pins EXCEPT ![key] = cert] /\ step' = "Create" /\ key \in Keys /\ pins \in Pins
    BY <1>6 DEF FirstSeen, Check, TlsTypes, IInv
  <2>2. pins'[key] = cert
    BY <2>1 DEF Pins
  <2> QED
    BY <1>6, <2>1, <2>2 DEF FirstSeen, workerVars, TlsTypes, Ownership, Trust, Alive
<1>7. CASE Saved
  BY <1>7 DEF Saved, vars, workerVars, TlsTypes, Ownership, Trust, Alive
<1>8. CASE Seen
  BY <1>8 DEF Seen, IsMismatch, Differs, vars, workerVars, TlsTypes, Ownership, Trust, Alive
<1>9. CASE CloseStream
  BY <1>9 DEF CloseStream, Release, vars, TlsTypes, Ownership, Trust, Alive
<1> QED
  BY <1>1, <1>2, <1>3, <1>4, <1>5, <1>6, <1>7, <1>8, <1>9 DEF CallerStep

\* ... and so does every step of a worker, ...
LEMMA WorkerKeeps ==
  ASSUME TlsIInv, IInv', NEW a \in Slots, Deadline(a) \/ Expire(a) \/ Finish(a) \/ Exit(a)
  PROVE  TlsIInv'
<1> USE TlsConnectAssumption
<1> USE DEF TlsIInv
<1>1. CASE Deadline(a)
  BY <1>1 DEF Deadline, vars, callerVars, TlsTypes, Ownership, Trust, Alive
<1>2. ASSUME NEW r \in Outcomes, NEW heard \in BOOLEAN, Running(a), Deliver(a, r, heard),
             heard = (caller = "Handshake" /\ slot = a)
      PROVE  TlsIInv'
  <2>1. Alive' = Alive
    BY <1>2 DEF Deliver, Running, Alive, TlsTypes
  <2>2. TlsTypes' /\ Trust'
    BY <1>2 DEF Deliver, vars, callerVars, TlsTypes, Trust
  <2>3. Ownership'
    BY <1>2 DEF Deliver, Running, callerVars, TlsTypes, Ownership, Outcomes
  <2> QED
    BY <1>2, <2>1, <2>2, <2>3 DEF Deliver
<1>3. CASE Expire(a) \/ Finish(a)
  <2>1. PICK r \in Outcomes : Send(a, r) /\ Running(a)
    BY <1>3 DEF Expire, Finish, Outcomes
  <2> QED
    BY <1>2, <2>1 DEF Send
<1>4. CASE Exit(a)
  <2>1. TlsTypes' /\ Trust' /\ Ownership'
    BY <1>4 DEF Exit, vars, callerVars, TlsTypes, Trust, Ownership
  <2> QED
    BY <1>4, <2>1, OneLess DEF Exit
<1> QED
  BY <1>1, <1>3, <1>4

\* ... a step of the store by itself, and a crash.
LEMMA StoreKeeps ==
  ASSUME TlsIInv, IInv', StoreStep \/ ProcessCrash
  PROVE  TlsIInv'
<1> USE TlsConnectAssumption
<1>1. CASE StoreStep
  <2>1. UNCHANGED <<callerVars, workerVars>> /\ step' # "Down"
    BY <1>1 DEF StoreStep, Load, CreateTmp, WriteTmp, RenameTmp
  <2>2. caller = "Idle" \/ UNCHANGED pins
    BY <1>1 DEF StoreStep, Load, CreateTmp, WriteTmp, RenameTmp, TlsIInv, Trust
  <2> QED
    BY <2>1, <2>2 DEF TlsIInv, callerVars, workerVars, TlsTypes, Ownership, Trust, Alive
<1>2. CASE ProcessCrash
  <2>1. TlsTypes' /\ Trust' /\ Ownership'
    BY <1>2 DEF ProcessCrash, Fresh, TlsTypes, Trust, Ownership
  <2>2. Alive' = {} /\ inFlight' = 0
    BY <1>2 DEF ProcessCrash, Fresh, Alive
  <2> QED
    BY <2>1, <2>2, FS_EmptySet DEF TlsIInv
<1> QED
  BY <1>1, <1>2

LEMMA TlsIInvNext == TlsIInv /\ [TlsNext]_tlsVars => TlsIInv'
<1> SUFFICES ASSUME TlsIInv, [TlsNext]_tlsVars PROVE TlsIInv'
  OBVIOUS
<1>1. IInv'
  BY TlsStepIsStoreStep, IInvNext DEF TlsIInv
<1>2. CASE UNCHANGED tlsVars
  BY <1>1, <1>2 DEF tlsVars, vars, callerVars, workerVars, TlsIInv, TlsTypes, Ownership, Trust, Alive
<1> QED
  BY <1>1, <1>2, CallerKeeps, WorkerKeeps, StoreKeeps DEF TlsNext

\* The connecting task uses the store as the store is specified: it checks
\* only while the store is loaded and idle, and nothing else changes the pins.
THEOREM TlsUsesStore == TlsSpec => Spec
<1>1. TlsInit => Init
  BY DEF TlsInit
<1> QED
  BY <1>1, TlsIInvInit, TlsIInvNext, TlsStepIsStoreStep, PTL DEF TlsSpec, Spec

\* Hence, with handshakes running beside it, memory knows every pin on file
\* and no pin on file is lost.
THEOREM TlsKeepsPins == TlsSpec => []StoreInv /\ PinKept
  BY TlsUsesStore, PinsRemembered, PinsKept, PTL

\* No socket is left behind by a timeout that races the end of a handshake,
\* and the gauge counts the workers, for any number of them.
THEOREM SocketsAreOwned == TlsSpec => []SocketsOwned
<1>1. TlsIInv => SocketsOwned
  BY TofuStoreAssumption, TlsConnectAssumption DEF TlsIInv, TlsTypes, Ownership, Alive, SocketsOwned, Running,
     Certs
<1> QED
  BY <1>1, TlsIInvInit, TlsIInvNext, PTL DEF TlsSpec

\* A connection in use shows the pinned certificate, or the user was warned.
THEOREM ConnectionsAreTrusted == TlsSpec => []TrustedOrWarned
<1>1. TlsIInv => TrustedOrWarned
  BY DEF TlsIInv, TlsTypes, Trust, TrustedOrWarned
<1> QED
  BY <1>1, TlsIInvInit, TlsIInvNext, PTL DEF TlsSpec

-----------------------------------------------------------------------------
(* Induction and loops.                                                    *)

\* A set of numbers closed under successors up to n has n.
LEMMA Climb ==
    ASSUME NEW n \in Nat, NEW m \in 0..n, NEW K, m \in K,
           \A k \in m..n - 1 : k \in K => k + 1 \in K
    PROVE  n \in K
<1> SUFFICES ASSUME n \notin K PROVE FALSE
  OBVIOUS
<1> DEFINE T == {k \in m..n : k \notin K}
           R == StrictSubsetOrdering(0..n)
           F == {0..k : k \in T}
<1>1. IsWellFoundedOn(R, SUBSET (0..n))
  <2>1. IsFiniteSet(0..n)
    BY FS_Interval
  <2> QED BY <2>1, FS_StrictSubsetOrderingWellFounded, FS_FiniteSubsetsOfFinite
<1>2. F \subseteq SUBSET (0..n)
  <2> SUFFICES ASSUME NEW k \in T PROVE 0..k \subseteq 0..n
    OBVIOUS
  <2> QED OBVIOUS
<1>3. F # {}
  BY n \in T
<1>4. \E x \in F : \A y \in F : ~(<<y, x>> \in R)
  <2> HIDE DEF F, R
  <2> QED BY <1>1, <1>2, <1>3, WFMin
<1>5. PICK x \in T : \A y \in T : ~(<<0..y, 0..x>> \in R)
  BY <1>4
<1>6. x - 1 \in T
  OBVIOUS
<1>7. 0..(x - 1) \subseteq 0..x /\ 0..(x - 1) # 0..x
  <2>1. x \in 0..x /\ x \notin 0..(x - 1)
    OBVIOUS
  <2> QED BY <2>1
<1>8. <<0..(x - 1), 0..x>> \in R
  BY <1>7 DEF StrictSubsetOrdering
<1> QED BY <1>5, <1>6, <1>8

\* What the turns of a loop make: of push_bytes, ...
LEMMA TakingTurns ==
    ASSUME NEW x, NEW n \in Nat
    PROVE  /\ Repeat(TakeFrame, x, 0) = x
           /\ Repeat(TakeFrame, x, n + 1) = TakeFrame(Repeat(TakeFrame, x, n))
<1> DEFINE Is(k, f) == f = [i \in 0..k |-> IF i = 0 THEN x ELSE TakeFrame(f[i - 1])]
           after(k) == CHOOSE f : Is(k, f)
<1>1. ASSUME NEW k \in Nat PROVE Is(k, after(k))
  <2> DEFINE K == {j \in 0..k : \E f : Is(j, f)}
  <2>1. 0 \in K
    <3> DEFINE f == [i \in 0..0 |-> x]
    <3>1. Is(0, f)
      <4>1. \A i \in 0..0 : i = 0
        OBVIOUS
      <4> QED BY <4>1
    <3>2. 0 \in 0..k
      OBVIOUS
    <3> HIDE DEF f, Is
    <3> QED BY <3>1, <3>2
  <2>2. ASSUME NEW j \in 0..k - 1, j \in K PROVE j + 1 \in K
    <3>1. PICK f : Is(j, f)
      BY <2>2
    <3> DEFINE g == [i \in 0..j + 1 |-> IF i = j + 1 THEN TakeFrame(f[j]) ELSE f[i]]
    <3>2. ASSUME NEW i \in 0..j + 1 PROVE g[i] = IF i = 0 THEN x ELSE TakeFrame(g[i - 1])
      <4>1. CASE i = j + 1
        <5>1. g[i] = TakeFrame(f[j]) /\ i - 1 = j /\ i # 0 /\ g[j] = f[j]
          BY <4>1
        <5> HIDE DEF g
        <5> QED BY <5>1
      <4>2. CASE i # j + 1
        <5>1. g[i] = f[i] /\ i \in 0..j /\ (i # 0 => g[i - 1] = f[i - 1])
          BY <4>2
        <5>2. f[i] = IF i = 0 THEN x ELSE TakeFrame(f[i - 1])
          BY <3>1, <5>1
        <5> HIDE DEF g
        <5> QED BY <5>1, <5>2
      <4> QED BY <4>1, <4>2
    <3>3. Is(j + 1, g)
      BY <3>2
    <3>4. j + 1 \in 0..k
      OBVIOUS
    <3> HIDE DEF g, Is
    <3> QED BY <3>3, <3>4
  <2>3. k \in K
    <3> HIDE DEF K
    <3>1. 0 \in 0..k
      OBVIOUS
    <3> QED BY <2>1, <2>2, <3>1, Climb
  <2> HIDE DEF Is
  <2> QED BY <2>3, Zenon
<1>2. ASSUME NEW k \in Nat PROVE Repeat(TakeFrame, x, k) = after(k)[k]
  BY Zenon DEF Repeat
<1> HIDE DEF after
<1>3. after(0)[0] = x
  BY <1>1
<1>4. ASSUME NEW j \in 0..n PROVE after(n + 1)[j] = after(n)[j]
  <2> DEFINE K == {i \in 0..j : after(n + 1)[i] = after(n)[i]}
  <2>1. 0 \in K
    <3>1. 0 \in 0..n + 1 /\ 0 \in 0..n /\ 0 \in 0..j
      OBVIOUS
    <3> QED BY <1>1, <3>1
  <2>2. ASSUME NEW i \in 0..j - 1, i \in K PROVE i + 1 \in K
    <3>1. i + 1 \in 0..n + 1 /\ i + 1 \in 0..n /\ i + 1 \in 0..j /\ (i + 1) - 1 = i /\ i + 1 # 0
      OBVIOUS
    <3>2. after(n + 1)[i + 1] = TakeFrame(after(n + 1)[(i + 1) - 1])
      BY <1>1, <3>1
    <3>3. after(n)[i + 1] = TakeFrame(after(n)[(i + 1) - 1])
      BY <1>1, <3>1
    <3> QED BY <2>2, <3>1, <3>2, <3>3
  <2>3. j \in K
    <3> HIDE DEF K
    <3>1. 0 \in 0..j /\ j \in Nat
      OBVIOUS
    <3> QED BY <2>1, <2>2, <3>1, Climb
  <2> QED BY <2>3
<1>5. after(n + 1)[n + 1] = TakeFrame(after(n)[n])
  <2>1. n + 1 \in 0..n + 1 /\ (n + 1) - 1 = n /\ n + 1 # 0 /\ n \in 0..n
    OBVIOUS
  <2>2. after(n + 1)[n + 1] = TakeFrame(after(n + 1)[(n + 1) - 1])
    BY <1>1, <2>1
  <2> QED BY <1>4, <2>1, <2>2
<1>6. 0 \in Nat /\ n + 1 \in Nat
  OBVIOUS
<1> QED BY <1>2, <1>3, <1>5, <1>6, Zenon

\* ... of decode_cast_message, ...
LEMMA DecodingTurns ==
    ASSUME NEW x, NEW n \in Nat
    PROVE  /\ Repeat(DecodeTurn, x, 0) = x
           /\ Repeat(DecodeTurn, x, n + 1) = DecodeTurn(Repeat(DecodeTurn, x, n))
<1> DEFINE Is(k, f) == f = [i \in 0..k |-> IF i = 0 THEN x ELSE DecodeTurn(f[i - 1])]
           after(k) == CHOOSE f : Is(k, f)
<1>1. ASSUME NEW k \in Nat PROVE Is(k, after(k))
  <2> DEFINE K == {j \in 0..k : \E f : Is(j, f)}
  <2>1. 0 \in K
    <3> DEFINE f == [i \in 0..0 |-> x]
    <3>1. Is(0, f)
      <4>1. \A i \in 0..0 : i = 0
        OBVIOUS
      <4> QED BY <4>1
    <3>2. 0 \in 0..k
      OBVIOUS
    <3> HIDE DEF f, Is
    <3> QED BY <3>1, <3>2
  <2>2. ASSUME NEW j \in 0..k - 1, j \in K PROVE j + 1 \in K
    <3>1. PICK f : Is(j, f)
      BY <2>2
    <3> DEFINE g == [i \in 0..j + 1 |-> IF i = j + 1 THEN DecodeTurn(f[j]) ELSE f[i]]
    <3>2. ASSUME NEW i \in 0..j + 1 PROVE g[i] = IF i = 0 THEN x ELSE DecodeTurn(g[i - 1])
      <4>1. CASE i = j + 1
        <5>1. g[i] = DecodeTurn(f[j]) /\ i - 1 = j /\ i # 0 /\ g[j] = f[j]
          BY <4>1
        <5> HIDE DEF g
        <5> QED BY <5>1
      <4>2. CASE i # j + 1
        <5>1. g[i] = f[i] /\ i \in 0..j /\ (i # 0 => g[i - 1] = f[i - 1])
          BY <4>2
        <5>2. f[i] = IF i = 0 THEN x ELSE DecodeTurn(f[i - 1])
          BY <3>1, <5>1
        <5> HIDE DEF g
        <5> QED BY <5>1, <5>2
      <4> QED BY <4>1, <4>2
    <3>3. Is(j + 1, g)
      BY <3>2
    <3>4. j + 1 \in 0..k
      OBVIOUS
    <3> HIDE DEF g, Is
    <3> QED BY <3>3, <3>4
  <2>3. k \in K
    <3> HIDE DEF K
    <3>1. 0 \in 0..k
      OBVIOUS
    <3> QED BY <2>1, <2>2, <3>1, Climb
  <2> HIDE DEF Is
  <2> QED BY <2>3, Zenon
<1>2. ASSUME NEW k \in Nat PROVE Repeat(DecodeTurn, x, k) = after(k)[k]
  BY Zenon DEF Repeat
<1> HIDE DEF after
<1>3. after(0)[0] = x
  BY <1>1
<1>4. ASSUME NEW j \in 0..n PROVE after(n + 1)[j] = after(n)[j]
  <2> DEFINE K == {i \in 0..j : after(n + 1)[i] = after(n)[i]}
  <2>1. 0 \in K
    <3>1. 0 \in 0..n + 1 /\ 0 \in 0..n /\ 0 \in 0..j
      OBVIOUS
    <3> QED BY <1>1, <3>1
  <2>2. ASSUME NEW i \in 0..j - 1, i \in K PROVE i + 1 \in K
    <3>1. i + 1 \in 0..n + 1 /\ i + 1 \in 0..n /\ i + 1 \in 0..j /\ (i + 1) - 1 = i /\ i + 1 # 0
      OBVIOUS
    <3>2. after(n + 1)[i + 1] = DecodeTurn(after(n + 1)[(i + 1) - 1])
      BY <1>1, <3>1
    <3>3. after(n)[i + 1] = DecodeTurn(after(n)[(i + 1) - 1])
      BY <1>1, <3>1
    <3> QED BY <2>2, <3>1, <3>2, <3>3
  <2>3. j \in K
    <3> HIDE DEF K
    <3>1. 0 \in 0..j /\ j \in Nat
      OBVIOUS
    <3> QED BY <2>1, <2>2, <3>1, Climb
  <2> QED BY <2>3
<1>5. after(n + 1)[n + 1] = DecodeTurn(after(n)[n])
  <2>1. n + 1 \in 0..n + 1 /\ (n + 1) - 1 = n /\ n + 1 # 0 /\ n \in 0..n
    OBVIOUS
  <2>2. after(n + 1)[n + 1] = DecodeTurn(after(n + 1)[(n + 1) - 1])
    BY <1>1, <2>1
  <2> QED BY <1>4, <2>1, <2>2
<1>6. 0 \in Nat /\ n + 1 \in Nat
  OBVIOUS
<1> QED BY <1>2, <1>3, <1>5, <1>6, Zenon

\* ... of feed, ...
LEMMA CuttingTurns ==
    ASSUME NEW x, NEW n \in Nat
    PROVE  /\ Repeat(CutOne, x, 0) = x
           /\ Repeat(CutOne, x, n + 1) = CutOne(Repeat(CutOne, x, n))
<1> DEFINE Is(k, f) == f = [i \in 0..k |-> IF i = 0 THEN x ELSE CutOne(f[i - 1])]
           after(k) == CHOOSE f : Is(k, f)
<1>1. ASSUME NEW k \in Nat PROVE Is(k, after(k))
  <2> DEFINE K == {j \in 0..k : \E f : Is(j, f)}
  <2>1. 0 \in K
    <3> DEFINE f == [i \in 0..0 |-> x]
    <3>1. Is(0, f)
      <4>1. \A i \in 0..0 : i = 0
        OBVIOUS
      <4> QED BY <4>1
    <3>2. 0 \in 0..k
      OBVIOUS
    <3> HIDE DEF f, Is
    <3> QED BY <3>1, <3>2
  <2>2. ASSUME NEW j \in 0..k - 1, j \in K PROVE j + 1 \in K
    <3>1. PICK f : Is(j, f)
      BY <2>2
    <3> DEFINE g == [i \in 0..j + 1 |-> IF i = j + 1 THEN CutOne(f[j]) ELSE f[i]]
    <3>2. ASSUME NEW i \in 0..j + 1 PROVE g[i] = IF i = 0 THEN x ELSE CutOne(g[i - 1])
      <4>1. CASE i = j + 1
        <5>1. g[i] = CutOne(f[j]) /\ i - 1 = j /\ i # 0 /\ g[j] = f[j]
          BY <4>1
        <5> HIDE DEF g
        <5> QED BY <5>1
      <4>2. CASE i # j + 1
        <5>1. g[i] = f[i] /\ i \in 0..j /\ (i # 0 => g[i - 1] = f[i - 1])
          BY <4>2
        <5>2. f[i] = IF i = 0 THEN x ELSE CutOne(f[i - 1])
          BY <3>1, <5>1
        <5> HIDE DEF g
        <5> QED BY <5>1, <5>2
      <4> QED BY <4>1, <4>2
    <3>3. Is(j + 1, g)
      BY <3>2
    <3>4. j + 1 \in 0..k
      OBVIOUS
    <3> HIDE DEF g, Is
    <3> QED BY <3>3, <3>4
  <2>3. k \in K
    <3> HIDE DEF K
    <3>1. 0 \in 0..k
      OBVIOUS
    <3> QED BY <2>1, <2>2, <3>1, Climb
  <2> HIDE DEF Is
  <2> QED BY <2>3, Zenon
<1>2. ASSUME NEW k \in Nat PROVE Repeat(CutOne, x, k) = after(k)[k]
  BY Zenon DEF Repeat
<1> HIDE DEF after
<1>3. after(0)[0] = x
  BY <1>1
<1>4. ASSUME NEW j \in 0..n PROVE after(n + 1)[j] = after(n)[j]
  <2> DEFINE K == {i \in 0..j : after(n + 1)[i] = after(n)[i]}
  <2>1. 0 \in K
    <3>1. 0 \in 0..n + 1 /\ 0 \in 0..n /\ 0 \in 0..j
      OBVIOUS
    <3> QED BY <1>1, <3>1
  <2>2. ASSUME NEW i \in 0..j - 1, i \in K PROVE i + 1 \in K
    <3>1. i + 1 \in 0..n + 1 /\ i + 1 \in 0..n /\ i + 1 \in 0..j /\ (i + 1) - 1 = i /\ i + 1 # 0
      OBVIOUS
    <3>2. after(n + 1)[i + 1] = CutOne(after(n + 1)[(i + 1) - 1])
      BY <1>1, <3>1
    <3>3. after(n)[i + 1] = CutOne(after(n)[(i + 1) - 1])
      BY <1>1, <3>1
    <3> QED BY <2>2, <3>1, <3>2, <3>3
  <2>3. j \in K
    <3> HIDE DEF K
    <3>1. 0 \in 0..j /\ j \in Nat
      OBVIOUS
    <3> QED BY <2>1, <2>2, <3>1, Climb
  <2> QED BY <2>3
<1>5. after(n + 1)[n + 1] = CutOne(after(n)[n])
  <2>1. n + 1 \in 0..n + 1 /\ (n + 1) - 1 = n /\ n + 1 # 0 /\ n \in 0..n
    OBVIOUS
  <2>2. after(n + 1)[n + 1] = CutOne(after(n + 1)[(n + 1) - 1])
    BY <1>1, <2>1
  <2> QED BY <1>4, <2>1, <2>2
<1>6. 0 \in Nat /\ n + 1 \in Nat
  OBVIOUS
<1> QED BY <1>2, <1>3, <1>5, <1>6, Zenon

\* ... and of what it is compared with.
LEMMA ParsingTurns ==
    ASSUME NEW x, NEW n \in Nat
    PROVE  /\ Repeat(NextBox, x, 0) = x
           /\ Repeat(NextBox, x, n + 1) = NextBox(Repeat(NextBox, x, n))
<1> DEFINE Is(k, f) == f = [i \in 0..k |-> IF i = 0 THEN x ELSE NextBox(f[i - 1])]
           after(k) == CHOOSE f : Is(k, f)
<1>1. ASSUME NEW k \in Nat PROVE Is(k, after(k))
  <2> DEFINE K == {j \in 0..k : \E f : Is(j, f)}
  <2>1. 0 \in K
    <3> DEFINE f == [i \in 0..0 |-> x]
    <3>1. Is(0, f)
      <4>1. \A i \in 0..0 : i = 0
        OBVIOUS
      <4> QED BY <4>1
    <3>2. 0 \in 0..k
      OBVIOUS
    <3> HIDE DEF f, Is
    <3> QED BY <3>1, <3>2
  <2>2. ASSUME NEW j \in 0..k - 1, j \in K PROVE j + 1 \in K
    <3>1. PICK f : Is(j, f)
      BY <2>2
    <3> DEFINE g == [i \in 0..j + 1 |-> IF i = j + 1 THEN NextBox(f[j]) ELSE f[i]]
    <3>2. ASSUME NEW i \in 0..j + 1 PROVE g[i] = IF i = 0 THEN x ELSE NextBox(g[i - 1])
      <4>1. CASE i = j + 1
        <5>1. g[i] = NextBox(f[j]) /\ i - 1 = j /\ i # 0 /\ g[j] = f[j]
          BY <4>1
        <5> HIDE DEF g
        <5> QED BY <5>1
      <4>2. CASE i # j + 1
        <5>1. g[i] = f[i] /\ i \in 0..j /\ (i # 0 => g[i - 1] = f[i - 1])
          BY <4>2
        <5>2. f[i] = IF i = 0 THEN x ELSE NextBox(f[i - 1])
          BY <3>1, <5>1
        <5> HIDE DEF g
        <5> QED BY <5>1, <5>2
      <4> QED BY <4>1, <4>2
    <3>3. Is(j + 1, g)
      BY <3>2
    <3>4. j + 1 \in 0..k
      OBVIOUS
    <3> HIDE DEF g, Is
    <3> QED BY <3>3, <3>4
  <2>3. k \in K
    <3> HIDE DEF K
    <3>1. 0 \in 0..k
      OBVIOUS
    <3> QED BY <2>1, <2>2, <3>1, Climb
  <2> HIDE DEF Is
  <2> QED BY <2>3, Zenon
<1>2. ASSUME NEW k \in Nat PROVE Repeat(NextBox, x, k) = after(k)[k]
  BY Zenon DEF Repeat
<1> HIDE DEF after
<1>3. after(0)[0] = x
  BY <1>1
<1>4. ASSUME NEW j \in 0..n PROVE after(n + 1)[j] = after(n)[j]
  <2> DEFINE K == {i \in 0..j : after(n + 1)[i] = after(n)[i]}
  <2>1. 0 \in K
    <3>1. 0 \in 0..n + 1 /\ 0 \in 0..n /\ 0 \in 0..j
      OBVIOUS
    <3> QED BY <1>1, <3>1
  <2>2. ASSUME NEW i \in 0..j - 1, i \in K PROVE i + 1 \in K
    <3>1. i + 1 \in 0..n + 1 /\ i + 1 \in 0..n /\ i + 1 \in 0..j /\ (i + 1) - 1 = i /\ i + 1 # 0
      OBVIOUS
    <3>2. after(n + 1)[i + 1] = NextBox(after(n + 1)[(i + 1) - 1])
      BY <1>1, <3>1
    <3>3. after(n)[i + 1] = NextBox(after(n)[(i + 1) - 1])
      BY <1>1, <3>1
    <3> QED BY <2>2, <3>1, <3>2, <3>3
  <2>3. j \in K
    <3> HIDE DEF K
    <3>1. 0 \in 0..j /\ j \in Nat
      OBVIOUS
    <3> QED BY <2>1, <2>2, <3>1, Climb
  <2> QED BY <2>3
<1>5. after(n + 1)[n + 1] = NextBox(after(n)[n])
  <2>1. n + 1 \in 0..n + 1 /\ (n + 1) - 1 = n /\ n + 1 # 0 /\ n \in 0..n
    OBVIOUS
  <2>2. after(n + 1)[n + 1] = NextBox(after(n + 1)[(n + 1) - 1])
    BY <1>1, <2>1
  <2> QED BY <1>4, <2>1, <2>2
<1>6. 0 \in Nat /\ n + 1 \in Nat
  OBVIOUS
<1> QED BY <1>2, <1>3, <1>5, <1>6, Zenon

-----------------------------------------------------------------------------
(* Sequences put together.                                                 *)

\* u is s with t behind it.
Adjoins(s, t, u) ==
    /\ u \in Seq(Nat) /\ Len(s) \in Nat /\ Len(t) \in Nat /\ Len(u) = Len(s) + Len(t)
    /\ \A i \in 1..Len(s) : u[i] = s[i]
    /\ \A i \in 1..Len(t) : u[Len(s) + i] = t[i]

LEMMA Adjoining ==
    ASSUME NEW s \in Seq(Nat), NEW t \in Seq(Nat)
    PROVE  Adjoins(s, t, s \o t)
<1> DEFINE u == s \o t
<1>1. Len(s) \in Nat /\ Len(t) \in Nat
  OBVIOUS
<1>2. /\ u \in Seq(Nat) /\ Len(u) = Len(s) + Len(t)
      /\ \A i \in 1..Len(s) + Len(t) : u[i] = IF i <= Len(s) THEN s[i] ELSE t[i - Len(s)]
  BY ConcatProperties, Zenon
<1> HIDE DEF u
<1>3. \A i \in 1..Len(s) : u[i] = s[i]
  BY <1>1, <1>2
<1>4. ASSUME NEW i \in 1..Len(t) PROVE u[Len(s) + i] = t[i]
  <2>1. Len(s) + i \in 1..Len(s) + Len(t) /\ ~(Len(s) + i <= Len(s)) /\ (Len(s) + i) - Len(s) = i
    BY <1>1
  <2> QED BY <1>2, <2>1
<1>5. Adjoins(s, t, u)
  BY <1>1, <1>2, <1>3, <1>4 DEF Adjoins
<1> QED BY <1>5 DEF u

\* f[i] is what the first i sequences of ss make, one behind the other.
Joins(ss, f) ==
    /\ f[0] = <<>>
    /\ \A i \in 1..Len(ss) : f[i] = f[i - 1] \o ss[i]

LEMMA Joining ==
    ASSUME NEW X, NEW ss \in Seq(Seq(X))
    PROVE  \E f \in [0..Len(ss) -> Seq(X)] : Joins(ss, f)
<1> DEFINE n == Len(ss)
           J(k, f) == f[0] = <<>> /\ \A i \in 1..k : f[i] = f[i - 1] \o ss[i]
           K == {k \in 0..n : \E f \in [0..k -> Seq(X)] : J(k, f)}
<1>1. 0 \in K
  <2> DEFINE f == [i \in 0..0 |-> <<>>]
  <2>1. f \in [0..0 -> Seq(X)] /\ J(0, f)
    OBVIOUS
  <2>2. \E g \in [0..0 -> Seq(X)] : J(0, g)
    <3> HIDE DEF f, J
    <3> QED BY <2>1
  <2>3. 0 \in 0..n
    OBVIOUS
  <2> HIDE DEF J, n
  <2> QED BY <2>2, <2>3
<1>2. ASSUME NEW k \in 0..n - 1, k \in K PROVE k + 1 \in K
  <2>1. PICK f \in [0..k -> Seq(X)] : J(k, f)
    BY <1>2
  <2> DEFINE g == [i \in 0..k + 1 |-> IF i = k + 1 THEN f[k] \o ss[k + 1] ELSE f[i]]
  <2>2. g \in [0..k + 1 -> Seq(X)]
    <3>1. f[k] \in Seq(X) /\ ss[k + 1] \in Seq(X)
      OBVIOUS
    <3>2. f[k] \o ss[k + 1] \in Seq(X)
      BY <3>1
    <3> QED BY <3>2
  <2>3. g[0] = <<>>
    BY <2>1
  <2>4. ASSUME NEW i \in 1..k + 1 PROVE g[i] = g[i - 1] \o ss[i]
    <3>1. CASE i = k + 1
      <4>1. g[k + 1] = f[k] \o ss[k + 1] /\ g[k] = f[k] /\ (k + 1) - 1 = k
        OBVIOUS
      <4> HIDE DEF g
      <4> QED BY <3>1, <4>1
    <3>2. CASE i # k + 1
      <4>1. g[i] = f[i] /\ g[i - 1] = f[i - 1] /\ i \in 1..k
        BY <3>2
      <4> QED BY <2>1, <4>1
    <3> QED BY <3>1, <3>2
  <2>5. \E h \in [0..k + 1 -> Seq(X)] : J(k + 1, h)
    <3> HIDE DEF g
    <3> QED BY <2>2, <2>3, <2>4
  <2>6. k + 1 \in 0..n
    OBVIOUS
  <2> HIDE DEF J, n
  <2> QED BY <2>5, <2>6
<1>3. n \in K
  <2>1. n \in Nat
    OBVIOUS
  <2> HIDE DEF K, n
  <2> QED BY <1>1, <1>2, <2>1, Climb
<1> QED BY <1>3 DEF Joins

LEMMA JoinedIs ==
    ASSUME NEW X, NEW ss \in Seq(Seq(X)), NEW f \in [0..Len(ss) -> Seq(X)], Joins(ss, f)
    PROVE  FlattenSeq(ss) = f[Len(ss)] /\ FlattenSeq(ss) \in Seq(X)
<1> DEFINE n == Len(ss)
<1>1. n \in Nat
  OBVIOUS
<1>2. CASE n = 0
  <2>1. ss = <<>>
    BY <1>2
  <2> QED BY <1>2, <2>1 DEF FlattenSeq, Joins
<1>3. CASE n # 0
  <2> DEFINE Is(h) == h = [i \in 1..n |-> IF i = 1 THEN ss[i] ELSE h[i - 1] \o ss[i]]
             g == [i \in 1..n |-> f[i]]
             h == CHOOSE h : Is(h)
             K == {k \in 0..n : k = 0 \/ h[k] = f[k]}
  <2>1. Is(g)
    <3>1. ASSUME NEW i \in 1..n PROVE f[i] = IF i = 1 THEN ss[i] ELSE g[i - 1] \o ss[i]
      <4>1. CASE i = 1
        <5>1. f[1] = f[0] \o ss[1]
          <6>1. 1 \in 1..Len(ss) /\ 1 - 1 = 0
            BY <4>1
          <6> QED BY <6>1 DEF Joins
        <5>2. f[0] = <<>> /\ ss[1] \in Seq(X)
          BY <4>1 DEF Joins
        <5> QED BY <4>1, <5>1, <5>2
      <4>2. CASE i # 1
        <5>1. i - 1 \in 1..n
          BY <4>2
        <5> QED BY <4>2, <5>1 DEF Joins
      <4> QED BY <4>1, <4>2
    <3> QED BY <3>1
  <2>2. Is(h)
    <3> HIDE DEF g, Is
    <3> QED BY <2>1, Zenon
  <2>3. ASSUME NEW k \in 0..n - 1, k \in K PROVE k + 1 \in K
    <3> HIDE DEF h
    <3>1. k + 1 \in 1..n /\ (k + 1) - 1 = k
      OBVIOUS
    <3>2. h[k + 1] = IF k + 1 = 1 THEN ss[k + 1] ELSE h[(k + 1) - 1] \o ss[k + 1]
      BY <2>2, <3>1
    <3>3. f[k + 1] = f[(k + 1) - 1] \o ss[k + 1] /\ f[0] = <<>>
      BY <3>1 DEF Joins
    <3>4. CASE k = 0
      <4>1. <<>> \o ss[k + 1] = ss[k + 1]
        <5>1. ss[k + 1] \in Seq(X)
          BY <3>1
        <5> QED BY <5>1
      <4>2. h[k + 1] = ss[k + 1] /\ f[(k + 1) - 1] = <<>>
        BY <3>1, <3>2, <3>3, <3>4
      <4>3. h[k + 1] = f[k + 1]
        BY <3>3, <4>1, <4>2, Zenon
      <4> QED BY <3>1, <4>3
    <3>5. CASE k # 0
      <4>1. h[(k + 1) - 1] = f[(k + 1) - 1]
        BY <2>3, <3>1, <3>5
      <4>2. k + 1 # 1
        BY <3>5
      <4>3. h[k + 1] = f[k + 1]
        BY <3>2, <3>3, <4>1, <4>2, Zenon
      <4> QED BY <3>1, <4>3
    <3> QED BY <3>4, <3>5
  <2>4. n \in K
    <3> HIDE DEF h, n
    <3>1. 0 \in K
      BY <1>1
    <3> HIDE DEF K
    <3> QED BY <1>1, <2>3, <3>1, Climb
  <2>5. FlattenSeq(ss) = h[n]
    BY <1>3, Zenon DEF FlattenSeq
  <2> HIDE DEF h
  <2> QED BY <1>1, <1>3, <2>4, <2>5
<1> QED BY <1>2, <1>3

LEMMA FlattenSeqType ==
    ASSUME NEW X, NEW ss \in Seq(Seq(X))
    PROVE  FlattenSeq(ss) \in Seq(X)
BY Joining, JoinedIs

LEMMA FlattenSeqEmpty == FlattenSeq(<<>>) = <<>>
BY DEF FlattenSeq

LEMMA FlattenSeqAppend ==
    ASSUME NEW X, NEW ss \in Seq(Seq(X)), NEW s \in Seq(X)
    PROVE  FlattenSeq(Append(ss, s)) = FlattenSeq(ss) \o s
<1> DEFINE tt == Append(ss, s)
           n  == Len(ss)
<1>1. tt \in Seq(Seq(X)) /\ Len(tt) = n + 1 /\ n \in Nat /\ tt[n + 1] = s
      /\ \A i \in 1..n : tt[i] = ss[i]
  OBVIOUS
<1> HIDE DEF tt
<1>2. PICK f \in [0..Len(tt) -> Seq(X)] : Joins(tt, f)
  BY <1>1, Joining
<1> DEFINE g == [i \in 0..n |-> f[i]]
<1>3. g \in [0..n -> Seq(X)]
  BY <1>1
<1>4. Joins(ss, g)
  <2>1. g[0] = <<>>
    BY <1>1, <1>2 DEF Joins
  <2>2. ASSUME NEW i \in 1..n PROVE g[i] = g[i - 1] \o ss[i]
    <3>1. i \in 1..Len(tt) /\ i \in 0..n /\ i - 1 \in 0..n
      BY <1>1
    <3> QED BY <1>1, <1>2, <3>1 DEF Joins
  <2> HIDE DEF g
  <2> QED BY <2>1, <2>2 DEF Joins
<1>5. FlattenSeq(ss) = g[n]
  <2> HIDE DEF g
  <2> QED BY <1>3, <1>4, JoinedIs
<1>6. FlattenSeq(tt) = f[n + 1]
  BY <1>1, <1>2, JoinedIs
<1>7. f[n + 1] = f[n] \o s
  <2>1. n + 1 \in 1..Len(tt) /\ (n + 1) - 1 = n
    BY <1>1
  <2> QED BY <1>1, <1>2, <2>1 DEF Joins
<1>8. g[n] = f[n]
  BY <1>1
<1> QED BY <1>5, <1>6, <1>7, <1>8 DEF tt

-----------------------------------------------------------------------------
(* Where the frames of a stream are.                                       *)

LEMMA EncodeFrameType ==
    ASSUME NEW s \in Seq(Nat)
    PROVE  /\ EncodeFrame(s) \in Seq(Nat) /\ Len(EncodeFrame(s)) = 2 + Len(s)
           /\ EncodeFrame(s)[1] = Len(s) \div 16 /\ EncodeFrame(s)[2] = Len(s) % 16
           /\ \A j \in 1..Len(s) : EncodeFrame(s)[2 + j] = s[j]
<1> DEFINE p == <<Len(s) \div 16, Len(s) % 16>>
<1>1. p \in Seq(Nat) /\ Len(p) = 2 /\ p[1] = Len(s) \div 16 /\ p[2] = Len(s) % 16
  OBVIOUS
<1> HIDE DEF p
<1>2. /\ p \o s \in Seq(Nat) /\ Len(p \o s) = 2 + Len(s)
      /\ \A i \in 1..2 + Len(s) : (p \o s)[i] = IF i <= 2 THEN p[i] ELSE s[i - 2]
  <2>1. /\ p \o s \in Seq(Nat) /\ Len(p \o s) = Len(p) + Len(s)
        /\ \A i \in 1..Len(p) + Len(s) : (p \o s)[i] = IF i <= Len(p) THEN p[i] ELSE s[i - Len(p)]
    BY <1>1, ConcatProperties, Zenon
  <2> QED BY <1>1, <2>1, Zenon
<1>3. EncodeFrame(s) = p \o s
  BY DEF EncodeFrame, p
<1> QED BY <1>1, <1>2, <1>3

\* What is sent, as far as the frames are concerned.
Post == [bytes : Seq(Nat), reads : {l.reads : l \in Letters}]

\* f[k] is the stream of the first k messages.
LaysOut(m, n, f) ==
    /\ f[0] = <<>>
    /\ \A k \in 1..n : f[k] = f[k - 1] \o EncodeFrame(m[k].bytes)
    /\ \A k \in 0..n : FrameStream(SubSeq(m, 1, k), <<>>) = f[k]
    /\ \A tail \in Seq(Nat) : FrameStream(m, tail) = f[n] \o tail

LEMMA LayingOut ==
    ASSUME NEW m \in Seq(Post), NEW n, n = Len(m)
    PROVE  \E f \in [0..n -> Seq(Nat)] : LaysOut(m, n, f)
<1> DEFINE e(x) == [i \in DOMAIN x |-> EncodeFrame(x[i].bytes)]
           es   == [i \in 1..n |-> EncodeFrame(m[i].bytes)]
<1>1. n \in Nat /\ DOMAIN m = 1..n /\ \A i \in 1..n : m[i].bytes \in Seq(Nat)
  <2>1. n \in Nat /\ DOMAIN m = 1..n /\ \A i \in 1..n : m[i] \in Post
    BY LenProperties, ElementOfSeq, Zenon
  <2> QED BY <2>1 DEF Post
<1>2. es \in Seq(Seq(Nat)) /\ Len(es) = n /\ \A i \in 1..n : es[i] = EncodeFrame(m[i].bytes)
  <2>1. \A i \in 1..n : EncodeFrame(m[i].bytes) \in Seq(Nat)
    BY <1>1, EncodeFrameType
  <2> QED BY <2>1
<1>3. e(m) = es
  BY <1>1
<1> HIDE DEF es
<1>4. PICK f \in [0..n -> Seq(Nat)] : Joins(es, f)
  BY <1>2, Joining
<1>5. ASSUME NEW k \in 0..n PROVE FrameStream(SubSeq(m, 1, k), <<>>) = f[k]
  <2> DEFINE s == SubSeq(m, 1, k)
             g == [i \in 0..k |-> f[i]]
  <2>1. DOMAIN s = 1..k /\ \A i \in 1..k : s[i] = m[i]
    BY <1>1
  <2> HIDE DEF s
  <2>2. e(s) \in Seq(Seq(Nat)) /\ Len(e(s)) = k /\ \A i \in 1..k : e(s)[i] = es[i]
    <3>1. \A i \in 1..k : e(s)[i] = es[i] /\ es[i] \in Seq(Nat)
      BY <1>2, <2>1
    <3>2. e(s) = [i \in 1..k |-> es[i]]
      BY <1>2, <2>1
    <3> HIDE DEF e
    <3> QED BY <3>1, <3>2
  <2> HIDE DEF e
  <2>3. g \in [0..k -> Seq(Nat)] /\ \A i \in 0..k : g[i] = f[i]
    BY <1>2
  <2> HIDE DEF g
  <2>4. Joins(e(s), g)
    <3>1. \A i \in 1..k : i \in 1..n /\ i \in 0..k /\ i - 1 \in 0..k
      OBVIOUS
    <3>2. ASSUME NEW i \in 1..k PROVE g[i] = g[i - 1] \o e(s)[i]
      <4>1. f[i] = f[i - 1] \o es[i]
        BY <1>2, <1>4, <3>1 DEF Joins
      <4>2. g[i] = f[i] /\ g[i - 1] = f[i - 1] /\ e(s)[i] = es[i]
        BY <2>2, <2>3, <3>1
      <4> QED BY <4>1, <4>2, Zenon
    <3>3. g[0] = <<>>
      BY <1>4, <2>3 DEF Joins
    <3> QED BY <2>2, <3>2, <3>3, Zenon DEF Joins
  <2>5. FlattenSeq(e(s)) = g[k]
    BY <2>2, <2>3, <2>4, JoinedIs
  <2>6. f[k] \o <<>> = f[k]
    <3>1. f[k] \in Seq(Nat)
      OBVIOUS
    <3> QED BY <3>1
  <2>7. FrameStream(s, <<>>) = FlattenSeq(e(s)) \o <<>>
    BY Zenon DEF FrameStream, e
  <2>8. g[k] = f[k]
    BY <2>3
  <2> QED BY <2>5, <2>6, <2>7, <2>8, Zenon DEF s
<1>6. ASSUME NEW tail \in Seq(Nat) PROVE FrameStream(m, tail) = f[n] \o tail
  <2>1. FlattenSeq(es) = f[n]
    BY <1>2, <1>4, JoinedIs
  <2>2. FrameStream(m, tail) = FlattenSeq(e(m)) \o tail
    BY Zenon DEF FrameStream
  <2> QED BY <1>3, <2>1, <2>2, Zenon
<1>7. \A k \in 1..n : f[k] = f[k - 1] \o EncodeFrame(m[k].bytes)
  BY <1>2, <1>4 DEF Joins
<1>8. LaysOut(m, n, f)
  <2>1. f[0] = <<>>
    BY <1>4 DEF Joins
  <2> HIDE DEF e
  <2> QED BY <1>5, <1>6, <1>7, <2>1 DEF LaysOut
<1> QED BY <1>8

\* Where the frame of the k-th message ends.
Mark(m, k) == Len(FrameStream(SubSeq(m, 1, k), <<>>))

LEMMA Marks ==
    ASSUME NEW m \in Seq(Post), NEW n, n = Len(m)
    PROVE  /\ n \in Nat /\ Mark(m, 0) = 0
           /\ \A k \in 0..n : Mark(m, k) \in Nat
           /\ \A k \in 1..n : m[k].bytes \in Seq(Nat)
                              /\ Mark(m, k) = Mark(m, k - 1) + 2 + Len(m[k].bytes)
           /\ \A k \in 0..n, i \in 0..n : i <= k => Mark(m, i) <= Mark(m, k)
           /\ Len(FrameStream(m, <<>>)) = Mark(m, n)
<1>1. PICK f \in [0..n -> Seq(Nat)] : LaysOut(m, n, f)
  BY LayingOut
<1>2. n \in Nat /\ \A k \in 1..n : m[k] \in Post /\ m[k].bytes \in Seq(Nat)
  <2>1. n \in Nat /\ \A k \in 1..n : m[k] \in Post
    BY LenProperties, ElementOfSeq
  <2> QED BY <2>1 DEF Post
<1>3. \A k \in 0..n : Mark(m, k) = Len(f[k]) /\ Mark(m, k) \in Nat
  BY <1>1 DEF LaysOut, Mark
<1>4. ASSUME NEW k \in 1..n PROVE Mark(m, k) = Mark(m, k - 1) + 2 + Len(m[k].bytes)
  <2>1. f[k] = f[k - 1] \o EncodeFrame(m[k].bytes)
    BY <1>1 DEF LaysOut
  <2>2. /\ EncodeFrame(m[k].bytes) \in Seq(Nat) /\ m[k].bytes \in Seq(Nat)
        /\ Len(EncodeFrame(m[k].bytes)) = 2 + Len(m[k].bytes)
    BY <1>2, EncodeFrameType
  <2>3. k \in 0..n /\ k - 1 \in 0..n /\ f[k - 1] \in Seq(Nat)
    BY <1>2
  <2>4. Adjoins(f[k - 1], EncodeFrame(m[k].bytes), f[k])
    BY <2>1, <2>2, <2>3, Adjoining, Zenon
  <2>5. Len(f[k]) = Len(f[k - 1]) + Len(EncodeFrame(m[k].bytes)) /\ Len(f[k - 1]) \in Nat
    BY <2>4, Zenon DEF Adjoins
  <2>6. Len(m[k].bytes) \in Nat
    BY <2>2
  <2>7. Mark(m, k) = Len(f[k]) /\ Mark(m, k - 1) = Len(f[k - 1])
    BY <1>3, <2>3
  <2>8. Len(EncodeFrame(m[k].bytes)) = 2 + Len(m[k].bytes)
    BY <2>2
  <2> DEFINE a == Len(f[k - 1])
             b == Len(m[k].bytes)
             c == Len(EncodeFrame(m[k].bytes))
  <2>9. a \in Nat /\ b \in Nat /\ c = 2 + b /\ Mark(m, k) = a + c /\ Mark(m, k - 1) = a
    BY <2>5, <2>6, <2>7, <2>8, Zenon
  <2>10. Mark(m, k) = Mark(m, k - 1) + 2 + b
    <3> HIDE DEF a, b, c
    <3> QED BY <2>9
  <2> QED BY <2>10
<1>5. ASSUME NEW k \in 0..n, NEW i \in 0..n, i <= k PROVE Mark(m, i) <= Mark(m, k)
  <2> DEFINE K == {j \in 0..n : Mark(m, i) <= Mark(m, j)}
  <2>1. i \in K
    BY <1>2, <1>3
  <2>2. ASSUME NEW j \in i..k - 1, j \in K PROVE j + 1 \in K
    <3>1. j + 1 \in 1..n /\ j \in 0..n /\ j + 1 \in 0..n /\ (j + 1) - 1 = j
      BY <1>2
    <3>2. Mark(m, j + 1) = Mark(m, j) + 2 + Len(m[j + 1].bytes) /\ Len(m[j + 1].bytes) \in Nat
      BY <1>2, <1>4, <3>1
    <3>3. Mark(m, i) \in Nat /\ Mark(m, j) \in Nat
      BY <1>3, <3>1
    <3> QED BY <2>2, <3>1, <3>2, <3>3
  <2>3. k \in Nat /\ i \in 0..k
    BY <1>2, <1>5
  <2>4. k \in K
    <3> HIDE DEF K
    <3> QED BY <2>1, <2>2, <2>3, Climb
  <2> QED BY <2>4
<1>6. Mark(m, 0) = 0 /\ Len(FrameStream(m, <<>>)) = Mark(m, n)
  <2>1. 0 \in 0..n /\ n \in 0..n
    BY <1>2
  <2>2. f[n] \in Seq(Nat) /\ f[0] = <<>> /\ <<>> \in Seq(Nat) /\ Len(<<>>) = 0
    BY <1>1, <2>1 DEF LaysOut
  <2>3. f[n] \o <<>> = f[n]
    BY <2>2
  <2>4. FrameStream(m, <<>>) = f[n] \o <<>>
    BY <1>1, <2>2 DEF LaysOut
  <2> QED BY <1>3, <2>1, <2>2, <2>3, <2>4, Zenon
<1> QED BY <1>2, <1>3, <1>4, <1>5, <1>6

LEMMA Layout ==
    ASSUME NEW m \in Seq(Post), NEW n, n = Len(m), NEW tail \in Seq(Nat),
           NEW x, x = FrameStream(m, tail)
    PROVE  /\ x \in Seq(Nat) /\ Len(x) = Mark(m, n) + Len(tail)
           /\ \A j \in 1..Len(tail) : x[Mark(m, n) + j] = tail[j]
           /\ \A k \in 1..n : \A j \in 1..2 + Len(m[k].bytes) :
                 x[Mark(m, k - 1) + j] = EncodeFrame(m[k].bytes)[j]
<1>1. PICK f \in [0..n -> Seq(Nat)] : LaysOut(m, n, f)
  BY LayingOut
<1>2. /\ n \in Nat /\ \A k \in 0..n : Mark(m, k) = Len(f[k]) /\ Mark(m, k) \in Nat /\ f[k] \in Seq(Nat)
      /\ \A k \in 1..n : m[k].bytes \in Seq(Nat)
      /\ \A k \in 1..n : Mark(m, k) = Mark(m, k - 1) + 2 + Len(m[k].bytes)
  BY <1>1, Marks DEF LaysOut, Mark
<1>3. x = f[n] \o tail /\ f[n] \in Seq(Nat) /\ Len(f[n]) = Mark(m, n)
  <2>1. n \in 0..n
    BY <1>2
  <2>2. FrameStream(m, tail) = f[n] \o tail
    BY <1>1 DEF LaysOut
  <2> QED BY <1>2, <2>1, <2>2
<1>4. /\ x \in Seq(Nat) /\ Len(x) = Len(f[n]) + Len(tail)
      /\ \A i \in 1..Len(f[n]) : x[i] = f[n][i]
      /\ \A i \in 1..Len(tail) : x[Len(f[n]) + i] = tail[i]
  <2>1. Adjoins(f[n], tail, x)
    BY <1>3, Adjoining, Zenon
  <2> QED BY <2>1, Zenon DEF Adjoins
<1>5. ASSUME NEW k \in 1..n, NEW j \in 1..2 + Len(m[k].bytes)
      PROVE  x[Mark(m, k - 1) + j] = EncodeFrame(m[k].bytes)[j]
  <2> DEFINE p == Mark(m, k - 1) + j
             K == {i \in 0..n : p <= Len(f[i]) /\ f[i][p] = EncodeFrame(m[k].bytes)[j]}
  <2>1. /\ k \in 0..n /\ k - 1 \in 0..n /\ m[k].bytes \in Seq(Nat) /\ f[k - 1] \in Seq(Nat)
        /\ Mark(m, k - 1) = Len(f[k - 1]) /\ Mark(m, k - 1) \in Nat /\ Len(m[k].bytes) \in Nat
        /\ Mark(m, k) = Len(f[k]) /\ Len(f[k]) = Len(f[k - 1]) + 2 + Len(m[k].bytes)
    <3>1. k \in 0..n /\ k - 1 \in 0..n /\ m[k].bytes \in Seq(Nat)
      BY <1>2
    <3>2. Len(m[k].bytes) \in Nat
      BY <3>1
    <3> QED BY <1>2, <3>1, <3>2
  <2>2. k \in K
    <3>1. f[k] = f[k - 1] \o EncodeFrame(m[k].bytes)
      BY <1>1 DEF LaysOut
    <3>2. EncodeFrame(m[k].bytes) \in Seq(Nat) /\ Len(EncodeFrame(m[k].bytes)) = 2 + Len(m[k].bytes)
      BY <2>1, EncodeFrameType
    <3>3. Adjoins(f[k - 1], EncodeFrame(m[k].bytes), f[k])
      BY <2>1, <3>1, <3>2, Adjoining, Zenon
    <3>4. \A i \in 1..Len(EncodeFrame(m[k].bytes)) : f[k][Len(f[k - 1]) + i] = EncodeFrame(m[k].bytes)[i]
      BY <3>3, Zenon DEF Adjoins
    <3>5. j \in 1..Len(EncodeFrame(m[k].bytes))
      BY <2>1, <3>2
    <3>6. p = Len(f[k - 1]) + j /\ Len(f[k - 1]) \in Nat
      BY <2>1
    <3>7. p <= Len(f[k])
      <4> DEFINE a == Len(f[k - 1])
                 b == Len(m[k].bytes)
      <4>1. a \in Nat /\ b \in Nat /\ j \in 1..2 + b /\ p = a + j /\ Len(f[k]) = a + 2 + b
        BY <2>1, <3>6
      <4> HIDE DEF a, b, p
      <4> QED BY <4>1
    <3> QED BY <2>1, <3>4, <3>5, <3>6, <3>7
  <2>3. p \in Nat /\ p >= 1
    BY <2>1
  <2> HIDE DEF p
  <2>4. ASSUME NEW i \in k..n - 1, i \in K PROVE i + 1 \in K
    <3>1. i \in 0..n /\ i + 1 \in 0..n /\ i + 1 \in 1..n /\ (i + 1) - 1 = i
      BY <1>2
    <3>2. f[i + 1] = f[i] \o EncodeFrame(m[i + 1].bytes)
      BY <1>1, <3>1 DEF LaysOut
    <3>3. EncodeFrame(m[i + 1].bytes) \in Seq(Nat) /\ f[i] \in Seq(Nat)
      BY <1>2, <3>1, EncodeFrameType
    <3>4. /\ Len(f[i + 1]) = Len(f[i]) + Len(EncodeFrame(m[i + 1].bytes))
          /\ \A q \in 1..Len(f[i]) : f[i + 1][q] = f[i][q]
      <4>1. Adjoins(f[i], EncodeFrame(m[i + 1].bytes), f[i + 1])
        BY <3>2, <3>3, Adjoining, Zenon
      <4> QED BY <4>1, Zenon DEF Adjoins
    <3>5. Len(f[i]) \in Nat /\ Len(EncodeFrame(m[i + 1].bytes)) \in Nat
      BY <3>3
    <3> QED BY <2>3, <2>4, <3>1, <3>4, <3>5
  <2>5. n \in K
    <3>1. k \in 0..n
      BY <2>1
    <3> HIDE DEF K
    <3> QED BY <1>2, <2>2, <2>4, <3>1, Climb
  <2>6. p \in 1..Len(f[n])
    <3>1. Len(f[n]) \in Nat
      BY <1>3
    <3> QED BY <2>3, <2>5, <3>1
  <2> QED BY <1>4, <2>5, <2>6 DEF p
<1>6. ASSUME NEW j \in 1..Len(tail) PROVE x[Mark(m, n) + j] = tail[j]
  BY <1>3, <1>4
<1> QED BY <1>3, <1>4, <1>5, <1>6

\* b is what of x lies between q and p.
Piece(x, q, p, b) ==
    b \in Seq(Nat) /\ Len(b) = p - q /\ \A j \in 1..p - q : b[j] = x[q + j]

LEMMA Cutting ==
    ASSUME NEW x \in Seq(Nat), NEW q \in Nat, NEW p \in Nat, q <= p, p <= Len(x)
    PROVE  Piece(x, q, p, SubSeq(x, q + 1, p))
<1>1. Len(x) \in Nat /\ \A i \in q + 1..p : x[i] \in Nat
  OBVIOUS
<1> DEFINE b == SubSeq(x, q + 1, p)
<1>2. /\ b \in Seq(Nat) /\ Len(b) = IF q + 1 <= p THEN p - (q + 1) + 1 ELSE 0
      /\ \A i \in 1..p - (q + 1) + 1 : b[i] = x[(q + 1) + i - 1]
  BY <1>1, SubSeqProperties
<1> HIDE DEF b
<1>3. Len(b) = p - q /\ p - (q + 1) + 1 = p - q
  BY <1>2
<1>4. \A i \in 1..p - q : (q + 1) + i - 1 = q + i
  OBVIOUS
<1>5. Piece(x, q, p, b)
  BY <1>2, <1>3, <1>4 DEF Piece
<1> QED BY <1>5 DEF b

\* A piece of a piece is one of the whole.
LEMMA CuttingAgain ==
    ASSUME NEW x \in Seq(Nat), NEW q \in Nat, NEW p \in Nat, q <= p, p <= Len(x),
           NEW i \in Nat, NEW j \in Nat, i <= j, q + j <= p
    PROVE  SubSeq(SubSeq(x, q + 1, p), i + 1, j) = SubSeq(x, (q + i) + 1, q + j)
<1> DEFINE b == SubSeq(x, q + 1, p)
           c == SubSeq(b, i + 1, j)
           d == SubSeq(x, (q + i) + 1, q + j)
<1>1. Piece(x, q, p, b)
  BY Cutting
<1> HIDE DEF b
<1>2. b \in Seq(Nat) /\ j <= Len(b) /\ Len(x) \in Nat
  BY <1>1 DEF Piece
<1>3. Piece(b, i, j, c)
  BY <1>2, Cutting
<1>4. Piece(x, q + i, q + j, d)
  <2>1. q + i \in Nat /\ q + j \in Nat /\ q + i <= q + j /\ q + j <= Len(x)
    BY <1>2
  <2> QED BY <2>1, Cutting
<1> HIDE DEF c, d
<1>5. c \in Seq(Nat) /\ d \in Seq(Nat) /\ Len(c) = j - i /\ Len(d) = j - i
  BY <1>3, <1>4 DEF Piece
<1>6. ASSUME NEW k \in 1..j - i PROVE c[k] = d[k]
  <2>1. i + k \in 1..p - q /\ k \in 1..(q + j) - (q + i) /\ q + (i + k) = (q + i) + k
    OBVIOUS
  <2> QED BY <1>1, <1>3, <1>4, <2>1 DEF Piece
<1>7. c = d
  BY <1>5, <1>6, SeqEqual
<1> QED BY <1>7 DEF b, c, d

\* What is read behind a piece goes on with it.
LEMMA CuttingOn ==
    ASSUME NEW x \in Seq(Nat), NEW q \in Nat, NEW p \in Nat, NEW r \in Nat,
           q <= p, p <= r, r <= Len(x)
    PROVE  SubSeq(x, q + 1, p) \o SubSeq(x, p + 1, r) = SubSeq(x, q + 1, r)
<1>1. q + 1 \in 1..Len(x) + 1 /\ p \in (q + 1) - 1..Len(x) /\ r \in p..Len(x)
  OBVIOUS
<1> QED BY <1>1, ConcatAdjacentSubSeq

-----------------------------------------------------------------------------
(* The frames that push_bytes takes.                                       *)

Accumulators == [buf : Seq(Nat), frames : Seq(Seq(Nat)), failed : BOOLEAN]

\* Every message fits a frame.
Fits(m) == \A k \in 1..Len(m) : Len(m[k].bytes) <= MaxFrame

\* The first k frames have been handed out, the bytes up to p that follow
\* are kept.
Kept(m, x, p, k, a) ==
    /\ k \in 0..Len(m) /\ Mark(m, k) <= p
    /\ a = [buf |-> SubSeq(x, Mark(m, k) + 1, p), frames |-> [i \in 1..k |-> m[i].bytes],
            failed |-> FALSE]

\* The frame of y begins at q.
FrameAt(x, q, y) ==
    /\ \A j \in 1..2 + Len(y) : x[q + j] = EncodeFrame(y)[j]
    /\ y \in Seq(Nat) /\ Len(y) <= MaxFrame

LEMMA FrameHeader ==
    ASSUME NEW x, NEW q \in Nat, NEW y, FrameAt(x, q, y), NEW p \in Nat, NEW b, Piece(x, q, p, b),
           q + 2 <= p
    PROVE  FrameLen(b) = Len(y) /\ Len(b) = p - q /\ Len(y) \in 0..MaxFrame
<1> DEFINE c == Len(y)
<1>1. y \in Seq(Nat) /\ c \in Nat /\ c <= MaxFrame /\ MaxFrame \in Nat
  BY CastWireAssumption DEF FrameAt
<1>2. \A j \in 1..2 + c : x[q + j] = EncodeFrame(y)[j]
  BY DEF FrameAt
<1>3. EncodeFrame(y)[1] = c \div 16 /\ EncodeFrame(y)[2] = c % 16
  BY <1>1, EncodeFrameType
<1> HIDE DEF c
<1>4. Len(b) = p - q /\ \A j \in 1..p - q : b[j] = x[q + j]
  BY DEF Piece
<1>5. 1 \in 1..p - q /\ 2 \in 1..p - q /\ 1 \in 1..2 + c /\ 2 \in 1..2 + c
  BY <1>1
<1>6. b[1] = c \div 16 /\ b[2] = c % 16
  BY <1>2, <1>3, <1>4, <1>5
<1>7. (c \div 16) * 16 + (c % 16) = c
  BY <1>1
<1>8. FrameLen(b) = c
  BY <1>6, <1>7 DEF FrameLen
<1> QED BY <1>1, <1>4, <1>8 DEF c

\* b starts with the frame of y.
Starts(b, y) == ReadFrame(b) = "Frame" /\ FrameLen(b) = Len(y) /\ SubSeq(b, 3, Len(y) + 2) = y

\* A frame of which all bytes are there is found, ...
LEMMA WholeFrame ==
    ASSUME NEW x, NEW q \in Nat, NEW y, FrameAt(x, q, y), NEW p \in Nat, NEW b, Piece(x, q, p, b),
           q + 2 + Len(y) <= p
    PROVE  Starts(b, y)
<1> DEFINE c == Len(y)
<1>1. y \in Seq(Nat) /\ c \in Nat /\ MaxFrame \in Nat
  BY CastWireAssumption DEF FrameAt
<1> HIDE DEF c
<1>0. q + 2 + c <= p
  BY DEF c
<1>2. FrameLen(b) = c /\ Len(b) = p - q /\ c <= MaxFrame
  <2>1. q + 2 <= p
    BY <1>0, <1>1
  <2> QED BY <1>1, <2>1, FrameHeader DEF c
<1>3. ReadFrame(b) = "Frame"
  <2>1. ~(p - q < 2) /\ ~(c > MaxFrame) /\ ~(p - q < 2 + c)
    BY <1>0, <1>1, <1>2
  <2> QED BY <1>2, <2>1 DEF ReadFrame
<1>4. SubSeq(b, 3, c + 2) = y
  <2> DEFINE d == SubSeq(b, 2 + 1, 2 + c)
  <2>1. Piece(b, 2, 2 + c, d)
    <3>1. b \in Seq(Nat) /\ 2 + c \in Nat /\ 2 <= 2 + c /\ 2 + c <= Len(b)
      BY <1>0, <1>1, <1>2 DEF Piece
    <3> QED BY <3>1, Cutting
  <2>2. d = SubSeq(b, 3, c + 2)
    <3>1. 2 + 1 = 3 /\ 2 + c = c + 2
      BY <1>1
    <3> QED BY <3>1
  <2> HIDE DEF d
  <2>3. (2 + c) - 2 = c
    BY <1>1
  <2>4. d \in Seq(Nat) /\ Len(d) = c /\ \A j \in 1..c : d[j] = b[2 + j]
    BY <2>1, <2>3, Zenon DEF Piece
  <2>5. ASSUME NEW j \in 1..c PROVE d[j] = y[j]
    <3>1. 2 + j \in 1..p - q /\ 2 + j \in 1..2 + c
      BY <1>0, <1>1
    <3>2. b[2 + j] = x[q + (2 + j)] /\ x[q + (2 + j)] = EncodeFrame(y)[2 + j]
      BY <3>1 DEF Piece, FrameAt, c
    <3>3. EncodeFrame(y)[2 + j] = y[j]
      BY <1>1, EncodeFrameType DEF c
    <3> QED BY <2>4, <3>2, <3>3
  <2>6. d = y
    BY <1>1, <2>4, <2>5, SeqEqual DEF c
  <2> QED BY <2>2, <2>6
<1> QED BY <1>2, <1>3, <1>4 DEF c, Starts

\* ... one of which some are missing is waited for, ...
LEMMA PartialFrame ==
    ASSUME NEW x, NEW q \in Nat, NEW y, FrameAt(x, q, y), NEW p \in Nat, NEW b, Piece(x, q, p, b),
           q <= p, p < q + 2 + Len(y)
    PROVE  ReadFrame(b) = "Partial"
<1>1. Len(b) = p - q /\ Len(y) \in Nat
  BY DEF Piece, FrameAt
<1>2. CASE p < q + 2
  <2>1. Len(b) < 2
    BY <1>1, <1>2
  <2> QED BY <2>1 DEF ReadFrame
<1>3. CASE q + 2 <= p
  <2>1. FrameLen(b) = Len(y) /\ Len(y) <= MaxFrame /\ MaxFrame \in Nat
    BY <1>3, FrameHeader, CastWireAssumption
  <2> DEFINE c == Len(y)
             n == Len(b)
  <2>2. c \in Nat /\ n = p - q /\ p < q + 2 + c /\ c <= MaxFrame
    BY <1>1, <2>1
  <2> HIDE DEF c, n
  <2>3. ~(n < 2) /\ ~(c > MaxFrame) /\ n < 2 + c
    BY <1>3, <2>1, <2>2
  <2> QED BY <2>1, <2>3 DEF ReadFrame, c, n
<1> QED BY <1>2, <1>3

\* ... and there is none in what follows the last one.
LEMMA NoFrame ==
    ASSUME NEW tail \in FrameTails, NEW p \in Nat, p <= Len(tail),
           NEW b, Piece(tail, 0, p, b)
    PROVE  ReadFrame(b) # "Frame" /\ (ReadFrame(b) = "TooLarge" => p > 0)
<1>1. b \in Seq(Nat) /\ Len(b) = p /\ \A j \in 1..p : b[j] = tail[j]
  BY DEF Piece
<1>2. CASE p < 2
  BY <1>1, <1>2 DEF ReadFrame
<1>3. CASE p >= 2
  <2>1. b[1] = tail[1] /\ b[2] = tail[2]
    BY <1>1, <1>3
  <2>2. CASE tail = <<0, 2, 1>>
    <3>1. FrameLen(b) = 2 /\ Len(b) <= 3
      BY <1>1, <2>1, <2>2 DEF FrameLen
    <3> QED BY <1>1, <1>3, <3>1 DEF ReadFrame
  <2>3. CASE tail = <<15, 15, 0, 1, 1>>
    <3>1. FrameLen(b) = 255
      BY <2>1, <2>3 DEF FrameLen
    <3> QED BY <1>1, <1>3, <3>1, CastWireAssumption DEF ReadFrame
  <2>4. tail = <<>> \/ tail = <<0>> => Len(tail) < 2
    OBVIOUS
  <2> QED BY <1>3, <2>2, <2>3, <2>4 DEF FrameTails
<1> QED BY <1>2, <1>3

\* The stream x has the frames of m and then tail.
Framed(m, n, tail, x) ==
    /\ x \in Seq(Nat) /\ n \in Nat /\ n = Len(m) /\ m \in Seq(Post) /\ Mark(m, 0) = 0
    /\ \A k \in 0..n : Mark(m, k) \in Nat /\ Mark(m, k) <= Len(x)
    /\ \A k \in 1..n : /\ FrameAt(x, Mark(m, k - 1), m[k].bytes)
                       /\ m[k].bytes \in Seq(Nat)
                       /\ Mark(m, k) = Mark(m, k - 1) + 2 + Len(m[k].bytes)
    /\ tail \in FrameTails /\ Len(tail) \in Nat /\ Len(x) = Mark(m, n) + Len(tail)
    /\ \A j \in 1..Len(tail) : x[Mark(m, n) + j] = tail[j]

LEMMA Framing ==
    ASSUME NEW m \in Seq(Post), Fits(m), NEW tail \in FrameTails, NEW x, x = FrameStream(m, tail)
    PROVE  Framed(m, Len(m), tail, x)
<1> DEFINE n == Len(m)
<1>1. tail \in Seq(Nat)
  <2>1. <<>> \in Seq(Nat) /\ <<0>> \in Seq(Nat) /\ <<0, 2, 1>> \in Seq(Nat)
        /\ <<15, 15, 0, 1, 1>> \in Seq(Nat)
    OBVIOUS
  <2> QED BY <2>1, Zenon DEF FrameTails
<1>2. /\ n \in Nat /\ Mark(m, 0) = 0
      /\ \A k \in 0..n : Mark(m, k) \in Nat
      /\ \A k \in 1..n : m[k].bytes \in Seq(Nat) /\ Mark(m, k) = Mark(m, k - 1) + 2 + Len(m[k].bytes)
      /\ \A k \in 0..n, i \in 0..n : i <= k => Mark(m, i) <= Mark(m, k)
  BY Marks, Zenon
<1>3. /\ x \in Seq(Nat) /\ Len(x) = Mark(m, n) + Len(tail)
      /\ \A j \in 1..Len(tail) : x[Mark(m, n) + j] = tail[j]
      /\ \A k \in 1..n : \A j \in 1..2 + Len(m[k].bytes) :
            x[Mark(m, k - 1) + j] = EncodeFrame(m[k].bytes)[j]
  BY <1>1, Layout
<1>4. \A k \in 1..n : Len(m[k].bytes) <= MaxFrame
  BY DEF Fits
<1>5. ASSUME NEW k \in 1..n PROVE FrameAt(x, Mark(m, k - 1), m[k].bytes)
  BY <1>2, <1>3, <1>4, Zenon DEF FrameAt
<1>6. Len(tail) \in Nat
  BY <1>1
<1> HIDE DEF n
<1>7. \A k \in 0..n : Mark(m, k) <= Len(x)
  <2> SUFFICES ASSUME NEW k \in 0..n PROVE Mark(m, k) <= Len(x)
    OBVIOUS
  <2>1. n \in 0..n /\ k <= n
    BY <1>2
  <2>2. Mark(m, k) <= Mark(m, n) /\ Mark(m, k) \in Nat /\ Mark(m, n) \in Nat
    BY <1>2, <2>1
  <2> QED BY <1>3, <1>6, <2>2
<1> QED BY <1>2, <1>3, <1>5, <1>6, <1>7, Zenon DEF Framed, n

\* Nothing is left that can be taken.
Done(m, p, k) == k = Len(m) \/ p < Mark(m, k + 1)

LEMMA KeptPiece ==
    ASSUME NEW m, NEW n, NEW tail, NEW x, Framed(m, n, tail, x), NEW p \in 0..Len(x),
           NEW k, NEW a, Kept(m, x, p, k, a)
    PROVE  /\ k \in 0..n /\ Mark(m, k) \in Nat /\ Mark(m, k) <= p
           /\ Piece(x, Mark(m, k), p, a.buf) /\ a \in Accumulators
           /\ a.buf = SubSeq(x, Mark(m, k) + 1, p) /\ a.frames = [i \in 1..k |-> m[i].bytes]
           /\ a.failed = FALSE
<1>1. /\ k \in 0..n /\ Mark(m, k) <= p /\ a.buf = SubSeq(x, Mark(m, k) + 1, p)
      /\ a.frames = [i \in 1..k |-> m[i].bytes] /\ a.failed = FALSE
      /\ a = [buf |-> a.buf, frames |-> a.frames, failed |-> a.failed]
  BY DEF Kept, Framed
<1>2. Mark(m, k) \in Nat /\ x \in Seq(Nat) /\ Len(x) \in Nat
  BY <1>1 DEF Framed
<1>3. p \in Nat /\ p <= Len(x)
  BY <1>2
<1>4. Piece(x, Mark(m, k), p, a.buf)
  BY <1>1, <1>2, <1>3, Cutting, Zenon
<1>5. a.buf \in Seq(Nat)
  BY <1>4 DEF Piece
<1>6. a.frames \in Seq(Seq(Nat))
  <2>1. k \in Nat /\ n \in Nat /\ \A i \in 1..k : i \in 1..n
    BY <1>1 DEF Framed
  <2>2. \A i \in 1..k : m[i].bytes \in Seq(Nat)
    BY <2>1 DEF Framed
  <2>3. [i \in 1..k |-> m[i].bytes] \in Seq(Seq(Nat))
    BY <2>1, <2>2
  <2> QED BY <1>1, <2>3
<1>7. a \in Accumulators
  BY <1>1, <1>5, <1>6 DEF Accumulators
<1> QED BY <1>1, <1>2, <1>4, <1>7

LEMMA TakeWhole ==
    ASSUME NEW m, NEW n, NEW tail, NEW x, Framed(m, n, tail, x), NEW p \in 0..Len(x),
           NEW k, NEW a, Kept(m, x, p, k, a), ~Done(m, p, k)
    PROVE  /\ Kept(m, x, p, k + 1, TakeFrame(a))
           /\ Mark(m, k) + 1 <= Mark(m, k + 1)
<1> DEFINE q == Mark(m, k)
           y == m[k + 1].bytes
           c == Len(y)
           b == a.buf
<1>1. /\ k \in 0..n /\ q \in Nat /\ q <= p /\ Piece(x, q, p, b) /\ a \in Accumulators
      /\ b = SubSeq(x, q + 1, p) /\ a.failed = FALSE
  <2>1. k \in 0..n /\ q \in Nat /\ q <= p /\ Piece(x, q, p, b)
    BY KeptPiece, Zenon
  <2>2. a \in Accumulators
    BY KeptPiece, Zenon
  <2>3. b = SubSeq(x, q + 1, p) /\ a.failed = FALSE
    BY DEF Kept
  <2> QED BY <2>1, <2>2, <2>3, Zenon
<1>a. a.frames = [i \in 1..k |-> m[i].bytes]
  BY DEF Kept
<1>2. n \in Nat /\ n = Len(m) /\ x \in Seq(Nat)
  BY DEF Framed
<1>3. k # n /\ ~(p < Mark(m, k + 1))
  BY <1>2 DEF Done
<1>4. k + 1 \in 1..n /\ k + 1 \in 0..n /\ (k + 1) - 1 = k
  BY <1>1, <1>2, <1>3
<1>5. FrameAt(x, q, y) /\ Mark(m, k + 1) = q + 2 + c /\ y \in Seq(Nat) /\ Mark(m, k + 1) \in Nat
  <2>1. /\ FrameAt(x, Mark(m, (k + 1) - 1), y) /\ y \in Seq(Nat) /\ Mark(m, k + 1) \in Nat
        /\ Mark(m, k + 1) = Mark(m, (k + 1) - 1) + 2 + c
    BY <1>4 DEF Framed
  <2> QED BY <1>4, <2>1
<1>6. c \in Nat /\ Len(x) \in Nat
  BY <1>2, <1>5
<1>7. p \in Nat /\ p <= Len(x) /\ q + 2 + c <= p
  BY <1>1, <1>3, <1>5, <1>6
<1>8. ReadFrame(b) = "Frame" /\ FrameLen(b) = c /\ SubSeq(b, 3, c + 2) = y
  <2>1. Starts(b, y)
    BY <1>1, <1>5, <1>7, WholeFrame, Zenon
  <2> QED BY <2>1, Zenon DEF Starts
<1>9. From(b, c + 3) = SubSeq(x, Mark(m, k + 1) + 1, p)
  <2> HIDE DEF q, c, b, y
  <2>1. c + 2 \in Nat /\ p - q \in Nat /\ c + 2 <= p - q /\ q + (p - q) <= p /\ q + (p - q) = p
    BY <1>1, <1>6, <1>7
  <2>2. SubSeq(SubSeq(x, q + 1, p), (c + 2) + 1, p - q) = SubSeq(x, (q + (c + 2)) + 1, q + (p - q))
    <3>1. x \in Seq(Nat) /\ q \in Nat /\ p \in Nat /\ q <= p /\ p <= Len(x)
      BY <1>1, <1>2, <1>7, Zenon
    <3> DEFINE i == c + 2
               j == p - q
    <3>2. i \in Nat /\ j \in Nat /\ i <= j /\ q + j <= p
      BY <2>1
    <3> HIDE DEF i, j
    <3>3. SubSeq(SubSeq(x, q + 1, p), i + 1, j) = SubSeq(x, (q + i) + 1, q + j)
      BY <3>1, <3>2, CuttingAgain
    <3> QED BY <3>3, Zenon DEF i, j
  <2>3. (c + 2) + 1 = c + 3 /\ (q + (c + 2)) + 1 = Mark(m, k + 1) + 1
    BY <1>1, <1>5, <1>6
  <2>4. Len(b) = p - q
    BY <1>1 DEF Piece
  <2> QED BY <1>1, <2>1, <2>2, <2>3, <2>4, Zenon DEF From
<1>10. Append(a.frames, y) = [i \in 1..k + 1 |-> m[i].bytes]
  <2> DEFINE s == [i \in 1..k |-> m[i].bytes]
             t == [i \in 1..k + 1 |-> m[i].bytes]
  <2>1. k \in Nat /\ \A i \in 1..k + 1 : i \in 1..n
    BY <1>1, <1>2, <1>4
  <2>2. \A i \in 1..k + 1 : m[i].bytes \in Seq(Nat)
    BY <2>1 DEF Framed
  <2>3. s \in Seq(Seq(Nat)) /\ Len(s) = k /\ t \in Seq(Seq(Nat)) /\ Len(t) = k + 1
    BY <2>1, <2>2
  <2>4. \A i \in 1..k : s[i] = t[i]
    BY <2>1
  <2>5. t[k + 1] = y
    BY <2>1
  <2> HIDE DEF s, t, y
  <2>6. /\ Append(s, y) \in Seq(Seq(Nat)) /\ Len(Append(s, y)) = k + 1
        /\ \A i \in 1..k : Append(s, y)[i] = s[i] /\ Append(s, y)[k + 1] = y
    BY <1>5, <2>1, <2>3
  <2>7. \A i \in 1..k + 1 : Append(s, y)[i] = t[i]
    <3> SUFFICES ASSUME NEW i \in 1..k + 1 PROVE Append(s, y)[i] = t[i]
      OBVIOUS
    <3>1. CASE i = k + 1
      <4>1. Append(s, y)[k + 1] = y
        BY <1>5, <2>1, <2>3
      <4> QED BY <2>5, <3>1, <4>1
    <3>2. CASE i # k + 1
      <4>1. i \in 1..k
        BY <2>1, <3>2
      <4> QED BY <2>4, <2>6, <4>1
    <3> QED BY <3>1, <3>2
  <2>8. Append(s, y) = t
    BY <2>3, <2>6, <2>7, SeqEqual
  <2> QED BY <1>a, <2>8 DEF s, t
<1>11. TakeFrame(a) = [buf |-> From(b, c + 3), frames |-> Append(a.frames, y), failed |-> FALSE]
  <2>1. TakeFrame(a) = [a EXCEPT !.buf = From(@, FrameLen(@) + 3),
                                 !.frames = Append(@, SubSeq(b, 3, FrameLen(b) + 2))]
    BY <1>8, Zenon DEF TakeFrame
  <2>3. TakeFrame(a) = [a EXCEPT !.buf = From(b, c + 3), !.frames = Append(a.frames, y)]
    BY <1>8, <2>1, Zenon
  <2> DEFINE u == From(b, c + 3)
             v == Append(a.frames, y)
  <2>4. TakeFrame(a) = [a EXCEPT !.buf = u, !.frames = v]
    BY <2>3
  <2> HIDE DEF b, u, v
  <2>5. TakeFrame(a) = [buf |-> u, frames |-> v, failed |-> FALSE]
    BY <1>1, <2>4 DEF Accumulators
  <2> QED BY <2>5 DEF u, v
<1>12. k + 1 \in 0..Len(m) /\ Mark(m, k + 1) <= p
  BY <1>2, <1>4, <1>5, <1>7
<1>13. Mark(m, k) + 1 <= Mark(m, k + 1)
  <2> HIDE DEF c
  <2> QED BY <1>1, <1>5, <1>6
<1> QED BY <1>9, <1>10, <1>11, <1>12, <1>13, Zenon DEF Kept

Stuck(m, n, p, k, a) ==
    /\ ReadFrame(a.buf) # "Frame" /\ TakeFrame(a) = a
    /\ ReadFrame(a.buf) = "TooLarge" => k = n /\ p > Mark(m, n)

LEMMA TakeNone ==
    ASSUME NEW m, NEW n, NEW tail, NEW x, Framed(m, n, tail, x), NEW p \in 0..Len(x),
           NEW k, NEW a, Kept(m, x, p, k, a), Done(m, p, k)
    PROVE  Stuck(m, n, p, k, a)
<1> DEFINE q == Mark(m, k)
           b == a.buf
<1>1. k \in 0..n /\ q \in Nat /\ q <= p /\ Piece(x, q, p, b)
  BY KeptPiece, Zenon
<1>2. n \in Nat /\ n = Len(m) /\ x \in Seq(Nat) /\ Len(x) \in Nat /\ p \in Nat
  BY DEF Framed
<1> SUFFICES ReadFrame(b) # "Frame" /\ (ReadFrame(b) = "TooLarge" => k = n /\ p > Mark(m, n))
  BY DEF TakeFrame, Stuck
<1> HIDE DEF b
<1>3. CASE k = n
  <2>1. tail \in FrameTails /\ Len(tail) \in Nat /\ Len(x) = q + Len(tail)
        /\ \A j \in 1..Len(tail) : x[q + j] = tail[j]
    BY <1>3 DEF Framed
  <2> HIDE DEF q
  <2>2. p - q \in Nat /\ p - q <= Len(tail)
    BY <1>1, <1>2, <2>1
  <2>3. Piece(tail, 0, p - q, b)
    <3>1. (p - q) - 0 = p - q /\ \A j \in 1..p - q : 0 + j = j /\ j \in 1..Len(tail)
      BY <2>1, <2>2
    <3> QED BY <1>1, <2>1, <3>1 DEF Piece
  <2>4. ReadFrame(b) # "Frame" /\ (ReadFrame(b) = "TooLarge" => p - q > 0)
    BY <2>1, <2>2, <2>3, NoFrame
  <2>5. p - q > 0 => p > q
    BY <1>1, <1>2
  <2> QED BY <1>3, <2>4, <2>5 DEF q
<1>4. CASE k # n
  <2> DEFINE y == m[k + 1].bytes
  <2>1. k + 1 \in 1..n /\ (k + 1) - 1 = k /\ p < Mark(m, k + 1)
    BY <1>1, <1>2, <1>4 DEF Done
  <2>2. FrameAt(x, q, y) /\ Mark(m, k + 1) = q + 2 + Len(y)
    <3>1. /\ FrameAt(x, Mark(m, (k + 1) - 1), y)
          /\ Mark(m, k + 1) = Mark(m, (k + 1) - 1) + 2 + Len(y)
      BY <2>1 DEF Framed
    <3> QED BY <2>1, <3>1
  <2>3. ReadFrame(b) = "Partial"
    <3>1. p < q + 2 + Len(y)
      BY <2>1, <2>2
    <3> QED BY <1>1, <1>2, <2>2, <3>1, PartialFrame, Zenon
  <2> QED BY <2>3
<1> QED BY <1>3, <1>4

\* As many turns as there are bytes take all the frames that are there.
Emptied(m, x, p, a) == \E k : Kept(m, x, p, k, a) /\ Done(m, p, k)

LEMMA TakeAll ==
    ASSUME NEW m, NEW n, NEW tail, NEW x, Framed(m, n, tail, x), NEW p \in 0..Len(x),
           NEW k, NEW a, Kept(m, x, p, k, a)
    PROVE  Emptied(m, x, p, Repeat(TakeFrame, a, Len(a.buf)))
<1> DEFINE N == Len(a.buf)
           q == Mark(m, k)
<1>1. /\ k \in 0..n /\ q \in Nat /\ q <= p /\ Piece(x, q, p, a.buf)
  BY KeptPiece, Zenon
<1>3. N = p - q
  BY <1>1 DEF Piece
<1>4. p \in Nat /\ n \in Nat /\ n = Len(m)
  BY DEF Framed
<1> DEFINE F(i) == Repeat(TakeFrame, a, i)
<1>6. F(0) = a /\ \A i \in Nat : F(i + 1) = TakeFrame(F(i))
  BY TakingTurns, Zenon
<1> HIDE DEF N, q, F
<1>7. N \in Nat
  BY <1>1, <1>3, <1>4
<1> DEFINE Got(i, j) == Kept(m, x, p, j, F(i)) /\ (Done(m, p, j) \/ q + i <= Mark(m, j))
           K == {i \in 0..N : \E j : Got(i, j)}
<1>8. 0 \in K
  <2>1. Got(0, k)
    BY <1>1, <1>6 DEF q
  <2>2. 0 \in 0..N
    BY <1>7
  <2> HIDE DEF Got
  <2> QED BY <2>1, <2>2
<1>9. ASSUME NEW i \in 0..N - 1, i \in K PROVE i + 1 \in K
  <2>1. PICK j : Got(i, j)
    BY <1>9
  <2>2. i \in Nat /\ i + 1 \in 0..N /\ F(i + 1) = TakeFrame(F(i))
    BY <1>6, <1>7
  <2>3. CASE Done(m, p, j)
    <3>1. TakeFrame(F(i)) = F(i)
      <4>1. Stuck(m, n, p, j, F(i))
        BY <2>1, <2>3, TakeNone, Zenon
      <4> QED BY <4>1 DEF Stuck
    <3>2. Got(i + 1, j)
      BY <2>1, <2>2, <2>3, <3>1, Zenon
    <3> HIDE DEF Got
    <3> QED BY <2>2, <3>2
  <2>4. CASE ~Done(m, p, j)
    <3>1. Kept(m, x, p, j + 1, F(i + 1)) /\ Mark(m, j) + 1 <= Mark(m, j + 1)
      <4>1. Kept(m, x, p, j + 1, TakeFrame(F(i))) /\ Mark(m, j) + 1 <= Mark(m, j + 1)
        BY <2>1, <2>4, TakeWhole, Zenon
      <4> QED BY <2>2, <4>1, Zenon
    <3>2. Mark(m, j) \in Nat /\ Mark(m, j + 1) \in Nat
      <4>1. j \in 0..n /\ j + 1 \in 0..n
        BY <1>4, <2>1, <3>1 DEF Kept
      <4> QED BY <4>1 DEF Framed
    <3>3. q + i <= Mark(m, j)
      BY <2>1, <2>4
    <3>4. q + (i + 1) <= Mark(m, j + 1)
      BY <1>1, <2>2, <3>1, <3>2, <3>3
    <3>5. Got(i + 1, j + 1)
      BY <3>1, <3>4
    <3> HIDE DEF Got
    <3> QED BY <2>2, <3>5
  <2> QED BY <2>3, <2>4
<1>10. N \in K
  <2> HIDE DEF K
  <2>1. 0 \in 0..N
    BY <1>7
  <2> QED BY <1>7, <1>8, <1>9, <2>1, Climb
<1>11. PICK j : Got(N, j)
  BY <1>10
<1>12. Done(m, p, j)
  <2> SUFFICES ASSUME ~Done(m, p, j) PROVE FALSE
    OBVIOUS
  <2>1. q + N <= Mark(m, j) /\ j \in 0..n
    BY <1>4, <1>11 DEF Kept
  <2>2. Mark(m, j) + 1 <= Mark(m, j + 1) /\ Kept(m, x, p, j + 1, TakeFrame(F(N)))
    BY <1>11, TakeWhole, Zenon
  <2>3. j + 1 \in 0..n /\ Mark(m, j + 1) <= p
    BY <1>4, <2>2 DEF Kept
  <2>4. Mark(m, j) \in Nat /\ Mark(m, j + 1) \in Nat
    BY <2>1, <2>3 DEF Framed
  <2> QED BY <1>1, <1>3, <1>4, <1>7, <2>1, <2>2, <2>3, <2>4
<1> QED BY <1>11, <1>12, Zenon DEF Emptied, F, N

\* A bad length ends the thread: what the call would have returned is lost.
Lost(m, n, p, a, s) ==
    /\ s.failed = TRUE /\ s.frames = a.frames /\ s \in Accumulators
    /\ p > Mark(m, n)

LEMMA Pushing ==
    ASSUME NEW m, NEW n, NEW tail, NEW x, Framed(m, n, tail, x), NEW p \in 0..Len(x),
           NEW r \in 0..Len(x), p <= r,
           NEW k, NEW a, Kept(m, x, p, k, a), NEW s, s = PushBytes(a, SubSeq(x, p + 1, r))
    PROVE  \/ Emptied(m, x, r, s) /\ s.failed = FALSE
           \/ Lost(m, n, r, a, s)
<1> DEFINE q == Mark(m, k)
           b == a.buf \o SubSeq(x, p + 1, r)
           a0 == [a EXCEPT !.buf = b]
           got == Repeat(TakeFrame, a0, Len(b))
<1>1. k \in 0..n /\ q \in Nat /\ q <= p
  BY KeptPiece, Zenon
<1>2. a \in Accumulators
  BY KeptPiece, Zenon
<1>3. a.buf = SubSeq(x, q + 1, p) /\ a.failed = FALSE /\ a.frames = [i \in 1..k |-> m[i].bytes]
  BY DEF Kept
<1>4. x \in Seq(Nat) /\ Len(x) \in Nat /\ n = Len(m) /\ n \in Nat
  BY DEF Framed
<1>5. b = SubSeq(x, q + 1, r)
  <2>1. p \in Nat /\ r \in Nat /\ r <= Len(x)
    BY <1>4
  <2> HIDE DEF q
  <2>2. SubSeq(x, q + 1, p) \o SubSeq(x, p + 1, r) = SubSeq(x, q + 1, r)
    BY <1>1, <1>4, <2>1, CuttingOn
  <2> QED BY <1>3, <2>2, Zenon
<1>6. q <= r
  BY <1>1, <1>4
<1> HIDE DEF b
<1>7. a0 = [buf |-> b, frames |-> a.frames, failed |-> FALSE]
  <2>1. a0 = [a EXCEPT !.buf = b] /\ a.failed = FALSE
    BY <1>3
  <2> HIDE DEF a0
  <2> QED BY <1>2, <2>1 DEF Accumulators
<1>8. Kept(m, x, r, k, a0)
  BY <1>1, <1>3, <1>4, <1>5, <1>6, <1>7, Zenon DEF Kept
<1>9. a0.buf = b
  BY <1>7
<1>10. Emptied(m, x, r, got)
  <2> HIDE DEF a0
  <2> QED BY <1>8, <1>9, TakeAll, Zenon
<1>11. PICK j : Kept(m, x, r, j, got) /\ Done(m, r, j)
  BY <1>10, Zenon DEF Emptied
<1>12. s = IF ReadFrame(got.buf) = "TooLarge" THEN [a EXCEPT !.buf = b, !.failed = TRUE] ELSE got
  BY Zenon DEF PushBytes, b
<1> HIDE DEF got, a0
<1>13. got.failed = FALSE
  BY <1>11 DEF Kept
<1>14. CASE ReadFrame(got.buf) = "TooLarge"
  <2>1. r > Mark(m, n)
    <3>1. Stuck(m, n, r, j, got)
      BY <1>11, TakeNone, Zenon
    <3> QED BY <1>14, <3>1 DEF Stuck
  <2>2. b \in Seq(Nat)
    <3>1. a0 \in Accumulators
      BY <1>8, KeptPiece, Zenon
    <3> QED BY <1>9, <3>1 DEF Accumulators
  <2>3. s = [a EXCEPT !.buf = b, !.failed = TRUE]
    BY <1>12, <1>14
  <2>4. s.failed = TRUE /\ s.frames = a.frames /\ s \in Accumulators
    BY <1>2, <2>2, <2>3 DEF Accumulators
  <2> QED BY <2>1, <2>4 DEF Lost
<1>15. CASE ReadFrame(got.buf) # "TooLarge"
  BY <1>10, <1>12, <1>13, <1>15
<1> QED BY <1>14, <1>15

-----------------------------------------------------------------------------
(* Varints.                                                                *)

LEMMA Eighth ==
    ASSUME NEW v \in Nat, v >= 8
    PROVE  v \div 8 \in 0..v - 1 /\ v \div 8 \in Nat /\ v % 8 \in 0..7
OBVIOUS

LEMMA VarintEncodeStep ==
    ASSUME NEW v \in Nat
    PROVE  /\ VarintEncode(v) \in Seq(Nat)
           /\ v < 8 => VarintEncode(v) = <<v>>
           /\ v >= 8 => VarintEncode(v) = <<(v % 8) + 8>> \o VarintEncode(v \div 8)
<1> DEFINE One(i, f) == IF i < 8 THEN <<i>> ELSE <<(i % 8) + 8>> \o f[i \div 8]
           Is(k, f)  == f = [i \in 0..k |-> IF i < 8 THEN <<i>> ELSE <<(i % 8) + 8>> \o f[i \div 8]]
           after(k)  == CHOOSE f : Is(k, f)
<1>1. ASSUME NEW k \in Nat PROVE \E f \in [0..k -> Seq(Nat)] : Is(k, f)
  <2> DEFINE K == {j \in 0..k : \E f \in [0..j -> Seq(Nat)] : Is(j, f)}
  <2>1. 0 \in K
    <3> DEFINE f == [i \in 0..0 |-> <<0>>]
    <3>1. f \in [0..0 -> Seq(Nat)]
      OBVIOUS
    <3>2. Is(0, f)
      <4>1. \A i \in 0..0 : i = 0 /\ i < 8
        OBVIOUS
      <4> QED BY <4>1
    <3>3. 0 \in 0..k
      OBVIOUS
    <3> HIDE DEF f, Is
    <3> QED BY <3>1, <3>2, <3>3
  <2>2. ASSUME NEW j \in 0..k - 1, j \in K PROVE j + 1 \in K
    <3>1. PICK f \in [0..j -> Seq(Nat)] : Is(j, f)
      BY <2>2
    <3> DEFINE new == IF j + 1 < 8 THEN <<j + 1>> ELSE <<((j + 1) % 8) + 8>> \o f[(j + 1) \div 8]
               g   == [i \in 0..j + 1 |-> IF i = j + 1 THEN new ELSE f[i]]
    <3>2. new \in Seq(Nat)
      <4>1. CASE j + 1 < 8
        BY <4>1
      <4>2. CASE ~(j + 1 < 8)
        <5>1. (j + 1) \div 8 \in 0..j /\ (j + 1) % 8 \in 0..7
          BY <4>2, Eighth
        <5>2. f[(j + 1) \div 8] \in Seq(Nat) /\ <<((j + 1) % 8) + 8>> \in Seq(Nat)
          BY <5>1
        <5>3. <<((j + 1) % 8) + 8>> \o f[(j + 1) \div 8] \in Seq(Nat)
          BY <5>2, ConcatProperties, Zenon
        <5> QED BY <4>2, <5>3, Zenon
      <4> QED BY <4>1, <4>2
    <3> HIDE DEF new
    <3>3. g \in [0..j + 1 -> Seq(Nat)]
      BY <3>2
    <3>4. ASSUME NEW i \in 0..j + 1
          PROVE  g[i] = IF i < 8 THEN <<i>> ELSE <<(i % 8) + 8>> \o g[i \div 8]
      <4>1. ~(i < 8) => i \div 8 \in 0..j + 1 /\ i \div 8 # j + 1
        <5>1. i \in Nat /\ i <= j + 1 /\ j \in Nat
          OBVIOUS
        <5> QED BY <5>1, Eighth
      <4>2. ~(i < 8) => g[i \div 8] = f[i \div 8]
        BY <4>1
      <4>3. CASE i = j + 1
        <5>1. g[i] = new
          BY <4>3
        <5>2. new = IF i < 8 THEN <<i>> ELSE <<(i % 8) + 8>> \o f[i \div 8]
          BY <4>3 DEF new
        <5> HIDE DEF g
        <5>3. CASE i < 8
          BY <5>1, <5>2, <5>3
        <5>4. CASE ~(i < 8)
          <6>1. g[i] = <<(i % 8) + 8>> \o f[i \div 8]
            BY <5>1, <5>2, <5>4, Zenon
          <6>2. g[i \div 8] = f[i \div 8]
            BY <4>2, <5>4
          <6> QED BY <5>4, <6>1, <6>2, Zenon
        <5> QED BY <5>3, <5>4
      <4>4. CASE i # j + 1
        <5>1. g[i] = f[i] /\ i \in 0..j
          BY <4>4
        <5>2. f[i] = IF i < 8 THEN <<i>> ELSE <<(i % 8) + 8>> \o f[i \div 8]
          BY <3>1, <5>1
        <5> HIDE DEF g
        <5>3. CASE i < 8
          BY <5>1, <5>2, <5>3
        <5>4. CASE ~(i < 8)
          <6>1. g[i] = <<(i % 8) + 8>> \o f[i \div 8]
            BY <5>1, <5>2, <5>4, Zenon
          <6>2. g[i \div 8] = f[i \div 8]
            BY <4>2, <5>4
          <6> QED BY <5>4, <6>1, <6>2, Zenon
        <5> QED BY <5>3, <5>4
      <4> QED BY <4>3, <4>4
    <3>5. Is(j + 1, g)
      BY <3>4
    <3>6. j + 1 \in 0..k
      OBVIOUS
    <3> HIDE DEF g, Is
    <3> QED BY <3>3, <3>5, <3>6
  <2>3. k \in K
    <3> HIDE DEF K
    <3>1. 0 \in 0..k
      OBVIOUS
    <3> QED BY <2>1, <2>2, <3>1, Climb
  <2> HIDE DEF Is
  <2> QED BY <2>3
<1>2. ASSUME NEW k \in Nat PROVE Is(k, after(k)) /\ VarintEncode(k) = after(k)[k]
  <2>1. VarintEncode(k) = after(k)[k]
    BY Zenon DEF VarintEncode, Group
  <2> HIDE DEF Is
  <2> QED BY <1>1, <2>1, Zenon
<1>3. ASSUME NEW f, NEW g, NEW k \in Nat, NEW l \in 0..k, Is(k, f), Is(l, g)
      PROVE  \A j \in 0..l : f[j] = g[j]
  <2> DEFINE K == {i \in 0..l : \A j \in 0..i : f[j] = g[j]}
  <2>1. ASSUME NEW i \in 0..l PROVE f[i] = One(i, f) /\ g[i] = One(i, g)
    <3>1. i \in 0..k
      OBVIOUS
    <3>2. f[i] = One(i, f)
      BY <1>3, <3>1
    <3>3. g[i] = One(i, g)
      BY <1>3
    <3> QED BY <3>2, <3>3, Zenon
  <2>2. 0 \in K
    <3>1. 0 \in 0..l /\ 0 < 8 /\ \A j \in 0..0 : j = 0
      OBVIOUS
    <3>2. f[0] = One(0, f) /\ g[0] = One(0, g)
      BY <2>1, <3>1, Zenon
    <3>3. f[0] = g[0]
      BY <3>1, <3>2, Zenon
    <3> QED BY <3>1, <3>3
  <2>3. ASSUME NEW i \in 0..l - 1, i \in K PROVE i + 1 \in K
    <3>1. i + 1 \in 0..l /\ i + 1 \in Nat
      OBVIOUS
    <3>2. f[i + 1] = One(i + 1, f) /\ g[i + 1] = One(i + 1, g)
      BY <2>1, <3>1, Zenon
    <3>3. CASE i + 1 < 8
      <4>1. f[i + 1] = g[i + 1]
        BY <3>2, <3>3
      <4> QED BY <2>3, <3>1, <4>1
    <3>4. CASE ~(i + 1 < 8)
      <4>1. (i + 1) \div 8 \in 0..i
        BY <3>1, <3>4, Eighth
      <4>2. f[(i + 1) \div 8] = g[(i + 1) \div 8]
        BY <2>3, <4>1
      <4>3. f[i + 1] = g[i + 1]
        BY <3>2, <3>4, <4>2, Zenon
      <4> QED BY <2>3, <3>1, <4>3
    <3> QED BY <3>3, <3>4
  <2>4. l \in K
    <3> HIDE DEF K
    <3>1. 0 \in 0..l /\ l \in Nat
      OBVIOUS
    <3> QED BY <2>2, <2>3, <3>1, Climb
  <2> QED BY <2>4
<1> HIDE DEF after
<1>4. v \in 0..v /\ Is(v, after(v)) /\ VarintEncode(v) = after(v)[v]
  <2> HIDE DEF Is
  <2>1. v \in 0..v
    OBVIOUS
  <2> QED BY <1>2, <2>1
<1>5. after(v)[v] \in Seq(Nat)
  <2>1. PICK f \in [0..v -> Seq(Nat)] : Is(v, f)
    <3> HIDE DEF Is
    <3> QED BY <1>1
  <2>2. after(v)[v] = f[v]
    <3> HIDE DEF Is
    <3> QED BY <1>3, <1>4, <2>1
  <2> QED BY <1>4, <2>2
<1>6. after(v)[v] = One(v, after(v))
  BY <1>4
<1>7. CASE v < 8
  <2>1. ~(v >= 8)
    BY <1>7
  <2> QED BY <1>4, <1>5, <1>6, <1>7, <2>1, Zenon
<1>8. CASE ~(v < 8)
  <2> DEFINE w == v \div 8
  <2>1. w \in 0..v /\ w \in Nat /\ w \in 0..w
    BY <1>8, Eighth
  <2> HIDE DEF w
  <2>2. Is(w, after(w)) /\ VarintEncode(w) = after(w)[w]
    <3> HIDE DEF Is
    <3> QED BY <1>2, <2>1
  <2>3. after(v)[w] = after(w)[w]
    <3> HIDE DEF Is
    <3> QED BY <1>3, <1>4, <2>1, <2>2
  <2>4. after(v)[v] = <<(v % 8) + 8>> \o after(v)[w]
    BY <1>6, <1>8, Zenon DEF w
  <2> QED BY <1>4, <1>5, <1>8, <2>2, <2>3, <2>4, Zenon DEF w
<1> QED BY <1>7, <1>8

\* The digits of v, the last one below 8.
Spells(e, v) ==
    /\ e \in Seq(Nat)
    /\ \/ Len(e) = 1 /\ e[1] = v /\ v < 8
       \/ Len(e) = 2 /\ e[1] = (v % 8) + 8 /\ e[2] = v \div 8 /\ v \div 8 < 8
       \/ /\ Len(e) = 3 /\ e[1] = (v % 8) + 8 /\ e[2] = ((v \div 8) % 8) + 8
          /\ e[3] = (v \div 8) \div 8 /\ (v \div 8) \div 8 < 2

LEMMA Pair ==
    ASSUME NEW p \in Nat, NEW q \in Nat
    PROVE  <<p>> \o <<q>> = <<p, q>>
<1> DEFINE u == <<p>> \o <<q>>
           t == <<p, q>>
<1>1. <<p>> \in Seq(Nat) /\ <<q>> \in Seq(Nat) /\ Len(<<p>>) = 1 /\ Len(<<q>>) = 1
      /\ <<p>>[1] = p /\ <<q>>[1] = q
  OBVIOUS
<1>2. Adjoins(<<p>>, <<q>>, u)
  BY <1>1, Adjoining, Zenon
<1>3. t \in Seq(Nat) /\ Len(t) = 2 /\ t[1] = p /\ t[2] = q
  OBVIOUS
<1> HIDE DEF u, t
<1>4. u \in Seq(Nat) /\ Len(u) = 2 /\ u[1] = p /\ u[1 + 1] = q
  <2>1. 1 \in 1..Len(<<p>>) /\ 1 \in 1..Len(<<q>>)
    BY <1>1
  <2>2. /\ u \in Seq(Nat) /\ Len(u) = Len(<<p>>) + Len(<<q>>)
        /\ u[1] = <<p>>[1] /\ u[Len(<<p>>) + 1] = <<q>>[1]
    BY <1>2, <2>1, Zenon DEF Adjoins
  <2> QED BY <1>1, <2>2
<1>5. \A i \in 1..2 : u[i] = t[i]
  <2>1. \A i \in 1..2 : i = 1 \/ i = 1 + 1
    OBVIOUS
  <2> QED BY <1>3, <1>4, <2>1
<1>6. u = t
  BY <1>3, <1>4, <1>5, SeqEqual
<1> QED BY <1>6 DEF u, t

LEMMA Triple ==
    ASSUME NEW p \in Nat, NEW q \in Nat, NEW r \in Nat
    PROVE  <<p>> \o (<<q>> \o <<r>>) = <<p, q, r>>
<1> DEFINE s == <<q, r>>
           u == <<p>> \o s
           t == <<p, q, r>>
<1>1. <<p>> \in Seq(Nat) /\ Len(<<p>>) = 1 /\ <<p>>[1] = p /\ s \in Seq(Nat) /\ Len(s) = 2
      /\ s[1] = q /\ s[2] = r
  OBVIOUS
<1>2. Adjoins(<<p>>, s, u)
  BY <1>1, Adjoining, Zenon
<1>3. t \in Seq(Nat) /\ Len(t) = 3 /\ t[1] = p /\ t[2] = q /\ t[3] = r
  OBVIOUS
<1> HIDE DEF u, t, s
<1>4. u \in Seq(Nat) /\ Len(u) = 3 /\ u[1] = p /\ u[1 + 1] = q /\ u[1 + 2] = r
  BY <1>1, <1>2 DEF Adjoins
<1>5. \A i \in 1..3 : u[i] = t[i]
  <2>1. \A i \in 1..3 : i = 1 \/ i = 1 + 1 \/ i = 1 + 2
    OBVIOUS
  <2> QED BY <1>3, <1>4, <2>1
<1>6. u = t
  BY <1>3, <1>4, <1>5, SeqEqual
<1>7. <<q>> \o <<r>> = s
  BY Pair DEF s
<1> QED BY <1>6, <1>7, Zenon DEF u, t

LEMMA Spelling ==
    ASSUME NEW v \in 0..127
    PROVE  Spells(VarintEncode(v), v)
<1> DEFINE w == v \div 8
           u == w \div 8
           e == VarintEncode(v)
           d == VarintEncode(w)
           c == VarintEncode(u)
<1>1. v \in Nat /\ w \in Nat /\ u \in Nat /\ w < 16 /\ u < 2
  OBVIOUS
<1>2. /\ e \in Seq(Nat) /\ (v < 8 => e = <<v>>) /\ (v >= 8 => e = <<(v % 8) + 8>> \o d)
      /\ d \in Seq(Nat) /\ (w < 8 => d = <<w>>) /\ (w >= 8 => d = <<(w % 8) + 8>> \o c)
      /\ c \in Seq(Nat) /\ (u < 8 => c = <<u>>)
  <2>1. e \in Seq(Nat) /\ (v < 8 => e = <<v>>) /\ (v >= 8 => e = <<(v % 8) + 8>> \o d)
    BY <1>1, VarintEncodeStep, Zenon
  <2>2. d \in Seq(Nat) /\ (w < 8 => d = <<w>>) /\ (w >= 8 => d = <<(w % 8) + 8>> \o c)
    BY <1>1, VarintEncodeStep, Zenon
  <2>3. c \in Seq(Nat) /\ (u < 8 => c = <<u>>)
    BY <1>1, VarintEncodeStep, Zenon
  <2> QED BY <2>1, <2>2, <2>3, Zenon
<1> HIDE DEF e, d, c
<1>3. CASE v < 8
  <2>1. e = <<v>>
    BY <1>2, <1>3, Zenon
  <2>2. Len(e) = 1 /\ e[1] = v
    BY <2>1
  <2> QED BY <1>2, <1>3, <2>2, Zenon DEF Spells, e
<1>4. CASE v >= 8 /\ w < 8
  <2>1. e = <<(v % 8) + 8>> \o d /\ d = <<w>>
    BY <1>2, <1>4, Zenon
  <2> HIDE DEF w
  <2>2. <<(v % 8) + 8>> \o <<w>> = <<(v % 8) + 8, w>>
    <3>1. (v % 8) + 8 \in Nat
      BY <1>1
    <3> QED BY <1>1, <3>1, Pair, Zenon
  <2>3. e = <<(v % 8) + 8, w>>
    BY <2>1, <2>2, Zenon
  <2>4. Len(e) = 2 /\ e[1] = (v % 8) + 8 /\ e[2] = w
    BY <2>3
  <2> QED BY <1>2, <1>4, <2>4, Zenon DEF Spells, e, w
<1>5. CASE v >= 8 /\ w >= 8
  <2>1. e = <<(v % 8) + 8>> \o d /\ d = <<(w % 8) + 8>> \o c /\ c = <<u>>
    <3>1. u < 8
      BY <1>1
    <3> QED BY <1>2, <1>5, <3>1, Zenon
  <2> DEFINE p == (v % 8) + 8
             q == (w % 8) + 8
  <2>2. p \in Nat /\ q \in Nat
    OBVIOUS
  <2>3. u < 2 /\ u \in Nat
    BY <1>1
  <2> HIDE DEF p, q, u
  <2>4. <<p>> \o (<<q>> \o <<u>>) = <<p, q, u>>
    BY <2>2, <2>3, Triple, Zenon
  <2>5. e = <<p, q, u>>
    BY <2>1, <2>4, Zenon DEF p, q
  <2>6. Len(e) = 3 /\ e[1] = p /\ e[2] = q /\ e[3] = u
    BY <2>5
  <2> QED BY <1>2, <2>3, <2>6, Zenon DEF Spells, e, p, q, u
<1>6. (v < 8) \/ (v >= 8 /\ w < 8) \/ (v >= 8 /\ w >= 8)
  BY <1>1
<1> QED BY <1>3, <1>4, <1>5, <1>6

LEMMA VarintDecodeAt ==
    ASSUME NEW b \in Seq(Nat), NEW n \in 1..3, n <= Len(b), b[n] < 8,
           \A i \in 1..n - 1 : b[i] >= 8, n = 3 => b[3] < 2
    PROVE  VarintDecode(b) =
             [ok |-> TRUE, used |-> n,
              value |-> (b[1] % 8) + 8 * (IF 2 <= n THEN b[2] % 8 ELSE 0)
                          + 8 * 8 * (IF 3 <= n THEN b[3] % 8 ELSE 0)]
<1> DEFINE ends == {i \in DOMAIN b : b[i] < Group}
           m == CHOOSE i \in ends : \A j \in ends : i <= j
<1>1. DOMAIN b = 1..Len(b) /\ Len(b) \in Nat /\ \A i \in 1..Len(b) : b[i] \in Nat
  OBVIOUS
<1>2. n \in ends
  BY <1>1 DEF Group
<1>3. \A j \in ends : n <= j
  <2> SUFFICES ASSUME NEW j \in ends, ~(n <= j) PROVE FALSE
    OBVIOUS
  <2>1. j \in 1..n - 1 /\ b[j] < 8 /\ b[j] \in Nat
    BY <1>1 DEF Group
  <2> QED BY <2>1
<1>4. m \in ends /\ \A j \in ends : m <= j
  <2>1. \E i \in ends : \A j \in ends : i <= j
    <3> HIDE DEF ends
    <3> QED BY <1>2, <1>3
  <2> HIDE DEF ends
  <2> QED BY <2>1, Zenon
<1> HIDE DEF m
<1>5. m = n
  <2>1. m <= n /\ n <= m
    BY <1>2, <1>3, <1>4
  <2>2. m \in Nat
    BY <1>1, <1>4
  <2> QED BY <2>1, <2>2
<1>6. ends # {} /\ ~(m > VarintBytes) /\ ~(m = VarintBytes /\ b[m] % Group > 1)
  <2>1. ends # {}
    BY <1>2, Zenon
  <2>2. ~(n > 3)
    OBVIOUS
  <2>3. n = 3 => ~(b[n] % 8 > 1)
    <3> SUFFICES ASSUME n = 3 PROVE ~(b[3] % 8 > 1)
      OBVIOUS
    <3>1. b[3] \in Nat /\ b[3] < 2
      BY <1>1
    <3> QED BY <3>1
  <2> QED BY <1>5, <2>1, <2>2, <2>3 DEF VarintBytes, Group
<1>7. VarintDecode(b) =
        LET digit(i) == IF i <= m THEN b[i] % Group ELSE 0
        IN IF ends = {} \/ m > VarintBytes \/ (m = VarintBytes /\ b[m] % Group > 1)
           THEN Invalid
           ELSE [ok |-> TRUE, used |-> m,
                 value |-> digit(1) + Group * digit(2) + Group * Group * digit(3)]
  BY Zenon DEF VarintDecode, m
<1> HIDE DEF ends
<1>8. VarintDecode(b) = [ok |-> TRUE, used |-> n,
        value |-> (IF 1 <= n THEN b[1] % 8 ELSE 0) + 8 * (IF 2 <= n THEN b[2] % 8 ELSE 0)
                          + 8 * 8 * (IF 3 <= n THEN b[3] % 8 ELSE 0)]
  BY <1>5, <1>6, <1>7, Zenon DEF Group
<1>9. 1 <= n
  OBVIOUS
<1> QED BY <1>8, <1>9, Zenon

LEMMA Digit ==
    ASSUME NEW x \in 0..7
    PROVE  (x + 8) % 8 = x /\ x % 8 = x
OBVIOUS

LEMMA VarintRoundTrip ==
    ASSUME NEW v \in 0..127, NEW z \in Seq(Nat), NEW e, e = VarintEncode(v)
    PROVE  /\ e \in Seq(Nat) /\ Len(e) \in 1..3
           /\ VarintDecode(e \o z) = [ok |-> TRUE, used |-> Len(e), value |-> v]
<1> DEFINE b == e \o z
<1>1. Spells(e, v)
  BY Spelling, Zenon
<1>2. e \in Seq(Nat) /\ Len(e) \in 1..3
  BY <1>1 DEF Spells
<1>3. Adjoins(e, z, b)
  BY <1>2, Adjoining, Zenon
<1> HIDE DEF b
<1>4. b \in Seq(Nat) /\ Len(e) <= Len(b) /\ \A i \in 1..Len(e) : b[i] = e[i]
  BY <1>3 DEF Adjoins
<1>5. CASE Len(e) = 1 /\ e[1] = v /\ v < 8
  <2>1. b[1] = v /\ 1 <= Len(b) /\ v % 8 = v
    <3>1. 1 \in 1..Len(e)
      BY <1>5
    <3>2. b[1] = e[1] /\ 1 <= Len(b)
      BY <1>4, <1>5, <3>1
    <3>3. v % 8 = v
      BY <1>5
    <3> QED BY <1>5, <3>2, <3>3
  <2>2. VarintDecode(b) = [ok |-> TRUE, used |-> 1, value |-> (v % 8) + 8 * 0 + 8 * 8 * 0]
    BY <1>4, <1>5, <2>1, VarintDecodeAt
  <2>3. (v % 8) + 8 * 0 + 8 * 8 * 0 = v
    BY <2>1
  <2> QED BY <1>2, <1>5, <2>2, <2>3, Zenon DEF b
<1>6. CASE Len(e) = 2 /\ e[1] = (v % 8) + 8 /\ e[2] = v \div 8 /\ v \div 8 < 8
  <2>1. b[1] = (v % 8) + 8 /\ b[2] = v \div 8 /\ b[2] < 8 /\ b[1] >= 8 /\ 2 <= Len(b)
    BY <1>4, <1>6
  <2>2. VarintDecode(b) = [ok |-> TRUE, used |-> 2, value |-> (b[1] % 8) + 8 * (b[2] % 8) + 8 * 8 * 0]
    <3>1. 2 \in 1..3 /\ (\A i \in 1..2 - 1 : b[i] >= 8) /\ 2 # 3 /\ 2 <= 2 /\ ~(3 <= 2)
      BY <2>1
    <3> QED BY <1>4, <2>1, <3>1, VarintDecodeAt
  <2>3. (b[1] % 8) + 8 * (b[2] % 8) + 8 * 8 * 0 = v
    BY <2>1
  <2> QED BY <1>2, <1>6, <2>2, <2>3, Zenon DEF b
<1>7. CASE /\ Len(e) = 3 /\ e[1] = (v % 8) + 8 /\ e[2] = ((v \div 8) % 8) + 8
           /\ e[3] = (v \div 8) \div 8 /\ (v \div 8) \div 8 < 2
  <2>1. /\ b[1] = (v % 8) + 8 /\ b[2] = ((v \div 8) % 8) + 8 /\ b[3] = (v \div 8) \div 8
        /\ b[1] >= 8 /\ b[2] >= 8 /\ b[3] < 2 /\ 3 <= Len(b)
    BY <1>4, <1>7
  <2>2. VarintDecode(b) = [ok |-> TRUE, used |-> 3,
                           value |-> (b[1] % 8) + 8 * (b[2] % 8) + 8 * 8 * (b[3] % 8)]
    <3>1. 3 \in 1..3 /\ (\A i \in 1..3 - 1 : b[i] >= 8) /\ 2 <= 3 /\ 3 <= 3 /\ b[3] < 8
      <4>1. \A i \in 1..3 - 1 : i = 1 \/ i = 2
        OBVIOUS
      <4>2. b[3] < 8
        BY <2>1
      <4> QED BY <2>1, <4>1, <4>2
    <3> QED BY <1>4, <2>1, <3>1, VarintDecodeAt
  <2>3. (b[1] % 8) + 8 * (b[2] % 8) + 8 * 8 * (b[3] % 8) = v
    <3> DEFINE w == v \div 8
               u == w \div 8
    <3>1. v = 8 * w + (v % 8) /\ w \in Nat /\ v % 8 \in 0..7
      OBVIOUS
    <3> HIDE DEF w
    <3>2. w = 8 * u + (w % 8) /\ u \in Nat /\ w % 8 \in 0..7
      BY <3>1
    <3>3. u < 2 /\ b[1] = (v % 8) + 8 /\ b[2] = (w % 8) + 8 /\ b[3] = u
      BY <2>1 DEF w
    <3> DEFINE a == v % 8
               c == w % 8
    <3> HIDE DEF u, a, c
    <3>4. a \in 0..7 /\ c \in 0..7 /\ b[1] = a + 8 /\ b[2] = c + 8 /\ v = 8 * w + a /\ w = 8 * u + c
      BY <3>1, <3>2, <3>3 DEF a, c
    <3>5. b[1] % 8 = a /\ b[2] % 8 = c /\ b[3] % 8 = u
      <4>1. u \in 0..7
        BY <3>2, <3>3
      <4> QED BY <3>3, <3>4, <4>1, Digit
    <3> QED BY <3>2, <3>4, <3>5
  <2> QED BY <1>2, <1>7, <2>2, <2>3, Zenon DEF b
<1> QED BY <1>1, <1>5, <1>6, <1>7, Zenon DEF Spells

-----------------------------------------------------------------------------
(* Fields.                                                                 *)

LEMMA FromBehind ==
    ASSUME NEW s \in Seq(Nat), NEW t \in Seq(Nat), NEW u, u = s \o t
    PROVE  From(u, Len(s) + 1) = t /\ SubSeq(u, 1, Len(s)) = s
<1>1. Adjoins(s, t, u)
  BY Adjoining, Zenon
<1>2. u \in Seq(Nat) /\ Len(s) \in Nat /\ Len(t) \in Nat /\ Len(u) = Len(s) + Len(t)
  BY <1>1, Zenon DEF Adjoins
<1> DEFINE d == SubSeq(u, Len(s) + 1, Len(u))
           e == SubSeq(u, 0 + 1, Len(s))
<1>3. Piece(u, Len(s), Len(u), d) /\ Piece(u, 0, Len(s), e)
  <2>1. Len(u) \in Nat /\ Len(s) <= Len(u) /\ Len(u) <= Len(u) /\ 0 <= Len(s)
    BY <1>2
  <2> QED BY <1>2, <2>1, Cutting
<1> HIDE DEF d, e
<1>4. Len(u) - Len(s) = Len(t) /\ Len(s) - 0 = Len(s)
  BY <1>2
<1>5. d \in Seq(Nat) /\ Len(d) = Len(t) /\ \A j \in 1..Len(t) : d[j] = u[Len(s) + j]
  BY <1>3, <1>4, Zenon DEF Piece
<1>6. e \in Seq(Nat) /\ Len(e) = Len(s) /\ \A j \in 1..Len(s) : e[j] = u[0 + j]
  BY <1>3, <1>4, Zenon DEF Piece
<1>7. \A j \in 1..Len(t) : d[j] = t[j]
  BY <1>1, <1>5, Zenon DEF Adjoins
<1>8. \A j \in 1..Len(s) : e[j] = s[j]
  <2>1. \A j \in 1..Len(s) : 0 + j = j
    BY <1>2
  <2>2. \A j \in 1..Len(s) : u[j] = s[j]
    BY <1>1, Zenon DEF Adjoins
  <2> QED BY <1>6, <2>1, <2>2
<1>9. d = t /\ e = s
  BY <1>5, <1>6, <1>7, <1>8, SeqEqual
<1>10. 0 + 1 = 1
  OBVIOUS
<1> QED BY <1>9, <1>10, Zenon DEF From, d, e

LEMMA Regroup ==
    ASSUME NEW s \in Seq(Nat), NEW t \in Seq(Nat), NEW u \in Seq(Nat)
    PROVE  (s \o t) \o u = s \o (t \o u)
BY ConcatAssociative

\* x is a field that turns m into m2, whatever follows.
Carries(x, m, m2) ==
    /\ x \in Seq(Nat) /\ Len(x) \in Nat /\ Len(x) >= 1
    /\ \A z \in Seq(Nat) :
          DecodeField(m, x \o z) = [ok |-> TRUE, message |-> m2, used |-> Len(x)]

\* v is the value of such a field.
Holds(v, field, wire, m, m2) ==
    /\ v \in Seq(Nat)
    /\ \A z \in Seq(Nat) :
          DecodeValue(m, field, wire, v \o z) = [ok |-> TRUE, message |-> m2, used |-> Len(v)]

LEMMA FieldHolds ==
    ASSUME NEW field \in 1..7, NEW wire \in 0..5, NEW m, NEW m2, NEW v, Holds(v, field, wire, m, m2)
    PROVE  Carries(Key(field, wire) \o v, m, m2)
<1> DEFINE head == Key(field, wire)
           n == field * 8 + wire
           x == head \o v
<1>1. n \in 0..127 /\ (n \div 8) % 8 = field /\ n % 8 = wire /\ field # 0
  OBVIOUS
<1>2. head = VarintEncode(n)
  BY Zenon DEF Key
<1>3. v \in Seq(Nat)
  BY DEF Holds
<1> HIDE DEF n, head
<1>4. head \in Seq(Nat) /\ Len(head) \in 1..3
  <2>1. Spells(VarintEncode(n), n)
    BY <1>1, Spelling
  <2> QED BY <1>2, <2>1 DEF Spells
<1>5. Adjoins(head, v, x)
  BY <1>3, <1>4, Adjoining, Zenon
<1>6. x \in Seq(Nat) /\ Len(x) = Len(head) + Len(v) /\ Len(v) \in Nat
  BY <1>5, Zenon DEF Adjoins
<1>7. ASSUME NEW z \in Seq(Nat)
      PROVE  DecodeField(m, x \o z) = [ok |-> TRUE, message |-> m2, used |-> Len(x)]
  <2> DEFINE b == x \o z
             y == v \o z
  <2>1. y \in Seq(Nat)
    BY <1>3, <1>7, ConcatProperties, Zenon
  <2>2. b = head \o y
    BY <1>3, <1>4, <1>7, Regroup, Zenon
  <2>3. VarintDecode(b) = [ok |-> TRUE, used |-> Len(head), value |-> n]
    <3> HIDE DEF y, b
    <3> QED BY <1>1, <1>2, <2>1, <2>2, VarintRoundTrip, Zenon
  <2>4. From(b, Len(head) + 1) = y
    <3> HIDE DEF y, b
    <3> QED BY <1>4, <2>1, <2>2, FromBehind, Zenon
  <2>5. DecodeValue(m, field, wire, y) = [ok |-> TRUE, message |-> m2, used |-> Len(v)]
    BY <1>7, Zenon DEF Holds
  <2> HIDE DEF b, y, x
  <2> DEFINE tag == VarintDecode(b)
             f == (tag.value \div 8) % U32
             value == DecodeValue(m, f, tag.value % 8, From(b, tag.used + 1))
  <2>6. tag.ok /\ tag.value = n /\ tag.used = Len(head)
    BY <2>3
  <2>7. f = field /\ tag.value % 8 = wire
    BY <1>1, <2>6 DEF U32
  <2>8. value = [ok |-> TRUE, message |-> m2, used |-> Len(v)]
    <3> HIDE DEF f, tag
    <3> QED BY <2>4, <2>5, <2>6, <2>7, Zenon DEF value
  <2>9. DecodeField(m, b) = IF ~tag.ok THEN Invalid ELSE IF f = 0 \/ ~value.ok THEN Invalid
                            ELSE [value EXCEPT !.used = tag.used + @]
    BY Zenon DEF DecodeField
  <2> HIDE DEF tag, f, value
  <2>10. value.ok
    BY <2>8
  <2>11. DecodeField(m, b) = [value EXCEPT !.used = tag.used + @]
    BY <1>1, <2>6, <2>7, <2>9, <2>10, Zenon
  <2>12. DecodeField(m, b) = [ok |-> TRUE, message |-> m2, used |-> tag.used + Len(v)]
    BY <2>8, <2>11
  <2> QED BY <1>6, <2>6, <2>12, Zenon DEF b
<1>8. Len(x) \in Nat /\ Len(x) >= 1
  <2> DEFINE a == Len(head)
             c == Len(v)
  <2>1. a \in 1..3 /\ c \in Nat /\ Len(x) = a + c
    BY <1>4, <1>6, Zenon
  <2> HIDE DEF x, a, c
  <2> QED BY <2>1
<1> QED BY <1>6, <1>7, <1>8, Zenon DEF Carries, head

LEMMA VarintHolds ==
    ASSUME NEW field \in 1..7, NEW m, NEW v \in 0..127
    PROVE  Holds(VarintEncode(v), field, Varint, m, SetVarint(m, field, v))
<1> DEFINE e == VarintEncode(v)
<1>1. e \in Seq(Nat)
  <2>1. v \in Nat
    OBVIOUS
  <2> QED BY <2>1, VarintEncodeStep, Zenon
<1>2. ASSUME NEW z \in Seq(Nat)
      PROVE  DecodeValue(m, field, Varint, e \o z)
               = [ok |-> TRUE, message |-> SetVarint(m, field, v), used |-> Len(e)]
  <2> DEFINE b == e \o z
  <2>1. VarintDecode(b) = [ok |-> TRUE, used |-> Len(e), value |-> v]
    BY VarintRoundTrip, Zenon
  <2> HIDE DEF b, e
  <2>2. DecodeValue(m, field, Varint, b) = DecodeVarintField(m, field, b)
    BY DEF DecodeValue, Varint, LengthDelimited, Fixed32, Fixed64
  <2>3. VarintDecode(b).ok /\ VarintDecode(b).value = v /\ VarintDecode(b).used = Len(e)
    BY <2>1
  <2>4. DecodeVarintField(m, field, b) = [ok |-> TRUE, message |-> SetVarint(m, field, v), used |-> Len(e)]
    BY <2>3, Zenon DEF DecodeVarintField
  <2> QED BY <2>2, <2>4, Zenon DEF b
<1> HIDE DEF e
<1>3. Holds(e, field, Varint, m, SetVarint(m, field, v))
  BY <1>1, <1>2, Zenon DEF Holds
<1> QED BY <1>3 DEF e

LEMMA BytesHold ==
    ASSUME NEW field \in 1..7, NEW m, NEW data \in Seq(Nat), Len(data) <= MaxField
    PROVE  Holds(VarintEncode(Len(data)) \o data, field, LengthDelimited, m, SetBytes(m, field, data))
<1> DEFINE n == Len(data)
           e == VarintEncode(n)
           x == e \o data
<1>1. n \in 0..127 /\ n \in Nat /\ n <= MaxField
  <2>1. n \in Nat /\ n <= MaxField
    OBVIOUS
  <2>2. MaxField \in Nat /\ MaxField <= 127
    BY CastWireAssumption
  <2> HIDE DEF n
  <2> QED BY <2>1, <2>2
<1> HIDE DEF n
<1>2. e \in Seq(Nat)
  BY <1>1, VarintEncodeStep, Zenon
<1>3. Adjoins(e, data, x)
  BY <1>2, Adjoining, Zenon
<1>4. x \in Seq(Nat) /\ Len(x) = Len(e) + n /\ Len(e) \in Nat
  BY <1>3, Zenon DEF Adjoins, n
<1>5. ASSUME NEW z \in Seq(Nat)
      PROVE  DecodeValue(m, field, LengthDelimited, x \o z)
               = [ok |-> TRUE, message |-> SetBytes(m, field, data), used |-> Len(x)]
  <2> DEFINE b == x \o z
             y == data \o z
  <2>1. y \in Seq(Nat)
    BY <1>5, ConcatProperties, Zenon
  <2>2. b = e \o y
    BY <1>2, <1>5, Regroup, Zenon
  <2>3. VarintDecode(b) = [ok |-> TRUE, used |-> Len(e), value |-> n]
    <3> HIDE DEF y, b
    <3> QED BY <1>1, <2>1, <2>2, VarintRoundTrip, Zenon
  <2> HIDE DEF e
  <2>4. Adjoins(x, z, b)
    BY <1>4, Adjoining, Zenon
  <2>5. Len(b) = Len(x) + Len(z) /\ Len(z) \in Nat /\ b \in Seq(Nat)
    BY <2>4, Zenon DEF Adjoins
  <2>6. SubSeq(b, Len(e) + 1, Len(e) + n) = data
    <3> DEFINE d == SubSeq(b, Len(e) + 1, Len(e) + n)
    <3>1. Piece(b, Len(e), Len(e) + n, d)
      <4>1. Len(e) + n \in Nat /\ Len(e) <= Len(e) + n /\ Len(e) + n <= Len(b)
        BY <1>1, <1>4, <2>5
      <4> HIDE DEF b
      <4> QED BY <1>4, <2>5, <4>1, Cutting
    <3> HIDE DEF d, b, x
    <3>2. (Len(e) + n) - Len(e) = n
      BY <1>1, <1>4
    <3>3. d \in Seq(Nat) /\ Len(d) = n /\ \A j \in 1..n : d[j] = b[Len(e) + j]
      BY <3>1, <3>2, Zenon DEF Piece
    <3>4. ASSUME NEW j \in 1..n PROVE d[j] = data[j]
      <4>1. Len(e) + j \in 1..Len(x)
        BY <1>1, <1>4
      <4>2. b[Len(e) + j] = x[Len(e) + j]
        BY <2>4, <4>1, Zenon DEF Adjoins
      <4>3. x[Len(e) + j] = data[j]
        BY <1>3, Zenon DEF Adjoins, n
      <4> QED BY <3>3, <4>2, <4>3
    <3>5. d = data
      BY <3>3, <3>4, SeqEqual DEF n
    <3> QED BY <3>5 DEF d
  <2> HIDE DEF b, x
  <2>7. DecodeValue(m, field, LengthDelimited, b) = DecodeBytesField(m, field, b)
    BY DEF DecodeValue, Varint, LengthDelimited, Fixed32, Fixed64
  <2>8. VarintDecode(b).ok /\ VarintDecode(b).value = n /\ VarintDecode(b).used = Len(e)
    BY <2>3
  <2>9. ~(n > MaxField) /\ ~(Len(e) + n > Len(b))
    BY <1>1, <1>4, <2>5, CastWireAssumption
  <2>10. DecodeBytesField(m, field, b)
           = [ok |-> TRUE, message |-> SetBytes(m, field, data), used |-> Len(e) + n]
    BY <2>6, <2>8, <2>9, Zenon DEF DecodeBytesField
  <2> QED BY <1>4, <2>7, <2>10, Zenon DEF b
<1> HIDE DEF x
<1>6. Holds(x, field, LengthDelimited, m, SetBytes(m, field, data))
  BY <1>4, <1>5, Zenon DEF Holds
<1> QED BY <1>6 DEF x, e, n

LEMMA FixedHolds ==
    ASSUME NEW field \in 1..7, NEW m, NEW wire \in {Fixed64, Fixed32}
    PROVE  Holds([i \in 1..Width(wire) |-> 0], field, wire, m, m)
<1> DEFINE w == Width(wire)
           x == [i \in 1..w |-> 0]
<1>1. w \in Nat
  BY DEF Width
<1> HIDE DEF w
<1>2. x \in Seq(Nat) /\ Len(x) = w
  BY <1>1
<1> HIDE DEF x
<1>3. ASSUME NEW z \in Seq(Nat)
      PROVE  DecodeValue(m, field, wire, x \o z) = [ok |-> TRUE, message |-> m, used |-> Len(x)]
  <2> DEFINE b == x \o z
  <2>1. Adjoins(x, z, b)
    BY <1>2, Adjoining, Zenon
  <2> HIDE DEF b
  <2>2. Len(b) = Len(x) + Len(z) /\ Len(z) \in Nat
    BY <2>1, Zenon DEF Adjoins
  <2>3. DecodeValue(m, field, wire, b) = SkipFixed(w, b, m)
    BY DEF DecodeValue, Varint, LengthDelimited, Fixed32, Fixed64, w
  <2>4. ~(w > Len(b))
    BY <1>1, <1>2, <2>2
  <2>5. SkipFixed(w, b, m) = [ok |-> TRUE, message |-> m, used |-> w]
    BY <2>4, Zenon DEF SkipFixed
  <2> QED BY <1>2, <2>3, <2>5, Zenon DEF b
<1>4. Holds(x, field, wire, m, m)
  BY <1>2, <1>3, Zenon DEF Holds
<1> QED BY <1>4 DEF x, w

LEMMA WriteVarintCarries ==
    ASSUME NEW field \in 1..7, NEW m, NEW v \in 0..127
    PROVE  Carries(WriteVarint(field, v), m, SetVarint(m, field, v))
<1>1. Varint \in 0..5
  BY DEF Varint
<1>2. Holds(VarintEncode(v), field, Varint, m, SetVarint(m, field, v))
  BY VarintHolds, Zenon
<1> QED BY <1>1, <1>2, FieldHolds, Zenon DEF WriteVarint

LEMMA WriteFixedCarries ==
    ASSUME NEW field \in 1..7, NEW m, NEW wire \in {Fixed64, Fixed32}
    PROVE  Carries(WriteFixed(field, wire), m, m)
<1>1. wire \in 0..5
  BY DEF Fixed64, Fixed32
<1>2. Holds([i \in 1..Width(wire) |-> 0], field, wire, m, m)
  BY FixedHolds, Zenon
<1> QED BY <1>1, <1>2, FieldHolds, Zenon DEF WriteFixed

\* A string of any length can be written.
LEMMA WriteLengthDelimitedType ==
    ASSUME NEW field \in 1..7, NEW data \in Seq(Nat)
    PROVE  /\ WriteLengthDelimited(field, data) \in Seq(Nat)
           /\ Len(data) <= Len(WriteLengthDelimited(field, data))
           /\ WriteLengthDelimited(field, data)
                = Key(field, LengthDelimited) \o (VarintEncode(Len(data)) \o data)
<1> DEFINE k == Key(field, LengthDelimited)
           e == VarintEncode(Len(data))
           s == k \o e
           x == s \o data
<1>1. k \in Seq(Nat)
  <2>1. field * 8 + LengthDelimited \in Nat
    BY DEF LengthDelimited
  <2> QED BY <2>1, VarintEncodeStep, Zenon DEF Key
<1>2. e \in Seq(Nat)
  <2>1. Len(data) \in Nat
    OBVIOUS
  <2> QED BY <2>1, VarintEncodeStep, Zenon
<1> HIDE DEF k, e
<1>3. Adjoins(k, e, s)
  BY <1>1, <1>2, Adjoining, Zenon
<1>4. s \in Seq(Nat)
  BY <1>3, Zenon DEF Adjoins
<1>5. x = k \o (e \o data)
  BY <1>1, <1>2, Regroup, Zenon
<1>6. Adjoins(s, data, x)
  BY <1>4, Adjoining, Zenon
<1>7. x \in Seq(Nat) /\ Len(x) = Len(s) + Len(data) /\ Len(s) \in Nat /\ Len(data) \in Nat
  BY <1>6, Zenon DEF Adjoins
<1>8. WriteLengthDelimited(field, data) = x
  BY Zenon DEF WriteLengthDelimited, k, e
<1> HIDE DEF x, s
<1>9. Len(data) <= Len(x)
  <2> DEFINE a == Len(s)
             c == Len(data)
  <2>1. a \in Nat /\ c \in Nat /\ Len(x) = a + c
    BY <1>7, Zenon
  <2> HIDE DEF a, c
  <2>2. c <= Len(x)
    BY <2>1
  <2> QED BY <2>2 DEF c
<1> QED BY <1>5, <1>7, <1>8, <1>9, Zenon DEF k, e

LEMMA WriteBytesCarries ==
    ASSUME NEW field \in 1..7, NEW m, NEW data \in Seq(Nat), Len(data) <= MaxField
    PROVE  Carries(WriteLengthDelimited(field, data), m, SetBytes(m, field, data))
<1>1. LengthDelimited \in 0..5
  BY DEF LengthDelimited
<1>2. Holds(VarintEncode(Len(data)) \o data, field, LengthDelimited, m, SetBytes(m, field, data))
  BY BytesHold, Zenon
<1>3. Carries(Key(field, LengthDelimited) \o (VarintEncode(Len(data)) \o data), m, SetBytes(m, field, data))
  BY <1>1, <1>2, FieldHolds, Zenon
<1>4. WriteLengthDelimited(field, data) = Key(field, LengthDelimited) \o (VarintEncode(Len(data)) \o data)
  BY WriteLengthDelimitedType, Zenon
<1> QED BY <1>3, <1>4, Zenon

-----------------------------------------------------------------------------
(* Messages.                                                               *)

At(m, r) == [ok |-> TRUE, message |-> m, rest |-> r]

\* The k fields that x is made of turn m into m2, whatever follows.
Reads(x, m, m2, k) ==
    /\ x \in Seq(Nat) /\ k \in Nat /\ k <= Len(x)
    /\ \A z \in Seq(Nat) : Repeat(DecodeTurn, At(m, x \o z), k) = At(m2, z)

LEMMA ReadField ==
    ASSUME NEW x, NEW m, NEW m2, Carries(x, m, m2), NEW z \in Seq(Nat)
    PROVE  DecodeTurn(At(m, x \o z)) = At(m2, z)
<1> DEFINE b == x \o z
           d == At(m, b)
<1>1. x \in Seq(Nat) /\ Len(x) \in Nat /\ Len(x) >= 1
  BY DEF Carries
<1>2. DecodeField(m, b) = [ok |-> TRUE, message |-> m2, used |-> Len(x)]
  BY Zenon DEF Carries
<1>3. From(b, Len(x) + 1) = z
  BY <1>1, FromBehind, Zenon
<1>4. Adjoins(x, z, b)
  BY <1>1, Adjoining, Zenon
<1> HIDE DEF b
<1>5. b # <<>>
  <2>1. Len(b) = Len(x) + Len(z) /\ Len(z) \in Nat
    BY <1>4, Zenon DEF Adjoins
  <2>2. Len(b) # 0
    <3> DEFINE a == Len(x)
               c == Len(z)
    <3>1. a \in Nat /\ a >= 1 /\ c \in Nat /\ Len(b) = a + c
      BY <1>1, <2>1, Zenon
    <3> HIDE DEF a, c
    <3> QED BY <3>1
  <2> QED BY <2>2
<1>6. d.ok /\ d.message = m /\ d.rest = b
  BY DEF At
<1> DEFINE next == DecodeField(d.message, d.rest)
<1>7. next = [ok |-> TRUE, message |-> m2, used |-> Len(x)]
  <2> HIDE DEF d
  <2> QED BY <1>2, <1>6, Zenon
<1>8. DecodeTurn(d) = IF ~d.ok \/ d.rest = <<>> THEN d
                      ELSE IF ~next.ok THEN [d EXCEPT !.ok = FALSE]
                      ELSE [d EXCEPT !.message = next.message, !.rest = From(@, next.used + 1)]
  BY Zenon DEF DecodeTurn
<1> HIDE DEF next
<1>9. next.ok /\ next.message = m2 /\ next.used = Len(x)
  BY <1>7
<1>10. DecodeTurn(d) = [d EXCEPT !.message = next.message, !.rest = From(@, next.used + 1)]
  <2> HIDE DEF d
  <2> QED BY <1>5, <1>6, <1>8, <1>9, Zenon
<1>11. DecodeTurn(d) = [d EXCEPT !.message = m2, !.rest = z]
  <2> DEFINE y == From(d.rest, next.used + 1)
  <2>1. y = z
    <3> HIDE DEF d
    <3> QED BY <1>3, <1>6, <1>9, Zenon
  <2>2. DecodeTurn(d) = [d EXCEPT !.message = next.message, !.rest = y]
    <3> HIDE DEF d
    <3> QED BY <1>10, Zenon
  <2> HIDE DEF y, d
  <2> QED BY <1>9, <2>1, <2>2, Zenon
<1>12. DecodeTurn(d) = At(m2, z)
  BY <1>11 DEF At
<1> QED BY <1>12, Zenon DEF b

LEMMA ReadOne ==
    ASSUME NEW x, NEW m, NEW m2, Carries(x, m, m2)
    PROVE  Reads(x, m, m2, 1)
<1>1. x \in Seq(Nat) /\ 1 \in Nat /\ 1 <= Len(x)
  BY DEF Carries
<1>2. ASSUME NEW z \in Seq(Nat) PROVE Repeat(DecodeTurn, At(m, x \o z), 1) = At(m2, z)
  <2> DEFINE d == At(m, x \o z)
  <2>1. 0 \in Nat /\ 0 + 1 = 1
    OBVIOUS
  <2>2. DecodeTurn(d) = At(m2, z)
    BY <1>2, ReadField, Zenon
  <2> HIDE DEF d
  <2>3. Repeat(DecodeTurn, d, 0) = d /\ Repeat(DecodeTurn, d, 0 + 1) = DecodeTurn(Repeat(DecodeTurn, d, 0))
    BY <2>1, DecodingTurns, Zenon
  <2> QED BY <2>1, <2>2, <2>3, Zenon DEF d
<1> QED BY <1>1, <1>2, Zenon DEF Reads

\* Turns after turns.
LEMMA MoreTurns ==
    ASSUME NEW d, NEW k \in Nat, NEW l \in Nat
    PROVE  Repeat(DecodeTurn, d, k + l) = Repeat(DecodeTurn, Repeat(DecodeTurn, d, k), l)
<1> DEFINE e == Repeat(DecodeTurn, d, k)
           A(i) == Repeat(DecodeTurn, d, k + i)
           B(i) == Repeat(DecodeTurn, e, i)
           K == {i \in 0..l : A(i) = B(i)}
<1>1. A(0) = B(0)
  <2>1. k + 0 = k /\ 0 \in Nat
    OBVIOUS
  <2>2. B(0) = e
    <3> HIDE DEF e
    <3> QED BY <2>1, DecodingTurns, Zenon
  <2> QED BY <2>1, <2>2, Zenon
<1>2. ASSUME NEW i \in Nat PROVE A(i + 1) = DecodeTurn(A(i)) /\ B(i + 1) = DecodeTurn(B(i))
  <2>1. k + i \in Nat /\ k + (i + 1) = (k + i) + 1
    OBVIOUS
  <2>2. A(i + 1) = DecodeTurn(A(i))
    BY <2>1, DecodingTurns, Zenon
  <2>3. B(i + 1) = DecodeTurn(B(i))
    <3> HIDE DEF e
    <3> QED BY <1>2, DecodingTurns, Zenon
  <2> QED BY <2>2, <2>3, Zenon
<1> HIDE DEF A, B
<1>3. 0 \in K
  BY <1>1
<1>4. ASSUME NEW i \in 0..l - 1, i \in K PROVE i + 1 \in K
  <2>1. i \in Nat /\ i + 1 \in 0..l
    OBVIOUS
  <2> QED BY <1>2, <1>4, <2>1
<1>5. l \in K
  <2> HIDE DEF K
  <2>1. 0 \in 0..l
    OBVIOUS
  <2> QED BY <1>3, <1>4, <2>1, Climb
<1>6. A(l) = B(l)
  BY <1>5
<1> QED BY <1>6, Zenon DEF A, B

LEMMA ReadOn ==
    ASSUME NEW x, NEW y, NEW m, NEW m2, NEW m3, NEW k, NEW l, Reads(x, m, m2, k), Reads(y, m2, m3, l)
    PROVE  Reads(x \o y, m, m3, k + l)
<1>1. x \in Seq(Nat) /\ y \in Seq(Nat) /\ k \in Nat /\ l \in Nat /\ k <= Len(x) /\ l <= Len(y)
  BY DEF Reads
<1>2. Adjoins(x, y, x \o y)
  BY <1>1, Adjoining, Zenon
<1>3. x \o y \in Seq(Nat) /\ k + l \in Nat /\ k + l <= Len(x \o y)
  <2> DEFINE a == Len(x)
             c == Len(y)
             n == Len(x \o y)
  <2>1. a \in Nat /\ c \in Nat /\ n = a + c /\ x \o y \in Seq(Nat) /\ k <= a /\ l <= c
    BY <1>1, <1>2, Zenon DEF Adjoins
  <2> HIDE DEF a, c, n
  <2>2. k + l \in Nat /\ k + l <= n
    BY <1>1, <2>1
  <2> QED BY <2>1, <2>2, Zenon DEF n
<1>4. ASSUME NEW z \in Seq(Nat) PROVE Repeat(DecodeTurn, At(m, (x \o y) \o z), k + l) = At(m3, z)
  <2> DEFINE d == At(m, (x \o y) \o z)
  <2>1. (x \o y) \o z = x \o (y \o z)
    BY <1>1, <1>4, Regroup, Zenon
  <2>2. y \o z \in Seq(Nat)
    BY <1>1, <1>4, ConcatProperties, Zenon
  <2>3. Repeat(DecodeTurn, d, k) = At(m2, y \o z)
    BY <2>1, <2>2, Zenon DEF Reads
  <2>4. Repeat(DecodeTurn, At(m2, y \o z), l) = At(m3, z)
    BY <1>4, Zenon DEF Reads
  <2> HIDE DEF d
  <2>5. Repeat(DecodeTurn, d, k + l) = Repeat(DecodeTurn, Repeat(DecodeTurn, d, k), l)
    BY <1>1, MoreTurns, Zenon
  <2> QED BY <2>3, <2>4, <2>5, Zenon DEF d
<1> QED BY <1>3, <1>4, Zenon DEF Reads

\* The loop ends with the bytes.
LEMMA ReadAll ==
    ASSUME NEW x, NEW m, NEW k, Reads(x, EmptyMessage, m, k)
    PROVE  DecodeCastMessage(x) = [ok |-> TRUE, message |-> m]
<1> DEFINE d == At(EmptyMessage, x)
           n == Len(x)
           e == At(m, <<>>)
           R(i) == Repeat(DecodeTurn, d, i)
<1>1. x \in Seq(Nat) /\ k \in Nat /\ k <= n /\ n \in Nat
  BY DEF Reads
<1>2. R(k) = e
  <2>1. x \o <<>> = x /\ <<>> \in Seq(Nat)
    BY <1>1
  <2> QED BY <2>1, Zenon DEF Reads
<1>3. DecodeTurn(e) = e
  <2>1. e.rest = <<>>
    BY DEF At
  <2> HIDE DEF e
  <2> QED BY <2>1, Zenon DEF DecodeTurn
<1>4. \A i \in Nat : R(i + 1) = DecodeTurn(R(i))
  <2> HIDE DEF d
  <2> QED BY DecodingTurns, Zenon
<1> HIDE DEF R, e
<1> DEFINE K == {i \in 0..n : R(i) = e}
<1>5. n \in K
  <2>1. k \in K
    BY <1>1, <1>2
  <2>2. ASSUME NEW i \in k..n - 1, i \in K PROVE i + 1 \in K
    <3>1. i \in Nat /\ i + 1 \in 0..n
      BY <1>1
    <3> QED BY <1>3, <1>4, <2>2, <3>1
  <2> HIDE DEF K, n
  <2>3. k \in 0..n
    BY <1>1
  <2> QED BY <1>1, <2>1, <2>2, <2>3, Climb
<1>6. R(n) = e
  BY <1>5
<1>7. DecodeCastMessage(x) = IF R(n).ok THEN [ok |-> TRUE, message |-> R(n).message] ELSE Invalid
  BY Zenon DEF DecodeCastMessage, R, At
<1>8. e.ok /\ e.message = m
  BY DEF e, At
<1> QED BY <1>6, <1>7, <1>8, Zenon

Message(v, s, d, n, b, p) ==
    [version |-> v, source |-> s, dest |-> d, namespace |-> n, binary |-> b, payload |-> p]

\* What each of the fields does.
LEMMA VersionSet ==
    ASSUME NEW v, NEW s, NEW d, NEW n, NEW b, NEW p, NEW c \in Nat
    PROVE  SetVarint(Message(v, s, d, n, b, p), 1, c) = Message(c % 8, s, d, n, b, p)
<1> DEFINE m == Message(v, s, d, n, b, p)
<1>1. SetVarint(m, 1, c) = [m EXCEPT !.version = c % 8]
  BY DEF SetVarint, U32
<1>2. [m EXCEPT !.version = c % 8] = Message(c % 8, s, d, n, b, p)
  BY DEF Message
<1> QED BY <1>1, <1>2, Zenon

Flag(c) == c = 1

LEMMA Flags == Flag(0) = FALSE /\ Flag(1) = TRUE
<1>1. 0 # 1
  OBVIOUS
<1> QED BY <1>1, Zenon DEF Flag

LEMMA BinarySet ==
    ASSUME NEW v, NEW s, NEW d, NEW n, NEW b, NEW p, NEW c
    PROVE  SetVarint(Message(v, s, d, n, b, p), 5, c) = Message(v, s, d, n, Flag(c), p)
<1> DEFINE m == Message(v, s, d, n, b, p)
<1>1. SetVarint(m, 5, c) = [m EXCEPT !.binary = Flag(c)]
  <2>1. 5 # 1
    OBVIOUS
  <2> HIDE DEF m
  <2> QED BY <2>1, Zenon DEF SetVarint, Flag
<1>2. [m EXCEPT !.binary = Flag(c)] = Message(v, s, d, n, Flag(c), p)
  BY DEF Message
<1> QED BY <1>1, <1>2, Zenon

LEMMA UnknownVarint ==
    ASSUME NEW m, NEW c
    PROVE  SetVarint(m, 7, c) = m
BY DEF SetVarint

LEMMA UnknownBytes ==
    ASSUME NEW m, NEW x
    PROVE  SetBytes(m, 7, x) = m /\ SetBytes(m, 1, x) = m
BY DEF SetBytes

LEMMA SettingBytes ==
    ASSUME NEW v, NEW s, NEW d, NEW n, NEW b, NEW p, NEW x
    PROVE  /\ SetBytes(Message(v, s, d, n, b, p), 2, x) = Message(v, x, d, n, b, p)
           /\ SetBytes(Message(v, s, d, n, b, p), 3, x) = Message(v, s, x, n, b, p)
           /\ SetBytes(Message(v, s, d, n, b, p), 4, x) = Message(v, s, d, x, b, p)
           /\ SetBytes(Message(v, s, d, n, b, p), 6, x) = Message(v, s, d, n, b, x)
<1> DEFINE m == Message(v, s, d, n, b, p)
<1>1. /\ SetBytes(m, 2, x) = [m EXCEPT !.source = x] /\ SetBytes(m, 3, x) = [m EXCEPT !.dest = x]
      /\ SetBytes(m, 4, x) = [m EXCEPT !.namespace = x] /\ SetBytes(m, 6, x) = [m EXCEPT !.payload = x]
  BY DEF SetBytes
<1>2. [m EXCEPT !.source = x] = Message(v, x, d, n, b, p)
  BY DEF Message
<1>3. [m EXCEPT !.dest = x] = Message(v, s, x, n, b, p)
  BY DEF Message
<1>4. [m EXCEPT !.namespace = x] = Message(v, s, d, x, b, p)
  BY DEF Message
<1>5. [m EXCEPT !.payload = x] = Message(v, s, d, n, b, x)
  BY DEF Message
<1> QED BY <1>1, <1>2, <1>3, <1>4, <1>5, Zenon

LEMMA EncodedLength ==
    ASSUME NEW s \in Seq(Nat), NEW d \in Seq(Nat), NEW n \in Seq(Nat), NEW p \in Seq(Nat)
    PROVE  /\ EncodeCastMessage(s, d, n, p) \in Seq(Nat)
           /\ Len(s) <= Len(EncodeCastMessage(s, d, n, p)) /\ Len(d) <= Len(EncodeCastMessage(s, d, n, p))
           /\ Len(n) <= Len(EncodeCastMessage(s, d, n, p)) /\ Len(p) <= Len(EncodeCastMessage(s, d, n, p))
<1> DEFINE x1 == WriteVarint(1, 0)
           x2 == WriteLengthDelimited(2, s)
           x3 == WriteLengthDelimited(3, d)
           x4 == WriteLengthDelimited(4, n)
           x5 == WriteVarint(5, 0)
           x6 == WriteLengthDelimited(6, p)
           y2 == x1 \o x2
           y3 == y2 \o x3
           y4 == y3 \o x4
           y5 == y4 \o x5
           y6 == y5 \o x6
<1>1. EncodeCastMessage(s, d, n, p) = y6
  BY Zenon DEF EncodeCastMessage
<1>2. x1 \in Seq(Nat) /\ x5 \in Seq(Nat)
  <2>1. 1 \in 1..7 /\ 5 \in 1..7 /\ 0 \in 0..127
    OBVIOUS
  <2>2. Carries(x1, EmptyMessage, SetVarint(EmptyMessage, 1, 0)) /\ Carries(x5, EmptyMessage, SetVarint(EmptyMessage, 5, 0))
    BY <2>1, WriteVarintCarries, Zenon
  <2> QED BY <2>2, Zenon DEF Carries
<1>3. /\ x2 \in Seq(Nat) /\ Len(s) <= Len(x2) /\ x3 \in Seq(Nat) /\ Len(d) <= Len(x3)
      /\ x4 \in Seq(Nat) /\ Len(n) <= Len(x4) /\ x6 \in Seq(Nat) /\ Len(p) <= Len(x6)
  <2>1. 2 \in 1..7 /\ 3 \in 1..7 /\ 4 \in 1..7 /\ 6 \in 1..7
    OBVIOUS
  <2> QED BY <2>1, WriteLengthDelimitedType, Zenon
<1> HIDE DEF x1, x2, x3, x4, x5, x6
<1>4. Adjoins(x1, x2, y2) /\ y2 \in Seq(Nat)
  BY <1>2, <1>3, Adjoining, Zenon DEF Adjoins
<1> HIDE DEF y2
<1>5. Adjoins(y2, x3, y3) /\ y3 \in Seq(Nat)
  BY <1>3, <1>4, Adjoining, Zenon DEF Adjoins
<1> HIDE DEF y3
<1>6. Adjoins(y3, x4, y4) /\ y4 \in Seq(Nat)
  BY <1>3, <1>5, Adjoining, Zenon DEF Adjoins
<1> HIDE DEF y4
<1>7. Adjoins(y4, x5, y5) /\ y5 \in Seq(Nat)
  BY <1>2, <1>6, Adjoining, Zenon DEF Adjoins
<1> HIDE DEF y5
<1>8. Adjoins(y5, x6, y6) /\ y6 \in Seq(Nat)
  BY <1>3, <1>7, Adjoining, Zenon DEF Adjoins
<1> HIDE DEF y6
<1> DEFINE a1 == Len(x1)
           a2 == Len(x2)
           a3 == Len(x3)
           a4 == Len(x4)
           a5 == Len(x5)
           a6 == Len(x6)
           b2 == Len(y2)
           b3 == Len(y3)
           b4 == Len(y4)
           b5 == Len(y5)
           b6 == Len(y6)
           c1 == Len(s)
           c2 == Len(d)
           c3 == Len(n)
           c4 == Len(p)
<1>9. /\ a1 \in Nat /\ a2 \in Nat /\ a3 \in Nat /\ a4 \in Nat /\ a5 \in Nat /\ a6 \in Nat
      /\ b2 = a1 + a2 /\ b3 = b2 + a3 /\ b4 = b3 + a4 /\ b5 = b4 + a5 /\ b6 = b5 + a6
      /\ c1 <= a2 /\ c2 <= a3 /\ c3 <= a4 /\ c4 <= a6
  BY <1>3, <1>4, <1>5, <1>6, <1>7, <1>8, Zenon DEF Adjoins
<1>10. c1 \in Nat /\ c2 \in Nat /\ c3 \in Nat /\ c4 \in Nat
  OBVIOUS
<1> HIDE DEF a1, a2, a3, a4, a5, a6, b2, b3, b4, b5, b6, c1, c2, c3, c4
<1>11. c1 <= b6 /\ c2 <= b6 /\ c3 <= b6 /\ c4 <= b6
  BY <1>9, <1>10
<1> QED BY <1>1, <1>8, <1>11, Zenon DEF c1, c2, c3, c4, b6

\* Whatever was read before it, a message is read whole.
LEMMA MessageReads ==
    ASSUME NEW s \in Seq(Nat), NEW d \in Seq(Nat), NEW n \in Seq(Nat), NEW p \in Seq(Nat),
           Len(EncodeCastMessage(s, d, n, p)) <= MaxField,
           NEW v0, NEW s0, NEW d0, NEW n0, NEW b0, NEW p0
    PROVE  Reads(EncodeCastMessage(s, d, n, p), Message(v0, s0, d0, n0, b0, p0),
                 Message(0, s, d, n, FALSE, p), 6)
<1> DEFINE m0 == Message(v0, s0, d0, n0, b0, p0)
           m1 == Message(0, s0, d0, n0, b0, p0)
           m2 == Message(0, s, d0, n0, b0, p0)
           m3 == Message(0, s, d, n0, b0, p0)
           m4 == Message(0, s, d, n, b0, p0)
           m5 == Message(0, s, d, n, FALSE, p0)
           m6 == Message(0, s, d, n, FALSE, p)
           x1 == WriteVarint(1, 0)
           x2 == WriteLengthDelimited(2, s)
           x3 == WriteLengthDelimited(3, d)
           x4 == WriteLengthDelimited(4, n)
           x5 == WriteVarint(5, 0)
           x6 == WriteLengthDelimited(6, p)
<1>1. /\ SetVarint(m0, 1, 0) = m1 /\ SetBytes(m1, 2, s) = m2 /\ SetBytes(m2, 3, d) = m3
      /\ SetBytes(m3, 4, n) = m4 /\ SetVarint(m4, 5, 0) = m5 /\ SetBytes(m5, 6, p) = m6
  <2> DEFINE no == FALSE
  <2>1. SetVarint(m0, 1, 0) = m1
    <3>1. 0 \in Nat /\ 0 % 8 = 0
      OBVIOUS
    <3>2. SetVarint(m0, 1, 0) = Message(0 % 8, s0, d0, n0, b0, p0)
      BY <3>1, VersionSet
    <3> QED BY <3>1, <3>2, Zenon
  <2>2. SetBytes(m1, 2, s) = m2
    BY SettingBytes
  <2>3. SetBytes(m2, 3, d) = m3
    BY SettingBytes
  <2>4. SetBytes(m3, 4, n) = m4
    BY SettingBytes
  <2>5. SetVarint(m4, 5, 0) = m5
    <3>1. SetVarint(m4, 5, 0) = Message(0, s, d, n, Flag(0), p0)
      BY BinarySet
    <3> QED BY <3>1, Flags, Zenon
  <2>6. SetBytes(m5, 6, p) = m6
    <3>1. SetBytes(Message(0, s, d, n, no, p0), 6, p) = Message(0, s, d, n, no, p)
      <4> HIDE DEF no
      <4> QED BY SettingBytes
    <3> QED BY <3>1, Zenon
  <2> QED BY <2>1, <2>2, <2>3, <2>4, <2>5, <2>6, Zenon
<1> HIDE DEF m0, m1, m2, m3, m4, m5, m6
<1>2. /\ 1 \in 1..7 /\ 2 \in 1..7 /\ 3 \in 1..7 /\ 4 \in 1..7 /\ 5 \in 1..7 /\ 6 \in 1..7 /\ 0 \in 0..127
      /\ 1 + 1 = 2 /\ 2 + 1 = 3 /\ 3 + 1 = 4 /\ 4 + 1 = 5 /\ 5 + 1 = 6
  OBVIOUS
<1>3. Len(s) <= MaxField /\ Len(d) <= MaxField /\ Len(n) <= MaxField /\ Len(p) <= MaxField
  <2> DEFINE e == Len(EncodeCastMessage(s, d, n, p))
             c1 == Len(s)
             c2 == Len(d)
             c3 == Len(n)
             c4 == Len(p)
  <2>1. c1 <= e /\ c2 <= e /\ c3 <= e /\ c4 <= e /\ e <= MaxField
    BY EncodedLength, Zenon
  <2>2. c1 \in Nat /\ c2 \in Nat /\ c3 \in Nat /\ c4 \in Nat /\ MaxField \in Int
    BY CastWireAssumption
  <2>3. e \in Nat
    <3>1. EncodeCastMessage(s, d, n, p) \in Seq(Nat)
      BY EncodedLength, Zenon
    <3> QED BY <3>1
  <2> HIDE DEF e, c1, c2, c3, c4
  <2>4. c1 <= MaxField /\ c2 <= MaxField /\ c3 <= MaxField /\ c4 <= MaxField
    BY <2>1, <2>2, <2>3
  <2> QED BY <2>4, Zenon DEF c1, c2, c3, c4
<1>4. Carries(x1, m0, m1) /\ Carries(x5, m4, m5)
  BY <1>1, <1>2, WriteVarintCarries, Zenon
<1>5. Carries(x2, m1, m2) /\ Carries(x3, m2, m3)
  BY <1>1, <1>2, <1>3, WriteBytesCarries, Zenon
<1>6. Carries(x4, m3, m4) /\ Carries(x6, m5, m6)
  BY <1>1, <1>2, <1>3, WriteBytesCarries, Zenon
<1> HIDE DEF x1, x2, x3, x4, x5, x6
<1>7. /\ Reads(x1, m0, m1, 1) /\ Reads(x2, m1, m2, 1) /\ Reads(x3, m2, m3, 1)
      /\ Reads(x4, m3, m4, 1) /\ Reads(x5, m4, m5, 1) /\ Reads(x6, m5, m6, 1)
  BY <1>4, <1>5, <1>6, ReadOne, Zenon
<1>8. Reads(x1 \o x2, m0, m2, 1 + 1)
  BY <1>7, ReadOn, Zenon
<1>9. Reads(x1 \o x2 \o x3, m0, m3, 2 + 1)
  BY <1>2, <1>7, <1>8, ReadOn, Zenon
<1>10. Reads(x1 \o x2 \o x3 \o x4, m0, m4, 3 + 1)
  BY <1>2, <1>7, <1>9, ReadOn, Zenon
<1>11. Reads(x1 \o x2 \o x3 \o x4 \o x5, m0, m5, 4 + 1)
  BY <1>2, <1>7, <1>10, ReadOn, Zenon
<1>12. Reads(x1 \o x2 \o x3 \o x4 \o x5 \o x6, m0, m6, 5 + 1)
  BY <1>2, <1>7, <1>11, ReadOn, Zenon
<1>13. EncodeCastMessage(s, d, n, p) = x1 \o x2 \o x3 \o x4 \o x5 \o x6
  BY Zenon DEF EncodeCastMessage, x1, x2, x3, x4, x5, x6
<1> QED BY <1>2, <1>12, <1>13, Zenon DEF m0, m6

\* These bytes are read as this message.
Legible(x, m) == \E k : Reads(x, EmptyMessage, m, k)

LEMMA Blank == EmptyMessage = Message(0, <<>>, <<>>, <<>>, FALSE, <<>>)
BY Zenon DEF EmptyMessage, Message

LEMMA FieldBefore ==
    ASSUME NEW s \in Seq(Nat), NEW d \in Seq(Nat), NEW n \in Seq(Nat), NEW p \in Seq(Nat),
           NEW x, NEW v0, NEW s0, NEW d0, NEW n0, NEW b0, NEW p0,
           Carries(x, EmptyMessage, Message(v0, s0, d0, n0, b0, p0)),
           Len(x \o EncodeCastMessage(s, d, n, p)) <= MaxField
    PROVE  Legible(x \o EncodeCastMessage(s, d, n, p), Message(0, s, d, n, FALSE, p))
<1> DEFINE e == EncodeCastMessage(s, d, n, p)
           m0 == Message(v0, s0, d0, n0, b0, p0)
           m1 == Message(0, s, d, n, FALSE, p)
<1>1. e \in Seq(Nat)
  BY EncodedLength, Zenon
<1>2. x \in Seq(Nat) /\ Len(x) \in Nat
  BY Zenon DEF Carries
<1>3. Len(e) <= MaxField
  <2>1. Adjoins(x, e, x \o e)
    <3> HIDE DEF e
    <3> QED BY <1>1, <1>2, Adjoining, Zenon
  <2> DEFINE a == Len(x)
             c == Len(e)
             l == Len(x \o e)
  <2>2. a \in Nat /\ c \in Nat /\ l = a + c /\ l <= MaxField
    BY <1>2, <2>1, Zenon DEF Adjoins
  <2> HIDE DEF a, c, l
  <2>3. c <= MaxField
    BY <2>2, CastWireAssumption
  <2> QED BY <2>3, Zenon DEF c
<1>4. Reads(e, m0, m1, 6)
  BY <1>3, MessageReads, Zenon
<1>5. Reads(x, EmptyMessage, m0, 1)
  <2> HIDE DEF m0
  <2> QED BY ReadOne, Zenon DEF m0
<1> HIDE DEF e, m0, m1
<1>6. Reads(x \o e, EmptyMessage, m1, 1 + 6)
  BY <1>4, <1>5, ReadOn, Zenon
<1> QED BY <1>6, Zenon DEF Legible, e, m1

LEMMA FieldBehind ==
    ASSUME NEW s \in Seq(Nat), NEW d \in Seq(Nat), NEW n \in Seq(Nat), NEW p \in Seq(Nat),
           NEW x, NEW m2, Carries(x, Message(0, s, d, n, FALSE, p), m2),
           Len(EncodeCastMessage(s, d, n, p) \o x) <= MaxField
    PROVE  Legible(EncodeCastMessage(s, d, n, p) \o x, m2)
<1> DEFINE e == EncodeCastMessage(s, d, n, p)
           m1 == Message(0, s, d, n, FALSE, p)
<1>1. e \in Seq(Nat)
  BY EncodedLength, Zenon
<1>2. x \in Seq(Nat) /\ Len(x) \in Nat
  BY Zenon DEF Carries
<1>3. Len(e) <= MaxField
  <2>1. Adjoins(e, x, e \o x)
    <3> HIDE DEF e
    <3> QED BY <1>1, <1>2, Adjoining, Zenon
  <2> DEFINE a == Len(x)
             c == Len(e)
             l == Len(e \o x)
  <2>2. a \in Nat /\ c \in Nat /\ l = c + a /\ l <= MaxField
    BY <1>2, <2>1, Zenon DEF Adjoins
  <2> HIDE DEF a, c, l
  <2>3. c <= MaxField
    BY <2>2, CastWireAssumption
  <2> QED BY <2>3, Zenon DEF c
<1>4. Reads(e, EmptyMessage, m1, 6)
  <2>1. Reads(e, Message(0, <<>>, <<>>, <<>>, FALSE, <<>>), m1, 6)
    BY <1>3, MessageReads, Zenon
  <2> HIDE DEF e, m1
  <2> QED BY <2>1, Blank, Zenon
<1>5. Reads(x, m1, m2, 1)
  <2> HIDE DEF m1
  <2> QED BY ReadOne, Zenon DEF m1
<1> HIDE DEF e, m1
<1>6. Reads(e \o x, EmptyMessage, m2, 6 + 1)
  BY <1>4, <1>5, ReadOn, Zenon
<1> QED BY <1>6, Zenon DEF Legible, e

LEMMA NoField ==
    ASSUME NEW s \in Seq(Nat), NEW d \in Seq(Nat), NEW n \in Seq(Nat), NEW p \in Seq(Nat),
           Len(EncodeCastMessage(s, d, n, p)) <= MaxField
    PROVE  Legible(EncodeCastMessage(s, d, n, p), Message(0, s, d, n, FALSE, p))
<1> DEFINE e == EncodeCastMessage(s, d, n, p)
           m1 == Message(0, s, d, n, FALSE, p)
<1>1. Reads(e, Message(0, <<>>, <<>>, <<>>, FALSE, <<>>), m1, 6)
  BY MessageReads, Zenon
<1> HIDE DEF e, m1
<1>2. Reads(e, EmptyMessage, m1, 6)
  BY <1>1, Blank, Zenon
<1> QED BY <1>2, Zenon DEF Legible, e, m1

\* The fields that may come with a message, and what they do to it.
LEMMA StrangeFields ==
    ASSUME NEW m
    PROVE  /\ Carries(WriteVarint(7, 127), m, m)
           /\ Carries(WriteFixed(7, Fixed64), m, m) /\ Carries(WriteFixed(7, Fixed32), m, m)
           /\ Carries(WriteLengthDelimited(1, <<>>), m, m)
<1>1. 7 \in 1..7 /\ 1 \in 1..7 /\ 127 \in 0..127
  OBVIOUS
<1>2. Carries(WriteVarint(7, 127), m, m)
  <2>1. Carries(WriteVarint(7, 127), m, SetVarint(m, 7, 127))
    BY <1>1, WriteVarintCarries, Zenon
  <2> QED BY <2>1, UnknownVarint, Zenon
<1>3. Carries(WriteFixed(7, Fixed64), m, m) /\ Carries(WriteFixed(7, Fixed32), m, m)
  BY <1>1, WriteFixedCarries, Zenon
<1>4. Carries(WriteLengthDelimited(1, <<>>), m, m)
  <2>1. <<>> \in Seq(Nat) /\ Len(<<>>) <= MaxField
    BY CastWireAssumption
  <2>2. Carries(WriteLengthDelimited(1, <<>>), m, SetBytes(m, 1, <<>>))
    BY <1>1, <2>1, WriteBytesCarries, Zenon
  <2> QED BY <2>2, UnknownBytes, Zenon
<1> QED BY <1>2, <1>3, <1>4, Zenon

LEMMA StrangeBytes ==
    ASSUME NEW m, NEW e \in Seq(Nat), NEW data \in Seq(Nat), NEW field \in 1..7,
           Len(WriteLengthDelimited(field, data) \o e) <= MaxField
    PROVE  Carries(WriteLengthDelimited(field, data), m, SetBytes(m, field, data))
<1> DEFINE x == WriteLengthDelimited(field, data)
<1>1. x \in Seq(Nat) /\ Len(data) <= Len(x)
  BY WriteLengthDelimitedType, Zenon
<1>2. Adjoins(x, e, x \o e)
  <2> HIDE DEF x
  <2> QED BY <1>1, Adjoining, Zenon
<1> DEFINE a == Len(x)
           b == Len(data)
           c == Len(e)
           l == Len(x \o e)
<1>3. a \in Nat /\ c \in Nat /\ l = a + c /\ l <= MaxField /\ b <= a
  BY <1>1, <1>2, Zenon DEF Adjoins
<1>4. b \in Nat
  OBVIOUS
<1> HIDE DEF a, b, c, l
<1>5. b <= MaxField
  BY <1>3, <1>4, CastWireAssumption
<1>6. Len(data) <= MaxField
  BY <1>5, Zenon DEF b
<1> QED BY <1>6, WriteBytesCarries, Zenon

LEMMA FieldsAgain ==
    ASSUME NEW s, NEW d, NEW n, NEW p
    PROVE  /\ Carries(WriteVarint(1, 65), Message(0, s, d, n, FALSE, p), Message(1, s, d, n, FALSE, p))
           /\ Carries(WriteVarint(5, 1), Message(0, s, d, n, FALSE, p), Message(0, s, d, n, TRUE, p))
<1> DEFINE no == FALSE
           m == Message(0, s, d, n, no, p)
<1>1. 5 \in 1..7 /\ 1 \in 1..7 /\ 65 \in 0..127 /\ 1 \in 0..127 /\ 65 \in Nat /\ 65 % 8 = 1
  OBVIOUS
<1>2. Carries(WriteVarint(1, 65), m, SetVarint(m, 1, 65)) /\ Carries(WriteVarint(5, 1), m, SetVarint(m, 5, 1))
  BY <1>1, WriteVarintCarries, Zenon
<1>3. SetVarint(m, 1, 65) = Message(1, s, d, n, no, p)
  <2>1. SetVarint(m, 1, 65) = Message(65 % 8, s, d, n, no, p)
    <3> HIDE DEF no
    <3> QED BY <1>1, VersionSet
  <2> HIDE DEF no
  <2> QED BY <1>1, <2>1, Zenon
<1>4. SetVarint(m, 5, 1) = Message(0, s, d, n, TRUE, p)
  <2>1. SetVarint(m, 5, 1) = Message(0, s, d, n, Flag(1), p)
    <3> HIDE DEF no
    <3> QED BY BinarySet
  <2> QED BY <2>1, Flags, Zenon
<1> QED BY <1>2, <1>3, <1>4, Zenon

\* A message as it is written and read.
IsPlain(o, s, d, n, p) ==
    /\ o = [bytes |-> EncodeCastMessage(s, d, n, p), reads |-> Message(0, s, d, n, FALSE, p)]
    /\ [o.reads EXCEPT !.version = 1] = Message(1, s, d, n, FALSE, p)
    /\ [o.reads EXCEPT !.binary = TRUE] = Message(0, s, d, n, TRUE, p)

LEMMA PlainIs ==
    ASSUME NEW s, NEW d, NEW n, NEW p
    PROVE  IsPlain(Plain(<<s, d, n, p>>), s, d, n, p)
<1> DEFINE t == <<s, d, n, p>>
           r == [EmptyMessage EXCEPT !.source = s, !.dest = d, !.namespace = n, !.payload = p]
           e == EncodeCastMessage(s, d, n, p)
           no == FALSE
           m == Message(0, s, d, n, no, p)
<1>1. t[1] = s /\ t[2] = d /\ t[3] = n /\ t[4] = p
  OBVIOUS
<1>2. Plain(t) = [bytes |-> e, reads |-> r]
  BY <1>1, Zenon DEF Plain
<1>3. r = m
  <2>1. ASSUME NEW c, NEW a PROVE [Message(0, a, a, a, c, a)
                                     EXCEPT !.source = s, !.dest = d, !.namespace = n, !.payload = p]
                                    = Message(0, s, d, n, c, p)
    <3> DEFINE m0 == Message(0, a, a, a, c, a)
    <3>1. [m0 EXCEPT !.source = s, !.dest = d, !.namespace = n, !.payload = p]
            = [[[[m0 EXCEPT !.source = s] EXCEPT !.dest = d] EXCEPT !.namespace = n] EXCEPT !.payload = p]
      BY Zenon
    <3>2. [m0 EXCEPT !.source = s] = Message(0, s, a, a, c, a)
      BY DEF Message
    <3>3. [Message(0, s, a, a, c, a) EXCEPT !.dest = d] = Message(0, s, d, a, c, a)
      BY DEF Message
    <3>4. [Message(0, s, d, a, c, a) EXCEPT !.namespace = n] = Message(0, s, d, n, c, a)
      BY DEF Message
    <3>5. [Message(0, s, d, n, c, a) EXCEPT !.payload = p] = Message(0, s, d, n, c, p)
      BY DEF Message
    <3> QED BY <3>1, <3>2, <3>3, <3>4, <3>5, Zenon
  <2> QED BY <2>1, Blank, Zenon
<1>4. ASSUME NEW c PROVE [Message(0, s, d, n, c, p) EXCEPT !.version = 1] = Message(1, s, d, n, c, p)
  BY DEF Message
<1>5. ASSUME NEW c, NEW c2 PROVE [Message(0, s, d, n, c, p) EXCEPT !.binary = c2] = Message(0, s, d, n, c2, p)
  BY DEF Message
<1>6. Plain(t) = [bytes |-> e, reads |-> m]
  BY <1>2, <1>3, Zenon
<1>7. Plain(t).reads = m
  <2> HIDE DEF e, m
  <2> QED BY <1>6
<1>8. [m EXCEPT !.version = 1] = Message(1, s, d, n, FALSE, p) /\ [m EXCEPT !.binary = TRUE] = Message(0, s, d, n, TRUE, p)
  BY <1>4, <1>5, Zenon
<1> QED BY <1>6, <1>7, <1>8, Zenon DEF IsPlain

\* Every letter is read as it is to be read.
LEMMA VariantReads ==
    ASSUME NEW s \in Seq(Nat), NEW d \in Seq(Nat), NEW n \in Seq(Nat), NEW p \in Seq(Nat),
           NEW l \in Variants(Plain(<<s, d, n, p>>)), Len(l.bytes) <= MaxFrame
    PROVE  Legible(l.bytes, l.reads) /\ l.bytes \in Seq(Nat) /\ l = [bytes |-> l.bytes, reads |-> l.reads]
<1> DEFINE e == EncodeCastMessage(s, d, n, p)
           m == Message(0, s, d, n, FALSE, p)
           m1 == Message(1, s, d, n, FALSE, p)
           m5 == Message(0, s, d, n, TRUE, p)
           o == Plain(<<s, d, n, p>>)
<1>1. o = [bytes |-> e, reads |-> m] /\ [o.reads EXCEPT !.version = 1] = m1 /\ [o.reads EXCEPT !.binary = TRUE] = m5
  <2>1. IsPlain(o, s, d, n, p)
    BY PlainIs, Zenon
  <2> HIDE DEF o
  <2> QED BY <2>1, Zenon DEF IsPlain
<1>2. e \in Seq(Nat)
  BY EncodedLength, Zenon
<1>3. ASSUME NEW x
      PROVE  /\ Before(x, o) = [bytes |-> x \o e, reads |-> m] /\ Behind(x, o) = [bytes |-> e \o x, reads |-> m]
             /\ [Behind(x, o) EXCEPT !.reads.version = 1] = [bytes |-> e \o x, reads |-> m1]
             /\ [Behind(x, o) EXCEPT !.reads.binary = TRUE] = [bytes |-> e \o x, reads |-> m5]
  <2> HIDE DEF e, m, m1, m5, o
  <2> DEFINE z == e \o x
             y == x \o e
  <2>1. o.bytes = e /\ o.reads = m
    BY <1>1
  <2>2. [m EXCEPT !.version = 1] = m1 /\ [m EXCEPT !.binary = TRUE] = m5
    BY <1>1, <2>1, Zenon
  <2>3. Before(x, o) = [bytes |-> y, reads |-> m] /\ Behind(x, o) = [bytes |-> z, reads |-> m]
    <3>1. Before(x, o) = [o EXCEPT !.bytes = y] /\ Behind(x, o) = [o EXCEPT !.bytes = z]
      BY <2>1, Zenon DEF Before, Behind
    <3> HIDE DEF y, z
    <3> QED BY <1>1, <3>1
  <2>4. ASSUME NEW w, w = [bytes |-> z, reads |-> m]
        PROVE  /\ [w EXCEPT !.reads = [@ EXCEPT !.version = 1]] = [bytes |-> z, reads |-> m1]
               /\ [w EXCEPT !.reads = [@ EXCEPT !.binary = TRUE]] = [bytes |-> z, reads |-> m5]
    <3> HIDE DEF z
    <3>1. w.reads = m
      BY <2>4
    <3>2. ASSUME NEW c PROVE [w EXCEPT !.reads = c] = [bytes |-> z, reads |-> c]
      BY <2>4
    <3> QED BY <2>2, <3>1, <3>2, Zenon
  <2> QED BY <2>3, <2>4, Zenon
<1> DEFINE x1 == WriteVarint(7, 127)
           x2 == WriteFixed(7, Fixed64)
           x3 == WriteLengthDelimited(7, <<2, 2>>)
           x4 == WriteFixed(7, Fixed32)
           x5 == WriteLengthDelimited(1, <<>>)
           x6 == WriteVarint(1, 65)
           x7 == WriteVarint(5, 1)
           x8 == WriteLengthDelimited(6, <<5>>)
<1>4. \/ l = o \/ l = Before(x1, o) \/ l = Before(x2, o) \/ l = Before(x3, o) \/ l = Behind(x4, o)
      \/ l = Behind(x5, o) \/ l = [Behind(x6, o) EXCEPT !.reads.version = 1]
      \/ l = [Behind(x7, o) EXCEPT !.reads.binary = TRUE] \/ l = Before(x8, o)
  <2> HIDE DEF o
  <2> QED BY Zenon DEF Variants, o
<1>5. ASSUME NEW y, NEW r, l = [bytes |-> y, reads |-> r], y \in Seq(Nat), Len(y) <= MaxField => Legible(y, r)
      PROVE  Legible(l.bytes, l.reads) /\ l.bytes \in Seq(Nat) /\ l = [bytes |-> l.bytes, reads |-> l.reads]
  <2>1. l.bytes = y /\ l.reads = r
    BY <1>5
  <2>2. Len(y) <= MaxField
    <3> DEFINE c == Len(y)
    <3>1. c \in Nat
      BY <1>5
    <3>2. c <= MaxFrame
      BY <2>1, Zenon
    <3> HIDE DEF c
    <3>3. c <= MaxField
      BY <3>1, <3>2, CastWireAssumption
    <3> QED BY <3>3, Zenon DEF c
  <2> QED BY <1>5, <2>1, <2>2, Zenon
<1>6. CASE l = o
  <2>1. Len(e) <= MaxField => Legible(e, m)
    BY NoField, Zenon
  <2> HIDE DEF e, m, o
  <2> QED BY <1>1, <1>2, <1>5, <1>6, <2>1, Zenon
<1>7. ASSUME NEW x, Carries(x, EmptyMessage, EmptyMessage), l = Before(x, o)
      PROVE  Legible(l.bytes, l.reads) /\ l.bytes \in Seq(Nat) /\ l = [bytes |-> l.bytes, reads |-> l.reads]
  <2>1. Len(x \o e) <= MaxField => Legible(x \o e, m)
    <3>1. Carries(x, EmptyMessage, Message(0, <<>>, <<>>, <<>>, FALSE, <<>>))
      BY <1>7, Blank, Zenon
    <3> QED BY <3>1, FieldBefore, Zenon
  <2>2. l = [bytes |-> x \o e, reads |-> m]
    <3> HIDE DEF e, m, o
    <3> QED BY <1>3, <1>7, Zenon
  <2> HIDE DEF e, m, o
  <2>3. x \in Seq(Nat)
    BY <1>7, Zenon DEF Carries
  <2>4. x \o e \in Seq(Nat)
    BY <1>2, <2>3, ConcatProperties, Zenon
  <2> QED BY <1>5, <2>1, <2>2, <2>4, Zenon
<1>8. ASSUME NEW x, NEW r, Carries(x, m, r), l = [bytes |-> e \o x, reads |-> r]
      PROVE  Legible(l.bytes, l.reads) /\ l.bytes \in Seq(Nat) /\ l = [bytes |-> l.bytes, reads |-> l.reads]
  <2>1. Len(e \o x) <= MaxField => Legible(e \o x, r)
    BY <1>8, FieldBehind, Zenon
  <2> HIDE DEF e, m, o
  <2>2. x \in Seq(Nat)
    BY <1>8, Zenon DEF Carries
  <2>3. e \o x \in Seq(Nat)
    BY <1>2, <2>2, ConcatProperties, Zenon
  <2> QED BY <1>5, <1>8, <2>1, <2>3, Zenon
<1>9. CASE l = Before(x1, o) \/ l = Before(x2, o)
  <2> HIDE DEF e, m, o
  <2> QED BY <1>7, <1>9, StrangeFields, Zenon
<1>10. CASE l = Behind(x4, o) \/ l = Behind(x5, o)
  <2>1. Carries(x4, m, m) /\ Carries(x5, m, m)
    BY StrangeFields, Zenon
  <2> HIDE DEF e, m, o, x4, x5
  <2> QED BY <1>3, <1>8, <1>10, <2>1, Zenon
<1>11. CASE l = [Behind(x6, o) EXCEPT !.reads.version = 1]
  <2>1. Carries(x6, m, m1)
    BY FieldsAgain, Zenon
  <2> HIDE DEF e, m, m1, o, x6
  <2> QED BY <1>3, <1>8, <1>11, <2>1, Zenon
<1>12. CASE l = [Behind(x7, o) EXCEPT !.reads.binary = TRUE]
  <2>1. Carries(x7, m, m5)
    BY FieldsAgain, Zenon
  <2> HIDE DEF e, m, m5, o, x7
  <2> QED BY <1>3, <1>8, <1>12, <2>1, Zenon
<1>13. CASE l = Before(x3, o)
  <2>1. 7 \in 1..7 /\ <<2, 2>> \in Seq(Nat)
    OBVIOUS
  <2>2. l = [bytes |-> x3 \o e, reads |-> m]
    <3> HIDE DEF e, m, o, x3
    <3> QED BY <1>3, <1>13, Zenon
  <2>3. l.bytes = x3 \o e
    <3> HIDE DEF e, m, o, x3
    <3> QED BY <2>2
  <2>31. x3 \in Seq(Nat)
    BY <2>1, WriteLengthDelimitedType, Zenon
  <2>32. x3 \o e \in Seq(Nat)
    <3> HIDE DEF e, m, o, x3
    <3> QED BY <1>2, <2>31, ConcatProperties, Zenon
  <2>4. Len(x3 \o e) <= MaxField
    <3> DEFINE c == Len(x3 \o e)
    <3> HIDE DEF e, m, o, x3
    <3>1. c \in Nat
      BY <2>32
    <3>2. c <= MaxFrame
      BY <2>3, Zenon
    <3> HIDE DEF c
    <3>3. c <= MaxField
      BY <3>1, <3>2, CastWireAssumption
    <3> QED BY <3>3, Zenon DEF c
  <2>5. Carries(x3, EmptyMessage, SetBytes(EmptyMessage, 7, <<2, 2>>))
    <3> HIDE DEF e, m, o
    <3> QED BY <1>2, <2>1, <2>4, StrangeBytes, Zenon
  <2>6. Carries(x3, EmptyMessage, EmptyMessage)
    BY <2>5, UnknownBytes, Zenon
  <2> HIDE DEF e, m, o, x3
  <2> QED BY <1>7, <1>13, <2>6, Zenon
<1>14. CASE l = Before(x8, o)
  <2>1. 6 \in 1..7 /\ <<5>> \in Seq(Nat)
    OBVIOUS
  <2>2. l = [bytes |-> x8 \o e, reads |-> m]
    <3> HIDE DEF e, m, o, x8
    <3> QED BY <1>3, <1>14, Zenon
  <2>3. l.bytes = x8 \o e
    <3> HIDE DEF e, m, o, x8
    <3> QED BY <2>2
  <2>31. x8 \in Seq(Nat)
    BY <2>1, WriteLengthDelimitedType, Zenon
  <2>32. x8 \o e \in Seq(Nat)
    <3> HIDE DEF e, m, o, x8
    <3> QED BY <1>2, <2>31, ConcatProperties, Zenon
  <2>4. Len(x8 \o e) <= MaxField
    <3> DEFINE c == Len(x8 \o e)
    <3> HIDE DEF e, m, o, x8
    <3>1. c \in Nat
      BY <2>32
    <3>2. c <= MaxFrame
      BY <2>3, Zenon
    <3> HIDE DEF c
    <3>3. c <= MaxField
      BY <3>1, <3>2, CastWireAssumption
    <3> QED BY <3>3, Zenon DEF c
  <2>5. Carries(x8, EmptyMessage, SetBytes(EmptyMessage, 6, <<5>>))
    <3> HIDE DEF e, m, o
    <3> QED BY <1>2, <2>1, <2>4, StrangeBytes, Zenon
  <2> DEFINE no == FALSE
             m0 == Message(0, <<>>, <<>>, <<>>, no, <<5>>)
  <2>6. SetBytes(EmptyMessage, 6, <<5>>) = m0
    <3>1. SetBytes(Message(0, <<>>, <<>>, <<>>, no, <<>>), 6, <<5>>) = m0
      <4> HIDE DEF no
      <4> QED BY SettingBytes
    <3> QED BY <3>1, Blank, Zenon
  <2>7. Carries(x8, EmptyMessage, m0)
    <3> HIDE DEF m0
    <3> QED BY <2>5, <2>6, Zenon
  <2>8. Legible(x8 \o e, m)
    BY <2>4, <2>7, FieldBefore, Zenon
  <2> HIDE DEF e, m, o, x8
  <2> QED BY <1>5, <2>2, <2>32, <2>8, Zenon
<1> QED
  <2> HIDE DEF o, x1, x2, x3, x4, x5, x6, x7, x8
  <2> QED BY <1>4, <1>6, <1>9, <1>10, <1>11, <1>12, <1>13, <1>14, Zenon

LEMMA SeqMonotone ==
    ASSUME NEW X, NEW Y, X \subseteq Y, NEW s \in Seq(X)
    PROVE  s \in Seq(Y)
<1>1. Len(s) \in Nat /\ DOMAIN s = 1..Len(s) /\ \A i \in 1..Len(s) : s[i] \in Y
  BY LenProperties, ElementOfSeq
<1>2. s = [i \in 1..Len(s) |-> s[i]]
  BY <1>1
<1>3. [i \in 1..Len(s) |-> s[i]] \in Seq(Y)
  BY <1>1, IsASeq
<1> QED BY <1>2, <1>3, Zenon

LEMMA LetterReads ==
    ASSUME NEW l \in Letters
    PROVE  /\ l \in Post /\ Len(l.bytes) <= MaxFrame
           /\ DecodeCastMessage(l.bytes) = [ok |-> TRUE, message |-> l.reads]
<1>1. PICK t \in Texts : l \in Variants(Plain(t))
  BY Zenon DEF Letters
<1>2. Len(l.bytes) <= MaxFrame
  BY Zenon DEF Letters
<1>3. PICK s \in Seq(Byte), d \in Seq(Byte), n \in Seq(Byte), p \in Seq(Byte) : t = <<s, d, n, p>>
  BY ByteStreamsAssumption
<1>4. s \in Seq(Nat) /\ d \in Seq(Nat) /\ n \in Seq(Nat) /\ p \in Seq(Nat)
  <2>1. Byte \subseteq Nat
    BY DEF Byte
  <2> QED BY <2>1, SeqMonotone, Zenon
<1>5. l \in Variants(Plain(<<s, d, n, p>>))
  BY <1>1, <1>3, Zenon
<1>6. Legible(l.bytes, l.reads) /\ l.bytes \in Seq(Nat) /\ l = [bytes |-> l.bytes, reads |-> l.reads]
  BY <1>2, <1>4, <1>5, VariantReads, Zenon
<1>7. DecodeCastMessage(l.bytes) = [ok |-> TRUE, message |-> l.reads]
  BY <1>6, ReadAll, Zenon DEF Legible
<1>8. l \in Post
  <2> DEFINE y == l.bytes
             r == l.reads
             R == {k.reads : k \in Letters}
  <2>1. r \in R
    BY Zenon
  <2>2. l = [bytes |-> y, reads |-> r] /\ y \in Seq(Nat)
    BY <1>6, Zenon
  <2>3. [bytes |-> y, reads |-> r] \in [bytes : Seq(Nat), reads : R]
    <3> HIDE DEF y, r, R
    <3> QED BY <2>1, <2>2
  <2> QED BY <2>2, <2>3, Zenon DEF Post
<1> QED BY <1>2, <1>7, <1>8, Zenon

-----------------------------------------------------------------------------
(* The connection's reader thread.                                         *)

LEMMA ListIsSeq ==
    ASSUME NEW X, NEW n \in Nat, NEW f \in [1..n -> X]
    PROVE  f \in Seq(X) /\ Len(f) = n
OBVIOUS

LEMMA MailPost ==
    ASSUME NEW m \in Mails
    PROVE  /\ m \in Seq(Post) /\ Fits(m)
           /\ \A i \in 1..Len(m) : DecodeCastMessage(m[i].bytes) = [ok |-> TRUE, message |-> m[i].reads]
<1>1. PICK n \in 0..MaxFrames : m \in [1..n -> Letters]
  BY DEF Mails
<1>2. n \in Nat
  BY ByteStreamsAssumption
<1>3. \A i \in 1..n : m[i] \in Letters
  BY <1>1
<1>4. \A i \in 1..n : /\ m[i] \in Post /\ Len(m[i].bytes) <= MaxFrame
                      /\ DecodeCastMessage(m[i].bytes) = [ok |-> TRUE, message |-> m[i].reads]
  BY <1>3, LetterReads, Zenon
<1>5. m \in [1..n -> Post]
  <2>1. \A i \in 1..n : m[i] \in Post
    BY <1>4, Zenon
  <2>2. m = [i \in 1..n |-> m[i]]
    BY <1>1
  <2> QED BY <2>1, <2>2, Zenon
<1>6. m \in Seq(Post) /\ Len(m) = n
  BY <1>2, <1>5, ListIsSeq, Zenon
<1> QED BY <1>4, <1>6, Zenon DEF Fits

\* What has been read.
LEMMA MinOfTwo ==
    ASSUME NEW a \in Int, NEW b \in Int
    PROVE  Min({a, b}) \in {a, b} /\ Min({a, b}) <= a /\ Min({a, b}) <= b
<1>1. \E x \in {a, b} : \A y \in {a, b} : x <= y
  OBVIOUS
<1>2. Min({a, b}) \in {a, b} /\ \A y \in {a, b} : Min({a, b}) <= y
  BY <1>1, Zenon DEF Min
<1> QED BY <1>2

\* One read takes the piece up to r.
Reaches(x, p, c, r) == r \in 0..Len(x) /\ p < r /\ c = SubSeq(x, p + 1, r) /\ r = p + Len(c)

LEMMA ChunkReaches ==
    ASSUME stream \in Seq(Nat), at \in 0..Len(stream), at < Len(stream), NEW n \in ReadSizes
    PROVE  Reaches(stream, at, Chunk(n), at + Len(Chunk(n)))
<1> DEFINE l == Len(stream)
           r == Min({at + n, l})
           c == SubSeq(stream, at + 1, r)
<1>1. n \in Nat /\ n > 0
  BY ByteStreamsAssumption
<1>2. l \in Nat /\ at \in 0..l /\ at < l
  OBVIOUS
<1> HIDE DEF l
<1>3. r \in Nat /\ at < r /\ r <= l
  <2>1. at + n \in Int /\ l \in Int
    BY <1>1, <1>2
  <2>2. r \in {at + n, l} /\ r <= at + n /\ r <= l
    BY <2>1, MinOfTwo, Zenon
  <2> HIDE DEF r
  <2> QED BY <1>1, <1>2, <2>2
<1>4. Chunk(n) = c
  BY Zenon DEF Chunk, l
<1> HIDE DEF r
<1>5. Piece(stream, at, r, c)
  BY <1>2, <1>3, Cutting DEF l
<1> HIDE DEF c
<1>6. Len(c) = r - at
  BY <1>5 DEF Piece
<1>7. r = at + Len(c)
  BY <1>2, <1>3, <1>6
<1>8. r \in 0..l
  BY <1>2, <1>3
<1>9. Reaches(stream, at, c, r)
  BY <1>3, <1>7, <1>8, Zenon DEF Reaches, c, l
<1> QED BY <1>4, <1>7, <1>9, Zenon

\* Of a stream of frames: what the accumulator holds.  An error may have
\* lost what one call would have returned; it comes behind all the frames.
Given(m, a) == \E k \in 0..Len(m) : a.frames = [i \in 1..k |-> m[i].bytes]

FramesSound ==
    reader = "Frames" =>
        /\ mail \in Mails
        /\ \E tail : Framed(mail, Len(mail), tail, stream)
        /\ at \in 0..Len(stream)
        /\ \/ Emptied(mail, stream, at, state)
           \/ ended # "No" /\ state.failed = TRUE /\ at > Mark(mail, Len(mail)) /\ Given(mail, state)

LEMMA FramesSoundInit == StreamInit => FramesSound
<1> SUFFICES ASSUME StreamInit, reader = "Frames" PROVE FramesSound
  BY Zenon DEF FramesSound
<1>1. mail \in Mails /\ at = 0 /\ state = NewAccumulator
  BY DEF StreamInit, FramesInit, SegmentsInit
<1>2. PICK tail \in FrameTails : stream = FrameStream(mail, tail)
  BY DEF StreamInit, FramesInit, SegmentsInit
<1>3. mail \in Seq(Post) /\ Fits(mail)
  BY <1>1, MailPost, Zenon
<1>4. Framed(mail, Len(mail), tail, stream)
  BY <1>2, <1>3, Framing, Zenon
<1>5. stream \in Seq(Nat) /\ Mark(mail, 0) = 0 /\ Len(mail) \in Nat
  BY <1>4, Zenon DEF Framed
<1>6. at \in 0..Len(stream)
  BY <1>1, <1>5
<1>7. Kept(mail, stream, 0, 0, NewAccumulator)
  <2>1. SubSeq(stream, 0 + 1, 0) = <<>>
    BY <1>5
  <2>2. [i \in 1..0 |-> mail[i].bytes] = <<>>
    OBVIOUS
  <2>3. 0 \in 0..Len(mail) /\ 0 <= 0
    BY <1>5
  <2>4. NewAccumulator = [buf |-> <<>>, frames |-> <<>>, failed |-> FALSE]
    BY Zenon DEF NewAccumulator
  <2> QED BY <1>5, <2>1, <2>2, <2>3, <2>4, Zenon DEF Kept
<1>8. Done(mail, 0, 0)
  <2>1. CASE Len(mail) = 0
    BY <2>1, Zenon DEF Done
  <2>2. CASE Len(mail) # 0
    <3>1. 1 \in 1..Len(mail) /\ 1 - 1 = 0 /\ 0 + 1 = 1
      BY <1>5, <2>2
    <3>2. Mark(mail, 1) = Mark(mail, 0) + 2 + Len(mail[1].bytes) /\ mail[1].bytes \in Seq(Nat)
      BY <1>4, <3>1 DEF Framed
    <3>3. Len(mail[1].bytes) \in Nat
      BY <3>2
    <3>4. 0 < Mark(mail, 1)
      BY <1>5, <3>2, <3>3
    <3> QED BY <3>1, <3>4, Zenon DEF Done
  <2> QED BY <2>1, <2>2, Zenon
<1>9. Emptied(mail, stream, at, state)
  BY <1>1, <1>7, <1>8, Zenon DEF Emptied
<1> QED BY <1>1, <1>4, <1>6, <1>9, Zenon DEF FramesSound

LEMMA FramesSoundStep == FramesSound /\ [StreamNext]_streamVars => FramesSound'
<1> SUFFICES ASSUME FramesSound, [StreamNext]_streamVars, reader' = "Frames" PROVE FramesSound'
  BY Zenon DEF FramesSound
<1>1. CASE UNCHANGED streamVars
  BY <1>1, Zenon DEF streamVars, FramesSound
<1>2. reader = "Frames"
  BY <1>1 DEF StreamNext, ReadFrames, ReadSegments, ReadStep, EndOfStream, ReadError, streamVars
<1>3. ASSUME NEW n \in ReadSizes, ReadFrames(n) PROVE FramesSound'
  <2> DEFINE r == at + Len(Chunk(n))
  <2>1. ended = "No" /\ at < Len(stream) /\ at' = r /\ mail' = mail /\ stream' = stream /\ reader' = reader
    BY <1>3, Zenon DEF ReadFrames, ReadStep
  <2>2. state' = PushBytes(state, Chunk(n)) /\ ended' = IF state'.failed THEN "Error" ELSE "No"
    BY <1>3, Zenon DEF ReadFrames
  <2>3. mail \in Mails /\ at \in 0..Len(stream) /\ Emptied(mail, stream, at, state)
    BY <1>2, <2>1, Zenon DEF FramesSound
  <2>4. PICK tail : Framed(mail, Len(mail), tail, stream)
    BY <1>2, Zenon DEF FramesSound
  <2>5. stream \in Seq(Nat) /\ Len(mail) \in Nat
    BY <2>4, Zenon DEF Framed
  <2>6. Reaches(stream, at, Chunk(n), r)
    BY <2>1, <2>3, <2>5, ChunkReaches, Zenon
  <2> HIDE DEF r
  <2>7. r \in 0..Len(stream) /\ at <= r /\ Chunk(n) = SubSeq(stream, at + 1, r)
    <3>1. Len(stream) \in Nat
      BY <2>5
    <3> QED BY <2>3, <2>6, <3>1 DEF Reaches
  <2>8. PICK k : Kept(mail, stream, at, k, state)
    BY <2>3, Zenon DEF Emptied
  <2>9. state' = PushBytes(state, SubSeq(stream, at + 1, r))
    BY <2>2, <2>7, Zenon
  <2>10. \/ Emptied(mail, stream, r, state') /\ state'.failed = FALSE
         \/ Lost(mail, Len(mail), r, state, state')
    BY <2>3, <2>4, <2>7, <2>8, <2>9, Pushing, Zenon
  <2>11. CASE Emptied(mail, stream, r, state')
    BY <2>1, <2>3, <2>4, <2>7, <2>11, Zenon DEF FramesSound
  <2>12. CASE Lost(mail, Len(mail), r, state, state')
    <3>1. state'.failed = TRUE /\ state'.frames = state.frames /\ r > Mark(mail, Len(mail))
      BY <2>12, Zenon DEF Lost
    <3>2. ended' # "No"
      BY <2>2, <3>1
    <3>3. k \in 0..Len(mail) /\ state.frames = [i \in 1..k |-> mail[i].bytes]
      <4>1. k \in 0..Len(mail)
        BY <2>8, Zenon DEF Kept
      <4>2. state.frames = [i \in 1..k |-> mail[i].bytes]
        <5> DEFINE b == SubSeq(stream, Mark(mail, k) + 1, at)
                   f == [i \in 1..k |-> mail[i].bytes]
        <5>1. state = [buf |-> b, frames |-> f, failed |-> FALSE]
          BY <2>8, Zenon DEF Kept
        <5> HIDE DEF b, f
        <5>2. state.frames = f
          BY <5>1
        <5> QED BY <5>2, Zenon DEF f
      <4> QED BY <4>1, <4>2, Zenon
    <3>4. Given(mail, state')
      BY <3>1, <3>3, Zenon DEF Given
    <3>5. Given(mail', state')
      BY <2>1, <3>4, Zenon
    <3> QED BY <2>1, <2>3, <2>4, <2>7, <3>1, <3>2, <3>5, Zenon DEF FramesSound
  <2> QED BY <2>10, <2>11, <2>12, Zenon
<1>4. ASSUME NEW n \in ReadSizes PROVE ~ReadSegments(n)
  BY <1>2 DEF ReadSegments
<1>5. CASE EndOfStream \/ ReadError
  <2>1. /\ mail' = mail /\ stream' = stream /\ at' = at /\ reader' = reader
        /\ ended = "No" /\ state' = state
    BY <1>2, <1>5 DEF EndOfStream, ReadError
  <2>2. mail \in Mails /\ at \in 0..Len(stream) /\ Emptied(mail, stream, at, state)
    BY <1>2, <2>1, Zenon DEF FramesSound
  <2>3. PICK tail : Framed(mail, Len(mail), tail, stream)
    BY <1>2, Zenon DEF FramesSound
  <2> QED BY <2>1, <2>2, <2>3, Zenon DEF FramesSound
<1> QED BY <1>1, <1>3, <1>4, <1>5, Zenon DEF StreamNext

LEMMA FramesArrive == FramesSound => MessagesArrive
<1> SUFFICES ASSUME FramesSound, reader = "Frames"
             PROVE  /\ Len(state.frames) <= Len(mail)
                    /\ \A i \in DOMAIN state.frames :
                          DecodeCastMessage(state.frames[i]) = [ok |-> TRUE, message |-> mail[i].reads]
                    /\ ~state.failed => DOMAIN state.frames = SentBefore(at)
                    /\ state.failed => at > Len(FrameStream(mail, <<>>))
  BY Zenon DEF MessagesArrive
<1> DEFINE n == Len(mail)
<1>1. mail \in Mails /\ at \in 0..Len(stream)
  BY Zenon DEF FramesSound
<1>2. /\ mail \in Seq(Post)
      /\ \A i \in 1..n : DecodeCastMessage(mail[i].bytes) = [ok |-> TRUE, message |-> mail[i].reads]
  BY <1>1, MailPost, Zenon
<1>3. PICK tail : Framed(mail, n, tail, stream)
  BY Zenon DEF FramesSound
<1>4. n \in Nat /\ stream \in Seq(Nat) /\ DOMAIN mail = 1..n
  <2>1. n \in Nat /\ stream \in Seq(Nat)
    BY <1>3, Zenon DEF Framed
  <2> QED BY <1>2, <2>1, LenProperties, Zenon
<1>5. /\ \A k \in 0..n : Mark(mail, k) \in Nat
      /\ \A k \in 0..n, i \in 0..n : i <= k => Mark(mail, i) <= Mark(mail, k)
      /\ Len(FrameStream(mail, <<>>)) = Mark(mail, n)
  BY <1>2, Marks, Zenon
<1>6. at \in Nat
  BY <1>1, <1>4
<1>7. ASSUME NEW k \in 0..n, state.frames = [i \in 1..k |-> mail[i].bytes]
      PROVE  /\ Len(state.frames) <= n /\ DOMAIN state.frames = 1..k
             /\ \A i \in DOMAIN state.frames :
                   DecodeCastMessage(state.frames[i]) = [ok |-> TRUE, message |-> mail[i].reads]
  <2> DEFINE f == [i \in 1..k |-> mail[i].bytes]
  <2> HIDE DEF n
  <2>1. k \in Nat /\ k <= n
    BY <1>4, <1>7
  <2>2. DOMAIN f = 1..k /\ \A i \in 1..k : f[i] = mail[i].bytes
    BY Zenon
  <2>3. Len(f) = k
    BY <2>1
  <2>4. \A i \in 1..k : i \in 1..n
    BY <1>4, <2>1
  <2> HIDE DEF f
  <2>5. state.frames = f
    BY <1>7, Zenon DEF f
  <2> QED BY <1>2, <2>1, <2>2, <2>3, <2>4, <2>5, Zenon
<1>8. CASE Emptied(mail, stream, at, state)
  <2>1. PICK k : Kept(mail, stream, at, k, state) /\ Done(mail, at, k)
    BY <1>8, Zenon DEF Emptied
  <2>2. k \in 0..n /\ Mark(mail, k) <= at
    BY <2>1, Zenon DEF Kept
  <2>3. state.frames = [i \in 1..k |-> mail[i].bytes] /\ state.failed = FALSE
    <3> DEFINE b == SubSeq(stream, Mark(mail, k) + 1, at)
               f == [i \in 1..k |-> mail[i].bytes]
    <3>1. state = [buf |-> b, frames |-> f, failed |-> FALSE]
      BY <2>1, Zenon DEF Kept
    <3> HIDE DEF b, f
    <3>2. state.frames = f /\ state.failed = FALSE
      BY <3>1
    <3> QED BY <3>2, Zenon DEF f
  <2>4. ASSUME NEW i \in 1..n PROVE i \in 1..k <=> Mark(mail, i) <= at
    <3> HIDE DEF n
    <3>1. CASE i <= k
      <4>1. i \in 0..n /\ i \in 1..k
        BY <1>4, <2>2, <2>4, <3>1
      <4>2. Mark(mail, i) <= Mark(mail, k) /\ Mark(mail, i) \in Nat /\ Mark(mail, k) \in Nat
        BY <1>5, <2>2, <3>1, <4>1
      <4>3. Mark(mail, i) <= at
        BY <1>6, <2>2, <4>2
      <4> QED BY <4>1, <4>3
    <3>2. CASE ~(i <= k)
      <4>1. k + 1 \in 0..n /\ k + 1 <= i /\ i \in 0..n /\ k # n /\ i \notin 1..k
        BY <1>4, <2>2, <2>4, <3>2
      <4>2. at < Mark(mail, k + 1)
        BY <2>1, <4>1 DEF Done, n
      <4>3. Mark(mail, k + 1) <= Mark(mail, i) /\ Mark(mail, i) \in Nat /\ Mark(mail, k + 1) \in Nat
        BY <1>5, <4>1
      <4>4. ~(Mark(mail, i) <= at)
        BY <1>6, <4>2, <4>3
      <4> QED BY <4>1, <4>4
    <3> QED BY <3>1, <3>2
  <2>5. 1..k = SentBefore(at)
    <3>1. SentBefore(at) = {i \in 1..n : Mark(mail, i) <= at}
      BY <1>4, Zenon DEF SentBefore, Mark
    <3>2. \A i \in 1..k : i \in 1..n
      <4> HIDE DEF n
      <4> QED BY <1>4, <2>2
    <3> HIDE DEF n
    <3> QED BY <2>4, <3>1, <3>2
  <2> QED BY <1>7, <2>2, <2>3, <2>5, Zenon
<1>9. CASE ended # "No" /\ state.failed = TRUE /\ at > Mark(mail, n) /\ Given(mail, state)
  <2>1. PICK k \in 0..n : state.frames = [i \in 1..k |-> mail[i].bytes]
    BY <1>9, Zenon DEF Given
  <2> QED BY <1>5, <1>7, <1>9, <2>1, Zenon
<1> QED BY <1>8, <1>9, Zenon DEF FramesSound

\* For any messages, cut into any pieces: what the reader thread hands over is
\* a beginning of what was sent, each frame is decoded to the message that was
\* sent with it, and a frame that is there is not held back (push_bytes,
\* decode_cast_message).
THEOREM MessagesArriveHolds == StreamSpec => []MessagesArrive
<1>1. StreamInit => FramesSound
  BY FramesSoundInit
<1>2. FramesSound /\ [StreamNext]_streamVars => FramesSound'
  BY FramesSoundStep
<1>3. FramesSound => MessagesArrive
  BY FramesArrive
<1> QED BY <1>1, <1>2, <1>3, PTL DEF StreamSpec

-----------------------------------------------------------------------------
(* The boxes a stream is made of.                                          *)

\* r begins with a whole box of n elements, or nothing can be taken from it.
Boxed(r, n) == r \in Seq(Nat) /\ n = BoxLen(r) /\ n \in Nat /\ n >= 3 /\ n <= Len(r)
Stops(r)    == BoxLen(r) \in {Malformed, Unknown} \/ BoxLen(r) > Len(r)

LEMMA BoxLenType ==
    ASSUME NEW r \in Seq(Nat)
    PROVE  BoxLen(r) = Malformed \/ BoxLen(r) = Unknown \/ (BoxLen(r) \in Nat /\ BoxLen(r) >= 3)
<1>1. Len(r) \in Nat
  OBVIOUS
<1> DEFINE l == Len(r)
           a == r[1]
           d == r[4]
           z == BoxLen(r)
<1>2. \/ l < 3 /\ z = Unknown
      \/ a = 1 /\ l < 5 /\ z = Unknown
      \/ a = 1 /\ l >= 5 /\ z = Sized(d, 5)
      \/ z = Sized(a, 3)
  <2>1. z = CASE l < 3 -> Unknown [] a = 1 /\ l < 5 -> Unknown
              [] a = 1 /\ l >= 5 -> Sized(d, 5) [] OTHER -> Sized(a, 3)
    BY Zenon DEF BoxLen, HeaderLen, LargeLen
  <2> HIDE DEF l, a, d, z
  <2> QED BY <2>1
<1> HIDE DEF l, a, d, z
<1>3. ASSUME NEW v, NEW h \in {3, 5} PROVE Sized(v, h) = Malformed \/ (Sized(v, h) \in Nat /\ Sized(v, h) >= 3)
  BY <1>3, SegmenterAssumption DEF Sized
<1> QED BY <1>2, <1>3, Zenon DEF z

LEMMA TakesOrStops ==
    ASSUME NEW r \in Seq(Nat)
    PROVE  Stops(r) \/ Boxed(r, BoxLen(r))
<1>1. Len(r) \in Nat
  OBVIOUS
<1> DEFINE l == Len(r)
           n == BoxLen(r)
<1>2. n = Malformed \/ n = Unknown \/ (n \in Nat /\ n >= 3)
  BY BoxLenType, Zenon
<1>3. CASE n \in Nat /\ n >= 3
  <2> HIDE DEF l, n
  <2>1. n <= l \/ n > l
    BY <1>1, <1>3 DEF l
  <2> QED BY <1>3, <2>1, Zenon DEF Stops, Boxed, l, n
<1> QED BY <1>2, <1>3, Zenon DEF Stops

\* What comes behind does not matter.
LEMMA BoxLenOn ==
    ASSUME NEW r \in Seq(Nat), NEW c \in Seq(Nat), BoxLen(r) # Unknown
    PROVE  BoxLen(r \o c) = BoxLen(r)
<1> DEFINE u == r \o c
           l == Len(r)
           k == Len(u)
           g == Len(c)
<1>1. Adjoins(r, c, u)
  BY Adjoining, Zenon
<1>2. l \in Nat /\ g \in Nat /\ k = l + g
  BY <1>1, Zenon DEF Adjoins
<1>3. \A i \in 1..l : u[i] = r[i]
  BY <1>1, Zenon DEF Adjoins
<1>4. /\ BoxLen(r) = CASE l < 3 -> Unknown [] r[1] = 1 /\ l < 5 -> Unknown
                       [] r[1] = 1 /\ l >= 5 -> Sized(r[4], 5) [] OTHER -> Sized(r[1], 3)
      /\ BoxLen(u) = CASE k < 3 -> Unknown [] u[1] = 1 /\ k < 5 -> Unknown
                       [] u[1] = 1 /\ k >= 5 -> Sized(u[4], 5) [] OTHER -> Sized(u[1], 3)
  BY Zenon DEF BoxLen, HeaderLen, LargeLen
<1> HIDE DEF u, l, k, g
<1>5. ~(l < 3)
  <2> SUFFICES ASSUME l < 3 PROVE FALSE
    OBVIOUS
  <2>1. BoxLen(r) = Unknown
    BY <1>2, <1>4
  <2> QED BY <2>1
<1>6. u[1] = r[1] /\ k >= 3
  BY <1>2, <1>3, <1>5
<1>7. CASE r[1] = 1
  <2>1. ~(l < 5)
    <3> SUFFICES ASSUME l < 5 PROVE FALSE
      OBVIOUS
    <3>1. BoxLen(r) = Unknown
      BY <1>2, <1>4, <1>5, <1>7
    <3> QED BY <3>1
  <2>2. u[4] = r[4] /\ k >= 5 /\ l >= 5
    BY <1>2, <1>3, <2>1
  <2>3. BoxLen(r) = Sized(r[4], 5) /\ BoxLen(u) = Sized(u[4], 5)
    BY <1>2, <1>4, <1>6, <1>7, <2>2
  <2> QED BY <2>2, <2>3, Zenon DEF u
<1>8. CASE r[1] # 1
  <2>1. BoxLen(r) = Sized(r[1], 3) /\ BoxLen(u) = Sized(u[1], 3)
    BY <1>2, <1>4, <1>5, <1>6, <1>8
  <2> QED BY <1>6, <2>1, Zenon DEF u
<1> QED BY <1>7, <1>8, Zenon

\* A box b is taken from r, d is left; whatever follows.
Opens(r, b, d) ==
    /\ r \in Seq(Nat) /\ b \in Seq(Nat) /\ d \in Seq(Nat) /\ r = b \o d
    /\ BoxLen(r) = Len(b) /\ Len(b) \in Nat /\ Len(d) \in Nat /\ Len(b) >= 3
    /\ Len(r) = Len(b) + Len(d)
    /\ SubSeq(r, 1, Len(b)) = b /\ SubSeq(r, Len(b) + 1, Len(r)) = d

LEMMA Opening ==
    ASSUME NEW r, NEW n, Boxed(r, n)
    PROVE  Opens(r, SubSeq(r, 1, n), SubSeq(r, n + 1, Len(r)))
<1> DEFINE b == SubSeq(r, 1, n)
           d == SubSeq(r, n + 1, Len(r))
<1>1. r \in Seq(Nat) /\ n = BoxLen(r) /\ n \in Nat /\ n >= 3 /\ n <= Len(r) /\ Len(r) \in Nat
  BY DEF Boxed
<1>2. b = SubSeq(r, 0 + 1, n) /\ 0 \in Nat /\ 0 <= n /\ n - 0 = n
  BY <1>1
<1>3. Piece(r, 0, n, SubSeq(r, 0 + 1, n)) /\ Piece(r, n, Len(r), d)
  <2>1. Len(r) <= Len(r)
    BY <1>1
  <2>2. Piece(r, 0, n, SubSeq(r, 0 + 1, n))
    BY <1>1, <1>2, Cutting, Zenon
  <2>3. Piece(r, n, Len(r), SubSeq(r, n + 1, Len(r)))
    BY <1>1, <2>1, Cutting, Zenon
  <2> QED BY <2>2, <2>3, Zenon
<1>4. b \in Seq(Nat) /\ Len(b) = n /\ d \in Seq(Nat) /\ Len(d) = Len(r) - n
  <2>1. b \in Seq(Nat) /\ Len(b) = n - 0
    BY <1>2, <1>3, Zenon DEF Piece
  <2>2. d \in Seq(Nat) /\ Len(d) = Len(r) - n
    BY <1>3, Zenon DEF Piece
  <2> QED BY <1>2, <2>1, <2>2, Zenon
<1>5. SubSeq(r, 0 + 1, n) \o d = SubSeq(r, 0 + 1, Len(r))
  <2>1. r \in Seq(Nat) /\ 0 \in Nat /\ n \in Nat /\ Len(r) \in Nat /\ 0 <= n /\ n <= Len(r) /\ Len(r) <= Len(r)
    BY <1>1
  <2> QED BY <2>1, CuttingOn, Zenon
<1>6. SubSeq(r, 0 + 1, Len(r)) = r
  <2>1. 0 + 1 = 1
    OBVIOUS
  <2> QED BY <1>1, <2>1, SubSeqFull, Zenon
<1>7. r = b \o d
  BY <1>2, <1>5, <1>6, Zenon
<1> DEFINE l == Len(r)
           e == Len(d)
<1>8. e \in Nat /\ l = n + e
  <2>1. e = l - n /\ l \in Nat /\ n <= l /\ n \in Nat
    BY <1>1, <1>4, Zenon
  <2> HIDE DEF e, l
  <2> QED BY <2>1
<1>9. Len(b) = n
  BY <1>4, Zenon
<1> QED BY <1>1, <1>4, <1>7, <1>8, <1>9, Zenon DEF Opens

LEMMA OpensOn ==
    ASSUME NEW r, NEW b, NEW d, Opens(r, b, d), NEW c \in Seq(Nat)
    PROVE  Opens(r \o c, b, d \o c)
<1> DEFINE u == r \o c
           v == d \o c
<1>1. /\ r \in Seq(Nat) /\ b \in Seq(Nat) /\ d \in Seq(Nat) /\ r = b \o d
      /\ BoxLen(r) = Len(b) /\ Len(b) \in Nat /\ Len(b) >= 3
  BY DEF Opens
<1>2. Adjoins(d, c, v) /\ v \in Seq(Nat)
  BY <1>1, Adjoining, Zenon DEF Adjoins
<1>3. u = b \o v
  BY <1>1, Regroup, Zenon
<1>4. BoxLen(r) # Unknown
  BY <1>1 DEF Unknown
<1>5. BoxLen(u) = Len(b)
  BY <1>1, <1>4, BoxLenOn, Zenon
<1> HIDE DEF u, v
<1>6. Adjoins(b, v, u)
  BY <1>1, <1>2, <1>3, Adjoining, Zenon
<1>7. u \in Seq(Nat) /\ Len(v) \in Nat /\ Len(u) = Len(b) + Len(v)
  BY <1>6, Zenon DEF Adjoins
<1>8. From(u, Len(b) + 1) = v /\ SubSeq(u, 1, Len(b)) = b
  BY <1>1, <1>2, <1>3, FromBehind, Zenon
<1>9. SubSeq(u, Len(b) + 1, Len(u)) = v
  BY <1>8, Zenon DEF From
<1> QED BY <1>1, <1>2, <1>3, <1>5, <1>7, <1>8, <1>9, Zenon DEF Opens, u, v

Place(bs, r) == [boxes |-> bs, rest |-> r]

LEMMA NextBoxOpens ==
    ASSUME NEW r, NEW b, NEW d, Opens(r, b, d), NEW bs
    PROVE  NextBox(Place(bs, r)) = Place(Append(bs, b), d)
<1> DEFINE p == Place(bs, r)
           n == BoxLen(r)
<1>1. /\ n = Len(b) /\ SubSeq(r, 1, n) = b /\ SubSeq(r, n + 1, Len(r)) = d
  BY Zenon DEF Opens
<1>2. n \notin {Malformed, Unknown} /\ ~(n > Len(r))
  <2>1. n \in Nat /\ n >= 3 /\ Len(d) \in Nat /\ Len(r) = n + Len(d)
    BY <1>1, Zenon DEF Opens
  <2> HIDE DEF n
  <2> QED BY <2>1 DEF Malformed, Unknown
<1>3. p.boxes = bs /\ p.rest = r
  BY DEF Place
<1> HIDE DEF p
<1>4. NextBox(p) = [boxes |-> Append(p.boxes, SubSeq(p.rest, 1, n)), rest |-> SubSeq(p.rest, n + 1, Len(p.rest))]
  BY <1>2, <1>3, Zenon DEF NextBox
<1> QED BY <1>1, <1>3, <1>4, Zenon DEF Place, p

LEMMA NextBoxStops ==
    ASSUME NEW r, Stops(r), NEW bs
    PROVE  NextBox(Place(bs, r)) = Place(bs, r)
<1> DEFINE p == Place(bs, r)
<1>1. p.rest = r
  BY DEF Place
<1> HIDE DEF p
<1> QED BY <1>1, Zenon DEF NextBox, Stops, p

-----------------------------------------------------------------------------
(* How far the boxes of x have been found: bs, then r; whatever follows.   *)

Start(x) == Place(<<>>, x)

Turned(x, bs, r, k) ==
    /\ k \in Nat /\ k + Len(r) <= Len(x)
    /\ \A c \in Seq(Nat) : Repeat(NextBox, Start(x \o c), k) = Place(bs, r \o c)

ParsesTo(x, bs, r) ==
    /\ x \in Seq(Nat) /\ r \in Seq(Nat) /\ bs \in Seq(Seq(Nat))
    /\ Len(x) \in Nat /\ Len(r) \in Nat /\ Len(bs) \in Nat
    /\ Bytes(bs) \in Seq(Nat) /\ x = Bytes(bs) \o r
    /\ \E k : Turned(x, bs, r, k)

LEMMA ParsesNothing ==
    ASSUME NEW x \in Seq(Nat)
    PROVE  ParsesTo(x, <<>>, x)
<1>1. Len(x) \in Nat /\ 0 \in Nat /\ 0 + Len(x) <= Len(x) /\ <<>> \in Seq(Seq(Nat)) /\ Len(<<>>) \in Nat
  OBVIOUS
<1>2. Bytes(<<>>) = <<>>
  BY FlattenSeqEmpty, Zenon DEF Bytes
<1>3. <<>> \in Seq(Nat) /\ x = <<>> \o x
  OBVIOUS
<1>4. ASSUME NEW c \in Seq(Nat) PROVE Repeat(NextBox, Start(x \o c), 0) = Place(<<>>, x \o c)
  <2> DEFINE p == Start(x \o c)
  <2>1. p = Place(<<>>, x \o c)
    BY Zenon DEF Start
  <2> HIDE DEF p
  <2>2. Repeat(NextBox, p, 0) = p
    BY <1>1, ParsingTurns, Zenon
  <2> QED BY <2>1, <2>2, Zenon DEF p
<1>5. Turned(x, <<>>, x, 0)
  BY <1>1, <1>4, Zenon DEF Turned
<1> QED BY <1>1, <1>2, <1>3, <1>5, Zenon DEF ParsesTo

LEMMA ParsesOn ==
    ASSUME NEW x, NEW bs, NEW r, ParsesTo(x, bs, r), NEW c \in Seq(Nat)
    PROVE  ParsesTo(x \o c, bs, r \o c)
<1>1. /\ x \in Seq(Nat) /\ r \in Seq(Nat) /\ bs \in Seq(Seq(Nat)) /\ Len(bs) \in Nat
      /\ Bytes(bs) \in Seq(Nat) /\ x = Bytes(bs) \o r
  BY Zenon DEF ParsesTo
<1>2. PICK k : Turned(x, bs, r, k)
  BY Zenon DEF ParsesTo
<1> DEFINE u == x \o c
           v == r \o c
<1>3. Adjoins(x, c, u) /\ Adjoins(r, c, v)
  BY <1>1, Adjoining, Zenon
<1>4. u \in Seq(Nat) /\ v \in Seq(Nat) /\ Len(u) \in Nat /\ Len(v) \in Nat
  <2>1. u \in Seq(Nat) /\ v \in Seq(Nat)
    BY <1>3, Zenon DEF Adjoins
  <2> HIDE DEF u, v
  <2> QED BY <2>1
<1>5. u = Bytes(bs) \o v
  BY <1>1, Regroup, Zenon
<1>6. k + Len(v) <= Len(u)
  <2> DEFINE a == Len(x)
             b == Len(r)
             d == Len(c)
             e == Len(u)
             f == Len(v)
  <2>1. a \in Nat /\ b \in Nat /\ d \in Nat /\ e = a + d /\ f = b + d /\ k \in Nat /\ k + b <= a
    <3>1. k \in Nat /\ k + b <= a
      BY <1>2, Zenon DEF Turned
    <3>2. a \in Nat /\ d \in Nat /\ e = a + d
      BY <1>3, Zenon DEF Adjoins
    <3>3. b \in Nat /\ f = b + d
      BY <1>3, Zenon DEF Adjoins
    <3> QED BY <3>1, <3>2, <3>3, Zenon
  <2> HIDE DEF a, b, d, e, f
  <2>2. k + f <= e
    BY <2>1
  <2> QED BY <2>2, Zenon DEF e, f
<1>7. ASSUME NEW z \in Seq(Nat) PROVE Repeat(NextBox, Start(u \o z), k) = Place(bs, v \o z)
  <2>1. u \o z = x \o (c \o z) /\ v \o z = r \o (c \o z)
    <3>1. x \in Seq(Nat) /\ r \in Seq(Nat)
      BY <1>1, Zenon
    <3>2. (x \o c) \o z = x \o (c \o z)
      BY <1>7, <3>1, Regroup, Zenon
    <3>3. (r \o c) \o z = r \o (c \o z)
      BY <1>7, <3>1, Regroup, Zenon
    <3> QED BY <3>2, <3>3, Zenon
  <2>2. c \o z \in Seq(Nat)
    BY <1>7, ConcatProperties, Zenon
  <2>3. Repeat(NextBox, Start(x \o (c \o z)), k) = Place(bs, r \o (c \o z))
    BY <1>2, <2>2, Zenon DEF Turned
  <2> QED BY <2>1, <2>3, Zenon
<1> HIDE DEF u, v
<1>8. k \in Nat
  BY <1>2, Zenon DEF Turned
<1>9. Turned(u, bs, v, k)
  BY <1>6, <1>7, <1>8, Zenon DEF Turned
<1>10. ParsesTo(u, bs, v)
  BY <1>1, <1>4, <1>5, <1>9, Zenon DEF ParsesTo
<1> QED BY <1>10, Zenon DEF u, v

LEMMA ParsesOne ==
    ASSUME NEW x, NEW bs, NEW r, ParsesTo(x, bs, r), NEW b, NEW d, Opens(r, b, d)
    PROVE  ParsesTo(x, Append(bs, b), d)
<1>1. /\ x \in Seq(Nat) /\ r \in Seq(Nat) /\ bs \in Seq(Seq(Nat)) /\ Len(bs) \in Nat
      /\ Bytes(bs) \in Seq(Nat) /\ x = Bytes(bs) \o r /\ Len(x) \in Nat /\ Len(r) \in Nat
  BY Zenon DEF ParsesTo
<1>2. PICK k : Turned(x, bs, r, k)
  BY Zenon DEF ParsesTo
<1>3. b \in Seq(Nat) /\ d \in Seq(Nat) /\ r = b \o d /\ Len(d) \in Nat
  BY Zenon DEF Opens
<1> DEFINE cs == Append(bs, b)
<1>4. cs \in Seq(Seq(Nat)) /\ Len(cs) = Len(bs) + 1
  BY <1>1, <1>3, AppendProperties
<1>5. Len(cs) \in Nat
  BY <1>1, <1>4
<1>6. Bytes(cs) = Bytes(bs) \o b
  BY <1>1, <1>3, FlattenSeqAppend, Zenon DEF Bytes
<1>7. Bytes(cs) \in Seq(Nat) /\ x = Bytes(cs) \o d
  <2> HIDE DEF cs
  <2>1. Bytes(bs) \o b \in Seq(Nat)
    BY <1>1, <1>3, ConcatProperties, Zenon
  <2>2. (Bytes(bs) \o b) \o d = Bytes(bs) \o (b \o d)
    <3>1. Bytes(bs) \in Seq(Nat) /\ b \in Seq(Nat) /\ d \in Seq(Nat)
      BY <1>1, <1>3, Zenon
    <3> QED BY <3>1, Regroup, Zenon
  <2> QED BY <1>1, <1>3, <1>6, <2>1, <2>2, Zenon
<1>8. k + 1 \in Nat /\ (k + 1) + Len(d) <= Len(x)
  <2> DEFINE a == Len(x)
             e == Len(r)
             f == Len(d)
             g == Len(b)
  <2>1. /\ k \in Nat /\ a \in Nat /\ f \in Nat /\ e \in Nat /\ g \in Nat /\ g >= 3
        /\ k + e <= a /\ e = g + f
    <3>1. k \in Nat /\ k + e <= a
      BY <1>2, Zenon DEF Turned
    <3>2. g \in Nat /\ g >= 3 /\ e = g + f
      BY Zenon DEF Opens
    <3> QED BY <1>1, <1>3, <3>1, <3>2, Zenon
  <2> HIDE DEF a, e, f, g
  <2>2. k + 1 \in Nat /\ (k + 1) + f <= a
    BY <2>1
  <2> QED BY <2>2, Zenon DEF a, f
<1>9. ASSUME NEW c \in Seq(Nat) PROVE Repeat(NextBox, Start(x \o c), k + 1) = Place(cs, d \o c)
  <2> DEFINE p == Start(x \o c)
             q == r \o c
  <2>1. Repeat(NextBox, p, k) = Place(bs, q) /\ k \in Nat
    BY <1>2, <1>9, Zenon DEF Turned
  <2>2. NextBox(Place(bs, q)) = Place(cs, d \o c)
    <3>1. Opens(q, b, d \o c)
      BY <1>9, OpensOn, Zenon
    <3> HIDE DEF q
    <3>2. NextBox(Place(bs, q)) = Place(Append(bs, b), d \o c)
      BY <3>1, NextBoxOpens
    <3> QED BY <3>2, Zenon
  <2> HIDE DEF p, q
  <2>3. Repeat(NextBox, p, k + 1) = NextBox(Repeat(NextBox, p, k))
    BY <2>1, ParsingTurns, Zenon
  <2> QED BY <2>1, <2>2, <2>3, Zenon DEF p
<1> HIDE DEF cs
<1>10. Turned(x, cs, d, k + 1)
  BY <1>8, <1>9, Zenon DEF Turned
<1>11. ParsesTo(x, cs, d)
  BY <1>1, <1>3, <1>4, <1>5, <1>7, <1>10, Zenon DEF ParsesTo
<1> QED BY <1>11, Zenon DEF cs

\* Where nothing more can be taken, these are the boxes.
LEMMA ParsedIs ==
    ASSUME NEW x, NEW bs, NEW r, ParsesTo(x, bs, r), Stops(r)
    PROVE  Boxes(x) = bs /\ Broken(x) = (BoxLen(r) = Malformed)
<1>1. x \in Seq(Nat) /\ Len(x) \in Nat /\ Len(r) \in Nat /\ r \in Seq(Nat)
  BY Zenon DEF ParsesTo
<1>2. PICK k : Turned(x, bs, r, k)
  BY Zenon DEF ParsesTo
<1> DEFINE p == Start(x)
           n == Len(x)
           e == Place(bs, r)
           R(i) == Repeat(NextBox, p, i)
<1>3. R(k) = e /\ k \in Nat /\ k \in 0..n
  <2>1. x \o <<>> = x /\ r \o <<>> = r /\ <<>> \in Seq(Nat)
    BY <1>1
  <2>2. R(k) = e
    BY <1>2, <2>1, Zenon DEF Turned
  <2>3. k \in Nat /\ k + Len(r) <= n
    BY <1>2, Zenon DEF Turned
  <2> HIDE DEF n
  <2>4. n \in Nat
    BY <1>1, Zenon DEF n
  <2> QED BY <1>1, <2>2, <2>3, <2>4
<1>4. NextBox(e) = e
  BY NextBoxStops, Zenon
<1>5. \A i \in Nat : R(i + 1) = NextBox(R(i))
  <2> HIDE DEF p
  <2> QED BY ParsingTurns, Zenon
<1>6. n \in Nat
  BY <1>1
<1> HIDE DEF R, e, n
<1> DEFINE K == {i \in 0..n : R(i) = e}
<1>7. n \in K
  <2>1. k \in K
    BY <1>3
  <2>2. ASSUME NEW i \in k..n - 1, i \in K PROVE i + 1 \in K
    <3>1. i \in Nat /\ i + 1 \in 0..n
      BY <1>3, <1>6
    <3> QED BY <1>4, <1>5, <2>2, <3>1
  <2> HIDE DEF K
  <2> QED BY <1>3, <1>6, <2>1, <2>2, Climb
<1>8. R(n) = e
  BY <1>7
<1>9. Parsed(x) = e
  BY <1>8, Zenon DEF Parsed, R, n, Start, Place
<1>10. e.boxes = bs /\ e.rest = r
  BY DEF e, Place
<1>11. Parsed(x).boxes = bs /\ Parsed(x).rest = r
  BY <1>9, <1>10, Zenon
<1> QED BY <1>11, Zenon DEF Boxes, Broken

-----------------------------------------------------------------------------
(* How the segments of the boxes change when there is one more.            *)

LEMMA MaxExists ==
    ASSUME NEW n \in Nat, NEW S, S \subseteq 1..n, S # {}
    PROVE  \E m \in S : \A y \in S : m >= y
<1> SUFFICES ASSUME ~\E m \in S : \A y \in S : m >= y PROVE FALSE
  OBVIOUS
<1> DEFINE K == {i \in 0..n : \A y \in S : y <= n - i}
<1>1. 0 \in K
  OBVIOUS
<1>2. ASSUME NEW i \in 0..n - 1, i \in K PROVE i + 1 \in K
  <2>1. \A y \in S : y <= n - i /\ y \in Int
    BY <1>2
  <2>2. n - i \notin S
    BY <2>1
  <2>3. \A y \in S : y <= n - (i + 1)
    BY <2>1, <2>2
  <2> QED BY <2>3
<1>3. n \in K
  <2> HIDE DEF K
  <2>1. 0 \in 0..n
    OBVIOUS
  <2> QED BY <1>1, <1>2, <2>1, Climb
<1>4. PICK y \in S : TRUE
  OBVIOUS
<1>5. y <= n - n /\ y \in 1..n
  BY <1>3
<1> QED BY <1>5

LEMMA MaxIs ==
    ASSUME NEW n \in Nat, NEW S, S \subseteq 1..n, S # {}
    PROVE  Max(S) \in S /\ \A y \in S : Max(S) >= y
BY MaxExists, Zenon DEF Max

LEMMA MinIs ==
    ASSUME NEW n \in Nat, NEW S, S \subseteq 1..n, S # {}
    PROVE  Min(S) \in S /\ \A y \in S : Min(S) <= y
<1> DEFINE T == {(n + 1) - y : y \in S}
<1>1. T \subseteq 1..n /\ T # {}
  <2>1. \A y \in S : y \in 1..n
    OBVIOUS
  <2>2. \A y \in S : (n + 1) - y \in 1..n
    BY <2>1
  <2>3. PICK y \in S : TRUE
    OBVIOUS
  <2> QED BY <2>2, <2>3, Zenon
<1>2. PICK m \in T : \A y \in T : m >= y
  <2> HIDE DEF T
  <2> QED BY <1>1, MaxExists
<1>3. PICK k \in S : m = (n + 1) - k
  BY <1>2
<1>4. \A y \in S : k <= y
  <2> SUFFICES ASSUME NEW y \in S PROVE k <= y
    OBVIOUS
  <2>1. m >= (n + 1) - y
    BY <1>2
  <2> QED BY <1>3, <2>1
<1>5. \E x \in S : \A y \in S : x <= y
  BY <1>3, <1>4
<1> QED BY <1>5, Zenon DEF Min

\* The boxes cs are the n boxes bs and b.
Grows(bs, b, cs, n) ==
    /\ bs \in Seq(Seq(Nat)) /\ b \in Seq(Nat) /\ cs = Append(bs, b) /\ cs \in Seq(Seq(Nat))
    /\ n \in Nat /\ Len(bs) = n /\ Len(cs) = n + 1
    /\ \A i \in 1..n : cs[i] = bs[i]
    /\ cs[n + 1] = b

LEMMA Growing ==
    ASSUME NEW bs \in Seq(Seq(Nat)), NEW b \in Seq(Nat)
    PROVE  Grows(bs, b, Append(bs, b), Len(bs))
<1>1. Len(bs) \in Nat
  OBVIOUS
<1> DEFINE cs == Append(bs, b)
<1>2. /\ cs \in Seq(Seq(Nat)) /\ Len(cs) = Len(bs) + 1
      /\ \A i \in 1..Len(bs) : cs[i] = bs[i]
      /\ cs[Len(bs) + 1] = b
  BY AppendProperties
<1> QED BY <1>1, <1>2, Zenon DEF Grows

LEMMA PlacesOn ==
    ASSUME NEW bs, NEW b, NEW cs, NEW n, Grows(bs, b, cs, n), NEW kind,
           NEW i \in Nat, i >= 1, NEW j \in Int, j <= n
    PROVE  Places(cs, kind, i, j) = Places(bs, kind, i, j)
<1>1. \A k \in i..j : k \in 1..n
  BY DEF Grows
<1>2. \A k \in i..j : cs[k] = bs[k]
  BY <1>1 DEF Grows
<1> QED BY <1>2, Zenon DEF Places

LEMMA PlacesNew ==
    ASSUME NEW bs, NEW b, NEW cs, NEW n, Grows(bs, b, cs, n), NEW kind, NEW i \in Nat, i >= 1, i <= n + 1
    PROVE  Places(cs, kind, i, n + 1)
             = Places(bs, kind, i, n) \cup (IF b[2] = kind THEN {n + 1} ELSE {})
<1>1. n \in Nat /\ cs[n + 1] = b
  BY DEF Grows
<1>2. \A k \in i..n : k \in 1..n /\ k \in i..n + 1
  BY <1>1
<1>3. \A k \in i..n : cs[k] = bs[k]
  BY <1>2 DEF Grows
<1>4. \A k \in i..n + 1 : k = n + 1 \/ k \in i..n
  BY <1>1
<1>5. n + 1 \in i..n + 1 /\ n + 1 \notin i..n
  BY <1>1
<1>6. ASSUME NEW k PROVE k \in Places(cs, kind, i, n + 1) <=> k \in Places(bs, kind, i, n) \/ (k = n + 1 /\ b[2] = kind)
  BY <1>1, <1>2, <1>3, <1>4, <1>5, Zenon DEF Places
<1> QED BY <1>6, Zenon

LEMMA PlacesIn ==
    ASSUME NEW bs, NEW kind, NEW n \in Nat, NEW j \in 0..n
    PROVE  Places(bs, kind, 1, j) \subseteq 1..n /\ Places(bs, kind, 1, j) \subseteq 1..j
BY DEF Places

LEMMA InFragmentOn ==
    ASSUME NEW bs, NEW b, NEW cs, NEW n, Grows(bs, b, cs, n), NEW j \in Int, j <= n
    PROVE  InFragment(cs, j) <=> InFragment(bs, j)
<1>1. 1 \in Nat /\ 1 >= 1
  OBVIOUS
<1>2. Places(cs, Moof, 1, j) = Places(bs, Moof, 1, j)
  BY <1>1, PlacesOn
<1>3. \A i \in Places(bs, Moof, 1, j) : i \in Nat /\ i >= 1
  BY DEF Places
<1>4. \A i \in Places(bs, Moof, 1, j) : Places(cs, Mdat, i, j) = Places(bs, Mdat, i, j)
  BY <1>3, PlacesOn
<1> QED BY <1>2, <1>4, Zenon DEF InFragment

LEMMA InFragmentNew ==
    ASSUME NEW bs, NEW b, NEW cs, NEW n, Grows(bs, b, cs, n)
    PROVE  InFragment(cs, n + 1) <=> b[2] = Moof \/ (InFragment(bs, n) /\ b[2] # Mdat)
<1>1. n \in Nat /\ 1 \in Nat /\ 1 >= 1 /\ 1 <= n + 1 /\ n + 1 \in Nat /\ n + 1 >= 1 /\ n + 1 <= n + 1
  BY DEF Grows
<1>2. Places(cs, Moof, 1, n + 1) = Places(bs, Moof, 1, n) \cup (IF b[2] = Moof THEN {n + 1} ELSE {})
  BY <1>1, PlacesNew
<1>3. \A i \in Places(bs, Moof, 1, n) : i \in Nat /\ i >= 1 /\ i <= n + 1
  BY <1>1 DEF Places
<1>4. \A i \in Places(bs, Moof, 1, n) :
         Places(cs, Mdat, i, n + 1) = Places(bs, Mdat, i, n) \cup (IF b[2] = Mdat THEN {n + 1} ELSE {})
  BY <1>3, PlacesNew
<1>5. Places(cs, Mdat, n + 1, n + 1) = Places(bs, Mdat, n + 1, n) \cup (IF b[2] = Mdat THEN {n + 1} ELSE {})
  BY <1>1, PlacesNew
<1>6. Places(bs, Mdat, n + 1, n) = {}
  BY <1>1 DEF Places
<1>7. Moof # Mdat
  BY DEF Moof, Mdat
<1>8. CASE b[2] = Moof
  <2>1. n + 1 \in Places(cs, Moof, 1, n + 1)
    BY <1>2, <1>8, Zenon
  <2>2. Places(cs, Mdat, n + 1, n + 1) = {}
    BY <1>5, <1>6, <1>7, <1>8
  <2> QED BY <1>8, <2>1, <2>2, Zenon DEF InFragment
<1>9. CASE b[2] = Mdat
  <2>1. Places(cs, Moof, 1, n + 1) = Places(bs, Moof, 1, n)
    BY <1>2, <1>7, <1>9
  <2>2. \A i \in Places(bs, Moof, 1, n) : n + 1 \in Places(cs, Mdat, i, n + 1)
    BY <1>4, <1>9
  <2> QED BY <1>7, <1>9, <2>1, <2>2, Zenon DEF InFragment
<1>10. CASE b[2] # Moof /\ b[2] # Mdat
  <2>1. Places(cs, Moof, 1, n + 1) = Places(bs, Moof, 1, n)
    BY <1>2, <1>10
  <2>2. \A i \in Places(bs, Moof, 1, n) : Places(cs, Mdat, i, n + 1) = Places(bs, Mdat, i, n)
    BY <1>4, <1>10
  <2> QED BY <1>10, <2>1, <2>2, Zenon DEF InFragment
<1> QED BY <1>8, <1>9, <1>10, Zenon

\* A fragment in progress has not ended.
LEMMA NotEnded ==
    ASSUME NEW bs, NEW n \in Nat, Len(bs) = n, InFragment(bs, n)
    PROVE  ~EndsAt(bs, n) /\ n >= 1 /\ Places(bs, Moof, 1, n) # {}
<1>1. PICK i \in Places(bs, Moof, 1, n) : Places(bs, Mdat, i, n) = {}
  BY DEF InFragment
<1>2. i \in 1..n
  BY <1>1 DEF Places
<1>3. bs[n][2] # Mdat
  BY <1>1, <1>2 DEF Places
<1>4. ~(n < Len(bs)) /\ n >= 1
  BY <1>2
<1> QED BY <1>1, <1>3, <1>4, Zenon DEF EndsAt

LEMMA EndsAtOn ==
    ASSUME NEW bs, NEW b, NEW cs, NEW n, Grows(bs, b, cs, n), NEW j \in 1..n
    PROVE  EndsAt(cs, j) <=> EndsAt(bs, j) \/ (j = n /\ InFragment(bs, n) /\ b[2] = Moof)
<1>1. /\ n \in Nat /\ Len(bs) = n /\ Len(cs) = n + 1 /\ cs[n + 1] = b
      /\ \A i \in 1..n : cs[i] = bs[i]
  BY DEF Grows
<1>2. j - 1 \in Int /\ j - 1 <= n /\ j \in Int /\ j <= n /\ j < n + 1
  BY <1>1
<1>3. (InFragment(cs, j - 1) <=> InFragment(bs, j - 1)) /\ (InFragment(cs, j) <=> InFragment(bs, j))
  BY <1>2, InFragmentOn, Zenon
<1>4. cs[j] = bs[j]
  BY <1>1
<1>5. CASE j = n
  <2>1. ~(j < Len(bs)) /\ j < Len(cs) /\ cs[j + 1] = b
    BY <1>1, <1>5
  <2> QED BY <1>3, <1>4, <1>5, <2>1, Zenon DEF EndsAt
<1>6. CASE j # n
  <2>1. j < Len(bs) /\ j < Len(cs) /\ j + 1 \in 1..n
    BY <1>1, <1>6
  <2>2. cs[j + 1] = bs[j + 1]
    BY <1>1, <2>1
  <2> QED BY <1>3, <1>4, <1>6, <2>1, <2>2, Zenon DEF EndsAt
<1> QED BY <1>5, <1>6, Zenon

LEMMA EndsAtNew ==
    ASSUME NEW bs, NEW b, NEW cs, NEW n, Grows(bs, b, cs, n)
    PROVE  EndsAt(cs, n + 1) <=> InFragment(bs, n) /\ b[2] = Mdat
<1>1. n \in Nat /\ Len(cs) = n + 1 /\ cs[n + 1] = b
  BY DEF Grows
<1>2. (n + 1) - 1 = n /\ n \in Int /\ n <= n /\ ~(n + 1 < Len(cs))
  BY <1>1
<1>3. InFragment(cs, n) <=> InFragment(bs, n)
  BY <1>2, InFragmentOn, Zenon
<1> QED BY <1>1, <1>2, <1>3, Zenon DEF EndsAt

\* Stretches of boxes.
LEMMA SliceType ==
    ASSUME NEW bs \in Seq(Seq(Nat)), NEW m \in Nat, m >= 1, NEW j \in Int, j <= Len(bs)
    PROVE  SubSeq(bs, m, j) \in Seq(Seq(Nat)) /\ Bytes(SubSeq(bs, m, j)) \in Seq(Nat)
<1>1. \A i \in m..j : bs[i] \in Seq(Nat)
  <2> SUFFICES ASSUME NEW i \in m..j PROVE bs[i] \in Seq(Nat)
    OBVIOUS
  <2>1. i \in 1..Len(bs)
    <3>1. Len(bs) \in Nat
      OBVIOUS
    <3> QED BY <3>1
  <2> QED BY <2>1, ElementOfSeq
<1>2. SubSeq(bs, m, j) \in Seq(Seq(Nat))
  <2>1. m \in Int
    OBVIOUS
  <2> QED BY <1>1, <2>1, SubSeqProperties
<1> QED BY <1>2, FlattenSeqType, Zenon DEF Bytes

LEMMA SliceOn ==
    ASSUME NEW bs, NEW b, NEW cs, NEW n, Grows(bs, b, cs, n), NEW m \in Nat, m >= 1, NEW j \in Int, j <= n
    PROVE  SubSeq(cs, m, j) = SubSeq(bs, m, j)
<1>1. n \in Nat /\ \A i \in 1..n : cs[i] = bs[i] /\ bs[i] \in Seq(Nat)
  <2>1. bs \in Seq(Seq(Nat)) /\ n \in Nat /\ Len(bs) = n /\ \A i \in 1..n : cs[i] = bs[i]
    BY DEF Grows
  <2>2. \A i \in 1..n : bs[i] \in Seq(Nat)
    BY <2>1, ElementOfSeq
  <2> QED BY <2>1, <2>2
<1>2. m \in Int /\ \A i \in m..j : i \in 1..n
  BY <1>1
<1>3. \A i \in m..j : cs[i] = bs[i] /\ bs[i] \in Seq(Nat) /\ cs[i] \in Seq(Nat)
  BY <1>1, <1>2
<1> DEFINE u == SubSeq(cs, m, j)
           v == SubSeq(bs, m, j)
<1>4. /\ u \in Seq(Seq(Nat)) /\ Len(u) = (IF m <= j THEN j - m + 1 ELSE 0)
      /\ \A i \in 1..j - m + 1 : u[i] = cs[m + i - 1]
  BY <1>2, <1>3, SubSeqProperties
<1>5. /\ v \in Seq(Seq(Nat)) /\ Len(v) = (IF m <= j THEN j - m + 1 ELSE 0)
      /\ \A i \in 1..j - m + 1 : v[i] = bs[m + i - 1]
  BY <1>2, <1>3, SubSeqProperties
<1> HIDE DEF u, v
<1>6. Len(u) = Len(v) /\ \A i \in 1..Len(u) : i \in 1..j - m + 1 /\ m + i - 1 \in m..j
  BY <1>4, <1>5
<1>7. \A i \in 1..Len(u) : u[i] = v[i]
  BY <1>3, <1>4, <1>5, <1>6
<1>8. u = v
  BY <1>4, <1>5, <1>6, <1>7, SeqEqual
<1> QED BY <1>8 DEF u, v

LEMMA SliceNew ==
    ASSUME NEW bs, NEW b, NEW cs, NEW n, Grows(bs, b, cs, n), NEW m \in 1..n + 1
    PROVE  /\ SubSeq(cs, m, n + 1) = Append(SubSeq(bs, m, n), b)
           /\ Bytes(SubSeq(cs, m, n + 1)) = Bytes(SubSeq(bs, m, n)) \o b
           /\ Bytes(SubSeq(bs, m, n)) \in Seq(Nat)
<1>1. /\ n \in Nat /\ cs \in Seq(Seq(Nat)) /\ Len(cs) = n + 1 /\ cs[n + 1] = b /\ b \in Seq(Nat)
      /\ bs \in Seq(Seq(Nat)) /\ Len(bs) = n
  BY DEF Grows
<1>2. m \in 1..Len(cs) /\ n + 1 \in m..Len(cs) /\ (n + 1) - 1 = n /\ m \in Nat /\ m >= 1 /\ n \in Int /\ n <= n
  BY <1>1
<1>3. SubSeq(cs, m, n + 1) = SubSeq(cs, m, (n + 1) - 1) \o <<cs[n + 1]>>
  BY <1>1, <1>2, SubSeqRecursiveSecond
<1>4. SubSeq(cs, m, n) = SubSeq(bs, m, n)
  BY <1>2, SliceOn
<1> DEFINE u == SubSeq(bs, m, n)
<1>5. u \in Seq(Seq(Nat)) /\ Bytes(u) \in Seq(Nat)
  BY <1>1, <1>2, SliceType
<1>6. Append(u, b) = u \o <<b>>
  BY <1>1, <1>5, AppendIsConcat, Zenon
<1>7. SubSeq(cs, m, n + 1) = Append(u, b)
  BY <1>1, <1>2, <1>3, <1>4, <1>6, Zenon
<1>8. Bytes(Append(u, b)) = Bytes(u) \o b
  BY <1>1, <1>5, FlattenSeqAppend, Zenon DEF Bytes
<1> QED BY <1>5, <1>7, <1>8, Zenon

\* Segments that are handed over.
Frag == [kind : {"Init", "Fragment"}, bytes : Seq(Nat)]

LEMMA SegmentType ==
    ASSUME NEW x \in Seq(Nat)
    PROVE  /\ Segment("Init", x) \in Frag /\ Segment("Fragment", x) \in Frag
           /\ <<Segment("Fragment", x)>> \in Seq(Frag) /\ InitIfAny(x) \in Seq(Frag)
<1>1. Segment("Init", x) \in Frag /\ Segment("Fragment", x) \in Frag
  BY DEF Segment, Frag
<1>2. <<Segment("Fragment", x)>> \in Seq(Frag) /\ <<Segment("Init", x)>> \in Seq(Frag) /\ <<>> \in Seq(Frag)
  BY <1>1
<1> QED BY <1>1, <1>2, Zenon DEF InitIfAny

\* The fragment in progress.
Current(bs) == Bytes(SubSeq(bs, Max(Places(bs, Moof, 1, Len(bs))), Len(bs)))

\* If one ends, a moof has begun it.
LEMMA EndsHasMoof ==
    ASSUME NEW bs, NEW j \in Nat, EndsAt(bs, j)
    PROVE  Places(bs, Moof, 1, j) # {}
<1>1. CASE InFragment(bs, j)
  BY <1>1, Zenon DEF InFragment
<1>2. CASE InFragment(bs, j - 1)
  <2>1. PICK i \in Places(bs, Moof, 1, j - 1) : TRUE
    BY <1>2 DEF InFragment
  <2>2. i \in Places(bs, Moof, 1, j)
    BY <2>1 DEF Places
  <2> QED BY <2>2
<1> QED BY <1>1, <1>2, Zenon DEF EndsAt

LEMMA FragmentAtType ==
    ASSUME NEW bs \in Seq(Seq(Nat)), NEW j \in 1..Len(bs)
    PROVE  FragmentAt(bs, j) \in Seq(Frag)
<1>1. CASE ~EndsAt(bs, j)
  <2>1. <<>> \in Seq(Frag)
    OBVIOUS
  <2> QED BY <1>1, <2>1, Zenon DEF FragmentAt
<1>2. CASE EndsAt(bs, j)
  <2> DEFINE S == Places(bs, Moof, 1, j)
             m == Max(S)
  <2>1. Len(bs) \in Nat /\ j \in Nat /\ j \in 0..Len(bs) /\ j \in Int /\ j <= Len(bs)
    OBVIOUS
  <2>2. S # {} /\ S \subseteq 1..j
    BY <1>2, <2>1, EndsHasMoof, PlacesIn, Zenon
  <2> HIDE DEF S
  <2>3. m \in S
    BY <2>1, <2>2, MaxIs, Zenon
  <2> HIDE DEF m
  <2>4. m \in Nat /\ m >= 1
    BY <2>2, <2>3
  <2>5. Bytes(SubSeq(bs, m, j)) \in Seq(Nat)
    BY <2>1, <2>4, SliceType, Zenon
  <2>6. <<Segment("Fragment", Bytes(SubSeq(bs, m, j)))>> \in Seq(Frag)
    BY <2>5, SegmentType, Zenon
  <2> QED BY <1>2, <2>6, Zenon DEF FragmentAt, m, S
<1> QED BY <1>1, <1>2, Zenon

LEMMA FragmentAtOn ==
    ASSUME NEW bs, NEW b, NEW cs, NEW n, Grows(bs, b, cs, n), NEW j \in 1..n,
           ~(j = n /\ InFragment(bs, n) /\ b[2] = Moof)
    PROVE  FragmentAt(cs, j) = FragmentAt(bs, j)
<1>1. EndsAt(cs, j) <=> EndsAt(bs, j)
  BY EndsAtOn, Zenon
<1>2. n \in Nat /\ j \in Nat /\ j \in 0..n /\ j \in Int /\ j <= n /\ 1 \in Nat /\ 1 >= 1
  BY DEF Grows
<1>3. Places(cs, Moof, 1, j) = Places(bs, Moof, 1, j)
  BY <1>2, PlacesOn
<1>4. CASE EndsAt(bs, j)
  <2> DEFINE S == Places(bs, Moof, 1, j)
             m == Max(S)
  <2>1. S # {} /\ S \subseteq 1..j
    BY <1>2, <1>4, EndsHasMoof, PlacesIn, Zenon
  <2>2. Max(Places(cs, Moof, 1, j)) = m
    BY <1>3, Zenon
  <2> HIDE DEF S
  <2>3. m \in S
    BY <1>2, <2>1, MaxIs, Zenon
  <2> HIDE DEF m
  <2>4. m \in Nat /\ m >= 1
    BY <2>1, <2>3
  <2>5. SubSeq(cs, m, j) = SubSeq(bs, m, j)
    BY <1>2, <2>4, SliceOn
  <2>6. FragmentAt(cs, j) = <<Segment("Fragment", Bytes(SubSeq(cs, m, j)))>>
    BY <1>1, <1>4, <2>2, Zenon DEF FragmentAt
  <2>7. FragmentAt(bs, j) = <<Segment("Fragment", Bytes(SubSeq(bs, m, j)))>>
    BY <1>4, Zenon DEF FragmentAt, m, S
  <2> QED BY <2>5, <2>6, <2>7, Zenon
<1>5. CASE ~EndsAt(bs, j)
  BY <1>1, <1>5, Zenon DEF FragmentAt
<1> QED BY <1>4, <1>5, Zenon

\* The last moof.
LEMMA MaxOn ==
    ASSUME NEW n \in Nat, NEW S, S \subseteq 1..n
    PROVE  /\ Max(S \cup {n + 1}) = n + 1
           /\ S # {} => Min(S \cup {n + 1}) = Min(S)
           /\ Min({n + 1}) = n + 1
<1> DEFINE T == S \cup {n + 1}
<1>1. n + 1 \in Nat /\ T \subseteq 1..n + 1 /\ T # {} /\ n + 1 \in T
  OBVIOUS
<1>2. \A y \in T : y = n + 1 \/ (y \in S /\ y \in 1..n)
  OBVIOUS
<1>3. \A y \in S : y \in T
  OBVIOUS
<1> HIDE DEF T
<1>4. Max(T) \in T /\ \A y \in T : Max(T) >= y
  BY <1>1, MaxIs, Zenon
<1>5. Max(T) = n + 1
  <2> DEFINE m == Max(T)
  <2>1. m \in T /\ \A y \in T : m >= y
    BY <1>4
  <2> HIDE DEF m
  <2>2. m >= n + 1 /\ (m = n + 1 \/ m \in 1..n)
    BY <1>1, <1>2, <2>1
  <2>3. m = n + 1
    BY <2>2
  <2> QED BY <2>3 DEF m
<1>6. ASSUME S # {} PROVE Min(T) = Min(S)
  <2> DEFINE m == Min(S)
             k == Min(T)
  <2>1. m \in S /\ \A y \in S : m <= y
    BY <1>6, MinIs, Zenon
  <2>2. k \in T /\ \A y \in T : k <= y
    BY <1>1, MinIs, Zenon
  <2> HIDE DEF m, k
  <2>3. m \in 1..n /\ k <= m
    BY <1>3, <2>1, <2>2
  <2>4. k \in S /\ k \in 1..n
    BY <1>2, <2>2, <2>3
  <2>5. m <= k
    BY <2>1, <2>4
  <2>6. m = k
    BY <2>3, <2>4, <2>5
  <2> QED BY <2>6 DEF m, k
<1>7. Min({n + 1}) = n + 1
  <2> DEFINE U == {n + 1}
  <2>1. U \subseteq 1..n + 1 /\ U # {}
    OBVIOUS
  <2>2. \A y \in U : y = n + 1
    OBVIOUS
  <2> HIDE DEF U
  <2>3. Min(U) \in U
    BY <1>1, <2>1, MinIs, Zenon
  <2> QED BY <2>2, <2>3, Zenon DEF U
<1> QED BY <1>5, <1>6, <1>7, Zenon DEF T

LEMMA CurrentNew ==
    ASSUME NEW bs, NEW b, NEW cs, NEW n, Grows(bs, b, cs, n)
    PROVE  /\ b[2] = Moof => Current(cs) = b
           /\ b[2] # Moof /\ InFragment(bs, n) => Current(cs) = Current(bs) \o b
           /\ InFragment(bs, n) => Current(bs) \in Seq(Nat)
<1>1. n \in Nat /\ Len(cs) = n + 1 /\ Len(bs) = n /\ b \in Seq(Nat)
  BY DEF Grows
<1> DEFINE S == Places(bs, Moof, 1, n)
           T == Places(cs, Moof, 1, n + 1)
<1>2. S \subseteq 1..n
  BY <1>1 DEF Places
<1>3. 1 \in Nat /\ 1 >= 1 /\ 1 <= n + 1
  BY <1>1
<1>4. T = S \cup (IF b[2] = Moof THEN {n + 1} ELSE {})
  BY <1>3, PlacesNew
<1>5. Current(cs) = Bytes(SubSeq(cs, Max(T), n + 1)) /\ Current(bs) = Bytes(SubSeq(bs, Max(S), n))
  BY <1>1, Zenon DEF Current
<1>6. InFragment(bs, n) => S # {}
  BY <1>1, NotEnded, Zenon
<1> HIDE DEF S, T
<1>7. ASSUME b[2] = Moof PROVE Current(cs) = b
  <2>1. T = S \cup {n + 1}
    BY <1>4, <1>7, Zenon
  <2>2. Max(T) = n + 1
    BY <1>1, <1>2, <2>1, MaxOn, Zenon
  <2>3. n + 1 \in 1..n + 1
    BY <1>1
  <2>4. Bytes(SubSeq(cs, n + 1, n + 1)) = Bytes(SubSeq(bs, n + 1, n)) \o b
    BY <2>3, SliceNew
  <2>5. SubSeq(bs, n + 1, n) = <<>>
    BY <1>1, SubSeqEmpty
  <2>6. Bytes(<<>>) = <<>>
    BY FlattenSeqEmpty, Zenon DEF Bytes
  <2>7. <<>> \o b = b
    BY <1>1
  <2> QED BY <1>5, <2>2, <2>4, <2>5, <2>6, <2>7, Zenon
<1>8. ASSUME InFragment(bs, n) PROVE Max(S) \in 1..n /\ Max(S) \in 1..n + 1
  <2>1. Max(S) \in S
    BY <1>1, <1>2, <1>6, <1>8, MaxIs, Zenon
  <2> DEFINE m == Max(S)
  <2> HIDE DEF m
  <2>2. m \in 1..n
    BY <1>2, <2>1 DEF m
  <2>3. m \in 1..n + 1
    BY <1>1, <2>2
  <2> QED BY <2>2, <2>3, Zenon DEF m
<1>9. ASSUME b[2] # Moof, InFragment(bs, n) PROVE Current(cs) = Current(bs) \o b
  <2>1. T = S
    BY <1>4, <1>9
  <2>2. Bytes(SubSeq(cs, Max(S), n + 1)) = Bytes(SubSeq(bs, Max(S), n)) \o b
    BY <1>8, <1>9, SliceNew
  <2> QED BY <1>5, <2>1, <2>2, Zenon
<1>10. ASSUME InFragment(bs, n) PROVE Current(bs) \in Seq(Nat)
  <2>1. Bytes(SubSeq(bs, Max(S), n)) \in Seq(Nat)
    BY <1>8, <1>10, SliceNew
  <2> QED BY <1>5, <2>1, Zenon
<1> QED BY <1>7, <1>9, <1>10, Zenon

\* What the last boxes give.
LEMMA FragmentAtNew ==
    ASSUME NEW bs, NEW b, NEW cs, NEW n, Grows(bs, b, cs, n)
    PROVE  /\ InFragment(bs, n) /\ b[2] = Mdat
                => FragmentAt(cs, n + 1) = <<Segment("Fragment", Current(bs) \o b)>>
           /\ ~(InFragment(bs, n) /\ b[2] = Mdat) => FragmentAt(cs, n + 1) = <<>>
           /\ InFragment(bs, n) /\ b[2] = Moof
                => FragmentAt(cs, n) = <<Segment("Fragment", Current(bs))>>
           /\ InFragment(bs, n) => FragmentAt(bs, n) = <<>> /\ n >= 1
<1>1. n \in Nat /\ Len(cs) = n + 1 /\ Len(bs) = n
  BY DEF Grows
<1>2. EndsAt(cs, n + 1) <=> InFragment(bs, n) /\ b[2] = Mdat
  BY EndsAtNew, Zenon
<1>3. ASSUME InFragment(bs, n), b[2] = Mdat
      PROVE  FragmentAt(cs, n + 1) = <<Segment("Fragment", Current(bs) \o b)>>
  <2>1. FragmentAt(cs, n + 1) = <<Segment("Fragment", Current(cs))>>
    BY <1>1, <1>2, <1>3, Zenon DEF FragmentAt, Current
  <2>2. Mdat # Moof
    BY DEF Mdat, Moof
  <2>3. Current(cs) = Current(bs) \o b
    BY <1>3, <2>2, CurrentNew, Zenon
  <2> QED BY <2>1, <2>3, Zenon
<1>4. ASSUME ~(InFragment(bs, n) /\ b[2] = Mdat) PROVE FragmentAt(cs, n + 1) = <<>>
  BY <1>2, <1>4, Zenon DEF FragmentAt
<1>5. ASSUME InFragment(bs, n) PROVE ~EndsAt(bs, n) /\ n >= 1
  BY <1>1, <1>5, NotEnded, Zenon
<1>6. ASSUME InFragment(bs, n), b[2] = Moof
      PROVE  FragmentAt(cs, n) = <<Segment("Fragment", Current(bs))>>
  <2>1. n \in 1..n /\ n \in Int /\ n <= n /\ 1 \in Nat /\ 1 >= 1
    BY <1>1, <1>5, <1>6
  <2>2. EndsAt(cs, n)
    BY <1>6, <2>1, EndsAtOn, Zenon
  <2> DEFINE S == Places(bs, Moof, 1, n)
  <2>3. Places(cs, Moof, 1, n) = S
    BY <2>1, PlacesOn
  <2>4. S # {} /\ S \subseteq 1..n
    <3>1. S # {}
      BY <1>1, <1>6, NotEnded, Zenon
    <3>2. S \subseteq 1..n
      BY <1>1 DEF Places
    <3> QED BY <3>1, <3>2, Zenon
  <2> HIDE DEF S
  <2> DEFINE m == Max(S)
  <2>5. m \in S
    BY <1>1, <2>4, MaxIs, Zenon
  <2>6. FragmentAt(cs, n) = <<Segment("Fragment", Bytes(SubSeq(cs, m, n)))>>
    BY <2>2, <2>3, Zenon DEF FragmentAt
  <2>7. Current(bs) = Bytes(SubSeq(bs, m, n))
    <3>1. Current(bs) = Bytes(SubSeq(bs, Max(Places(bs, Moof, 1, Len(bs))), Len(bs)))
      BY Zenon DEF Current
    <3> QED BY <1>1, <3>1 DEF S
  <2> HIDE DEF m
  <2>8. m \in Nat /\ m >= 1
    BY <2>4, <2>5
  <2>9. SubSeq(cs, m, n) = SubSeq(bs, m, n)
    BY <2>1, <2>8, SliceOn
  <2> QED BY <2>6, <2>7, <2>9, Zenon
<1>7. ASSUME InFragment(bs, n) PROVE FragmentAt(bs, n) = <<>> /\ n >= 1
  BY <1>5, <1>7, Zenon DEF FragmentAt
<1> QED BY <1>3, <1>4, <1>6, <1>7, Zenon

\* All fragments that have ended.
Frags(bs) == FlattenSeq([j \in 1..Len(bs) |-> FragmentAt(bs, j)])

LEMMA FragsType ==
    ASSUME NEW bs \in Seq(Seq(Nat))
    PROVE  Frags(bs) \in Seq(Frag)
<1> DEFINE f == [j \in 1..Len(bs) |-> FragmentAt(bs, j)]
<1>1. Len(bs) \in Nat
  OBVIOUS
<1>2. \A j \in 1..Len(bs) : FragmentAt(bs, j) \in Seq(Frag)
  BY FragmentAtType, Zenon
<1>3. f \in [1..Len(bs) -> Seq(Frag)]
  BY <1>2, Zenon
<1> HIDE DEF f
<1>4. f \in Seq(Seq(Frag))
  BY <1>1, <1>3, ListIsSeq, Zenon
<1>5. FlattenSeq(f) \in Seq(Frag)
  BY <1>4, FlattenSeqType, Zenon
<1> QED BY <1>5, Zenon DEF Frags, f

\* A list made longer.
Longer(X, n, f, g) == g = Append(f, g[n + 1]) /\ f \in Seq(X) /\ g \in Seq(X) /\ g[n + 1] \in X

LEMMA ListAppend ==
    ASSUME NEW X, NEW n \in Nat, NEW f \in [1..n -> X], NEW g \in [1..n + 1 -> X],
           \A j \in 1..n : g[j] = f[j]
    PROVE  Longer(X, n, f, g)
<1>1. f \in Seq(X) /\ Len(f) = n
  BY ListIsSeq, Zenon
<1>2. n + 1 \in Nat /\ n + 1 \in 1..n + 1
  OBVIOUS
<1>3. g \in Seq(X) /\ Len(g) = n + 1 /\ g[n + 1] \in X
  <2>1. g \in Seq(X) /\ Len(g) = n + 1
    BY <1>2, ListIsSeq, Zenon
  <2>2. g[n + 1] \in X
    BY <1>2
  <2> QED BY <2>1, <2>2
<1> DEFINE e == g[n + 1]
           h == Append(f, e)
<1>4. e \in X
  BY <1>3
<1> HIDE DEF e
<1>5. /\ h \in Seq(X) /\ Len(h) = Len(f) + 1
      /\ \A i \in 1..Len(f) : h[i] = f[i]
      /\ h[Len(f) + 1] = e
  BY <1>1, <1>4, AppendProperties
<1> HIDE DEF h
<1>6. \A i \in 1..Len(g) : g[i] = h[i]
  <2> SUFFICES ASSUME NEW i \in 1..n + 1 PROVE g[i] = h[i]
    BY <1>3
  <2>1. CASE i \in 1..n
    BY <1>1, <1>5, <2>1
  <2>2. CASE i = n + 1
    BY <1>1, <1>5, <2>2 DEF e
  <2> QED BY <2>1, <2>2
<1>7. Len(g) = Len(h)
  BY <1>1, <1>3, <1>5
<1>8. g = h
  BY <1>3, <1>5, <1>6, <1>7, SeqEqual
<1> QED BY <1>1, <1>3, <1>8, Zenon DEF Longer, e, h

LEMMA FragsNew ==
    ASSUME NEW bs, NEW b, NEW cs, NEW n, Grows(bs, b, cs, n)
    PROVE  /\ InFragment(bs, n) /\ b[2] = Mdat
                => Frags(cs) = Frags(bs) \o <<Segment("Fragment", Current(bs) \o b)>>
           /\ InFragment(bs, n) /\ b[2] = Moof
                => Frags(cs) = Frags(bs) \o <<Segment("Fragment", Current(bs))>>
           /\ ~InFragment(bs, n) \/ (b[2] # Mdat /\ b[2] # Moof) => Frags(cs) = Frags(bs)
<1>1. n \in Nat /\ Len(cs) = n + 1 /\ Len(bs) = n /\ bs \in Seq(Seq(Nat)) /\ cs \in Seq(Seq(Nat)) /\ b \in Seq(Nat)
  BY DEF Grows
<1> DEFINE f == [j \in 1..n |-> FragmentAt(bs, j)]
           g == [j \in 1..n + 1 |-> FragmentAt(cs, j)]
           e == FragmentAt(cs, n + 1)
           X == Seq(Frag)
<1>2. Frags(bs) = FlattenSeq(f) /\ Frags(cs) = FlattenSeq(g)
  BY <1>1, Zenon DEF Frags
<1>3. (\A j \in 1..n : FragmentAt(bs, j) \in X) /\ (\A j \in 1..n + 1 : FragmentAt(cs, j) \in X)
  BY <1>1, FragmentAtType, Zenon
<1>4. f \in [1..n -> X] /\ g \in [1..n + 1 -> X]
  BY <1>3, Zenon
<1>5. n + 1 \in 1..n + 1 /\ \A j \in 1..n : j \in 1..n + 1
  BY <1>1
<1>6. g[n + 1] = e /\ e \in X /\ \A j \in 1..n : f[j] = FragmentAt(bs, j) /\ g[j] = FragmentAt(cs, j)
  BY <1>3, <1>5, Zenon
<1>7. <<>> \in X
  OBVIOUS
<1>8. Frags(bs) \in X
  BY <1>1, FragsType, Zenon
<1> HIDE DEF X, f, g, e
<1>9. ASSUME ~(InFragment(bs, n) /\ b[2] = Moof) PROVE Frags(cs) = Frags(bs) \o e
  <2>1. \A j \in 1..n : FragmentAt(cs, j) = FragmentAt(bs, j)
    BY <1>9, FragmentAtOn
  <2>2. \A j \in 1..n : g[j] = f[j]
    BY <1>6, <2>1, Zenon
  <2>3. g = Append(f, g[n + 1]) /\ f \in Seq(X)
    <3>1. Longer(X, n, f, g)
      BY <1>1, <1>4, <2>2, ListAppend, Zenon
    <3> QED BY <3>1, Zenon DEF Longer
  <2>4. FlattenSeq(Append(f, e)) = FlattenSeq(f) \o e
    <3>1. f \in Seq(Seq(Frag)) /\ e \in Seq(Frag)
      BY <1>6, <2>3 DEF X
    <3> QED BY <3>1, FlattenSeqAppend, Zenon
  <2> QED BY <1>2, <1>6, <2>3, <2>4, Zenon
<1>10. ASSUME InFragment(bs, n), b[2] = Mdat
       PROVE  Frags(cs) = Frags(bs) \o <<Segment("Fragment", Current(bs) \o b)>>
  <2>1. e = <<Segment("Fragment", Current(bs) \o b)>>
    BY <1>10, FragmentAtNew DEF e
  <2>2. Mdat # Moof
    BY DEF Mdat, Moof
  <2> QED BY <1>9, <1>10, <2>1, <2>2, Zenon
<1>11. ASSUME ~InFragment(bs, n) \/ (b[2] # Mdat /\ b[2] # Moof) PROVE Frags(cs) = Frags(bs)
  <2>1. e = <<>>
    BY <1>11, FragmentAtNew DEF e
  <2>2. Frags(cs) = Frags(bs) \o <<>>
    BY <1>9, <1>11, <2>1, Zenon
  <2>3. Frags(bs) \o <<>> = Frags(bs)
    BY <1>8, ConcatEmptySeq, Zenon DEF X
  <2> QED BY <2>2, <2>3, Zenon
<1>12. ASSUME InFragment(bs, n), b[2] = Moof
       PROVE  Frags(cs) = Frags(bs) \o <<Segment("Fragment", Current(bs))>>
  <2> DEFINE o == <<Segment("Fragment", Current(bs))>>
  <2>1. FragmentAt(cs, n) = o /\ FragmentAt(bs, n) = <<>> /\ n >= 1
    BY <1>12, FragmentAtNew
  <2>2. e = <<>>
    <3>1. Mdat # Moof
      BY DEF Mdat, Moof
    <3>2. ~(InFragment(bs, n) /\ b[2] = Mdat)
      BY <1>12, <3>1, Zenon
    <3> QED BY <3>2, FragmentAtNew DEF e
  <2> HIDE DEF o
  <2>3. PICK k \in Nat : n = k + 1
    <3>1. n - 1 \in Nat /\ n = (n - 1) + 1
      BY <1>1, <2>1
    <3> QED BY <3>1, Zenon
  <2> DEFINE h == [j \in 1..k |-> FragmentAt(bs, j)]
             i == [j \in 1..k + 1 |-> FragmentAt(cs, j)]
  <2>4. \A j \in 1..k : j \in 1..n /\ j # n
    BY <1>1, <2>3
  <2>5. \A j \in 1..k : FragmentAt(cs, j) = FragmentAt(bs, j)
    BY <2>4, FragmentAtOn
  <2>6. h \in [1..k -> X] /\ i \in [1..k + 1 -> X] /\ f \in [1..k + 1 -> X]
    BY <1>3, <1>4, <1>5, <2>3, <2>4, Zenon
  <2>7. (\A j \in 1..k : h[j] = FragmentAt(bs, j)) /\ (\A j \in 1..k + 1 : i[j] = FragmentAt(cs, j))
    BY Zenon
  <2>8. k + 1 \in 1..k + 1 /\ \A j \in 1..k : j \in 1..k + 1
    BY <2>3
  <2> HIDE DEF h, i
  <2>9. \A j \in 1..k : i[j] = h[j] /\ f[j] = h[j]
    BY <1>6, <2>4, <2>5, <2>7, <2>8, Zenon
  <2>10. i[k + 1] = o /\ f[k + 1] = <<>>
    <3>1. i[k + 1] = o
      BY <2>1, <2>3, <2>7, <2>8, Zenon
    <3>2. n \in 1..n
      BY <1>1, <2>1
    <3>3. f[n] = <<>>
      BY <1>6, <2>1, <3>2, Zenon
    <3> QED BY <2>3, <3>1, <3>3, Zenon
  <2>11. i = Append(h, i[k + 1]) /\ h \in Seq(X) /\ i \in Seq(X) /\ i[k + 1] \in X
    BY <2>6, <2>9, ListAppend, Zenon DEF Longer
  <2>12. f = Append(h, f[k + 1])
    <3>1. Longer(X, k, h, f)
      BY <2>3, <2>6, <2>9, ListAppend, Zenon
    <3> QED BY <3>1, Zenon DEF Longer
  <2>13. g = Append(i, g[n + 1])
    <3>1. \A j \in 1..n : g[j] = i[j]
      BY <1>6, <2>3, <2>7, Zenon
    <3>2. i \in [1..n -> X]
      BY <2>3, <2>6, Zenon
    <3>3. Longer(X, n, i, g)
      BY <1>1, <1>4, <3>1, <3>2, ListAppend, Zenon
    <3> QED BY <3>3, Zenon DEF Longer
  <2>14. i = Append(h, o) /\ f = Append(h, <<>>) /\ g = Append(i, <<>>) /\ o \in X
    BY <1>6, <2>2, <2>10, <2>11, <2>12, <2>13, Zenon
  <2>15. FlattenSeq(i) = FlattenSeq(h) \o o /\ FlattenSeq(f) = FlattenSeq(h) \o <<>>
         /\ FlattenSeq(g) = FlattenSeq(i) \o <<>>
    <3>1. h \in Seq(Seq(Frag)) /\ i \in Seq(Seq(Frag)) /\ o \in Seq(Frag) /\ <<>> \in Seq(Frag)
      BY <1>7, <2>11, <2>14, Zenon DEF X
    <3>2. FlattenSeq(Append(h, o)) = FlattenSeq(h) \o o
      BY <3>1, FlattenSeqAppend, Zenon
    <3>3. FlattenSeq(Append(h, <<>>)) = FlattenSeq(h) \o <<>>
      BY <3>1, FlattenSeqAppend, Zenon
    <3>4. FlattenSeq(Append(i, <<>>)) = FlattenSeq(i) \o <<>>
      BY <3>1, FlattenSeqAppend, Zenon
    <3> QED BY <2>14, <3>2, <3>3, <3>4, Zenon
  <2>16. FlattenSeq(h) \in Seq(Frag) /\ FlattenSeq(i) \in Seq(Frag)
    BY <2>11, FlattenSeqType, Zenon DEF X
  <2>17. FlattenSeq(h) \o <<>> = FlattenSeq(h) /\ FlattenSeq(i) \o <<>> = FlattenSeq(i)
    BY <2>16, ConcatEmptySeq, Zenon
  <2> QED BY <1>2, <2>15, <2>17, Zenon DEF o
<1> QED BY <1>10, <1>11, <1>12, Zenon

\* The boxes before the first moof.
LEMMA InitNew ==
    ASSUME NEW bs, NEW b, NEW cs, NEW n, Grows(bs, b, cs, n)
    PROVE  /\ Moofs(cs) = Moofs(bs) \cup (IF b[2] = Moof THEN {n + 1} ELSE {})
           /\ Moofs(bs) # {} \/ b[2] = Moof => InitBoxes(cs) = InitBoxes(bs)
<1>1. n \in Nat /\ Len(cs) = n + 1 /\ Len(bs) = n /\ bs \in Seq(Seq(Nat))
  BY DEF Grows
<1> DEFINE S == Moofs(bs)
           T == Moofs(cs)
<1>2. S = Places(bs, Moof, 1, n) /\ T = Places(cs, Moof, 1, n + 1)
  BY <1>1, Zenon DEF Moofs
<1>3. S \subseteq 1..n
  BY <1>1, <1>2 DEF Places
<1>4. T = S \cup (IF b[2] = Moof THEN {n + 1} ELSE {})
  <2>1. 1 \in Nat /\ 1 >= 1 /\ 1 <= n + 1
    BY <1>1
  <2>2. Places(cs, Moof, 1, n + 1) = Places(bs, Moof, 1, n) \cup (IF b[2] = Moof THEN {n + 1} ELSE {})
    BY <2>1, PlacesNew
  <2> QED BY <1>2, <2>2, Zenon
<1>5. /\ InitBoxes(bs) = SubSeq(bs, 1, IF S = {} THEN n ELSE Min(S) - 1)
      /\ InitBoxes(cs) = SubSeq(cs, 1, IF T = {} THEN n + 1 ELSE Min(T) - 1)
  BY <1>1, Zenon DEF InitBoxes
<1> HIDE DEF S, T
<1>6. ASSUME S # {} PROVE InitBoxes(cs) = InitBoxes(bs)
  <2>1. Min(T) = Min(S) /\ T # {}
    <3>1. CASE b[2] = Moof
      <4>1. T = S \cup {n + 1}
        BY <1>4, <3>1, Zenon
      <4>2. Min(T) = Min(S)
        BY <1>1, <1>3, <1>6, <4>1, MaxOn, Zenon
      <4> QED BY <4>1, <4>2
    <3>2. CASE b[2] # Moof
      BY <1>4, <1>6, <3>2
    <3> QED BY <3>1, <3>2, Zenon
  <2> DEFINE m == Min(S)
  <2>2. m \in S
    BY <1>1, <1>3, <1>6, MinIs, Zenon
  <2> HIDE DEF m
  <2>3. m - 1 \in Int /\ m - 1 <= n /\ 1 \in Nat /\ 1 >= 1
    BY <1>1, <1>3, <2>2
  <2>4. SubSeq(cs, 1, m - 1) = SubSeq(bs, 1, m - 1)
    BY <2>3, SliceOn
  <2>5. InitBoxes(bs) = SubSeq(bs, 1, m - 1) /\ InitBoxes(cs) = SubSeq(cs, 1, m - 1)
    BY <1>5, <1>6, <2>1, Zenon DEF m
  <2> QED BY <2>4, <2>5, Zenon
<1>7. ASSUME S = {}, b[2] = Moof PROVE InitBoxes(cs) = InitBoxes(bs)
  <2>1. T = {n + 1} /\ T # {}
    BY <1>4, <1>7
  <2>2. Min(T) = n + 1
    BY <1>1, <1>3, <2>1, MaxOn, Zenon
  <2>3. (n + 1) - 1 = n /\ n \in Int /\ n <= n /\ 1 \in Nat /\ 1 >= 1
    BY <1>1
  <2>4. SubSeq(cs, 1, n) = SubSeq(bs, 1, n)
    BY <2>3, SliceOn
  <2>5. InitBoxes(bs) = SubSeq(bs, 1, n) /\ InitBoxes(cs) = SubSeq(cs, 1, n)
    BY <1>5, <1>7, <2>1, <2>2, <2>3, Zenon
  <2> QED BY <2>4, <2>5, Zenon
<1> QED BY <1>4, <1>6, <1>7, Zenon DEF S, T

LEMMA InitWhole ==
    ASSUME NEW bs \in Seq(Seq(Nat)), Moofs(bs) = {}
    PROVE  InitBoxes(bs) = bs
<1>1. InitBoxes(bs) = SubSeq(bs, 1, Len(bs))
  BY Zenon DEF InitBoxes
<1> QED BY <1>1, SubSeqFull, Zenon

-----------------------------------------------------------------------------
(* What the segmenter does with one box.                                   *)

Segmenters ==
    [pending : Seq(Nat), init : Seq(Nat), init_emitted : BOOLEAN, fragment : Seq(Nat),
     in_fragment : BOOLEAN, opaque : BOOLEAN, out : Seq(Frag)]

\* No moof yet among the boxes bs.
NotBegun(bs) == Moofs(bs) = {} /\ Frags(bs) = <<>>

\* The segmenter has seen the boxes bs.
Tally(s, bs) ==
    /\ s \in Segmenters /\ s.opaque = FALSE
    /\ s.in_fragment = TRUE <=> InFragment(bs, Len(bs))
    /\ s.in_fragment = TRUE => s.fragment = Current(bs)
    /\ \/ s.init_emitted = TRUE /\ Moofs(bs) # {} /\ s.out = Segments(bs)
       \/ s.init_emitted = FALSE /\ NotBegun(bs) /\ s.init = Bytes(bs) /\ s.out = <<>>

LEMMA SegmentsType ==
    ASSUME NEW bs \in Seq(Seq(Nat))
    PROVE  /\ Segments(bs) = InitIfAny(Bytes(InitBoxes(bs))) \o Frags(bs)
           /\ InitIfAny(Bytes(InitBoxes(bs))) \in Seq(Frag)
           /\ Frags(bs) \in Seq(Frag) /\ Segments(bs) \in Seq(Frag) /\ Bytes(bs) \in Seq(Nat)
<1> DEFINE a == InitIfAny(Bytes(InitBoxes(bs)))
           f == Frags(bs)
           S == Moofs(bs)
           l == Len(bs)
<1>1. Segments(bs) = a \o f
  BY Zenon DEF Segments, Frags
<1>2. f \in Seq(Frag)
  BY FragsType, Zenon
<1>3. a \in Seq(Frag)
  <2> DEFINE j == IF S = {} THEN l ELSE Min(S) - 1
  <2>1. InitBoxes(bs) = SubSeq(bs, 1, j)
    BY Zenon DEF InitBoxes
  <2>2. l \in Nat
    OBVIOUS
  <2>3. S \subseteq 1..l
    BY DEF Moofs, Places
  <2> HIDE DEF S, l
  <2>4. j \in Int /\ j <= l
    <3>1. CASE S = {}
      BY <2>2, <3>1
    <3>2. CASE S # {}
      <4> DEFINE m == Min(S)
      <4>1. m \in S
        BY <2>2, <2>3, <3>2, MinIs, Zenon
      <4> HIDE DEF m
      <4>2. m - 1 \in Int /\ m - 1 <= l
        BY <2>2, <2>3, <4>1
      <4> QED BY <3>2, <4>2 DEF m
    <3> QED BY <3>1, <3>2
  <2> HIDE DEF j
  <2>5. 1 \in Nat /\ 1 >= 1
    OBVIOUS
  <2>6. Bytes(SubSeq(bs, 1, j)) \in Seq(Nat)
    BY <2>4, <2>5, SliceType, Zenon DEF l
  <2>7. InitIfAny(Bytes(SubSeq(bs, 1, j))) \in Seq(Frag)
    BY <2>6, SegmentType, Zenon
  <2> QED BY <2>1, <2>7, Zenon
<1>4. a \o f \in Seq(Frag)
  <2> HIDE DEF a, f
  <2> QED BY <1>2, <1>3, ConcatProperties, Zenon
<1>5. Bytes(bs) \in Seq(Nat)
  BY FlattenSeqType, Zenon DEF Bytes
<1> QED BY <1>1, <1>2, <1>3, <1>4, <1>5, Zenon

\* Of one box more.
LEMMA SegmentsNew ==
    ASSUME NEW bs, NEW b, NEW cs, NEW n, Grows(bs, b, cs, n), NEW f \in Seq(Frag),
           Moofs(bs) # {} \/ b[2] = Moof, Frags(cs) = Frags(bs) \o f
    PROVE  Segments(cs) = Segments(bs) \o f
<1> DEFINE a == InitIfAny(Bytes(InitBoxes(bs)))
           e == Frags(bs)
<1>1. bs \in Seq(Seq(Nat)) /\ cs \in Seq(Seq(Nat))
  BY DEF Grows
<1>2. a \in Seq(Frag) /\ e \in Seq(Frag) /\ Segments(bs) = a \o e
  BY <1>1, SegmentsType, Zenon
<1>3. Segments(cs) = InitIfAny(Bytes(InitBoxes(cs))) \o Frags(cs)
  BY <1>1, SegmentsType, Zenon
<1>4. InitBoxes(cs) = InitBoxes(bs)
  BY InitNew
<1>5. Segments(cs) = a \o (e \o f)
  BY <1>3, <1>4, Zenon
<1> HIDE DEF a, e
<1>6. (a \o e) \o f = a \o (e \o f)
  <2>1. a \in Seq(Frag) /\ e \in Seq(Frag)
    BY <1>2
  <2> QED BY <2>1, ConcatAssociative
<1> QED BY <1>2, <1>5, <1>6, Zenon

\* Before the first moof there is no fragment.
LEMMA NoMoofNoFragment ==
    ASSUME NEW bs, Moofs(bs) = {}
    PROVE  ~InFragment(bs, Len(bs))
BY Zenon DEF Moofs, InFragment

LEMMA OpeningSegments ==
    ASSUME NEW bs \in Seq(Seq(Nat)), NotBegun(bs)
    PROVE  Segments(bs) = InitIfAny(Bytes(bs)) /\ InitIfAny(Bytes(bs)) \in Seq(Frag)
<1>1. Moofs(bs) = {} /\ Frags(bs) = <<>>
  BY Zenon DEF NotBegun
<1>2. InitBoxes(bs) = bs
  BY <1>1, InitWhole, Zenon
<1>3. Segments(bs) = InitIfAny(Bytes(InitBoxes(bs))) \o Frags(bs) /\ Bytes(bs) \in Seq(Nat)
  BY SegmentsType, Zenon
<1>4. InitIfAny(Bytes(bs)) \in Seq(Frag)
  BY <1>3, SegmentType, Zenon
<1>5. InitIfAny(Bytes(bs)) \o <<>> = InitIfAny(Bytes(bs))
  BY <1>4, ConcatEmptySeq, Zenon
<1> QED BY <1>1, <1>2, <1>3, <1>4, <1>5, Zenon

\* With the init segment that is waiting, all segments have been handed over.
LEMMA HandedOver ==
    ASSUME NEW bs \in Seq(Seq(Nat)), NEW s, Tally(s, bs)
    PROVE  s.out \o (IF s.init_emitted THEN <<>> ELSE InitIfAny(s.init)) = Segments(bs)
<1> DEFINE i == IF s.init_emitted THEN <<>> ELSE InitIfAny(s.init)
<1>1. s \in Segmenters
  BY Zenon DEF Tally
<1>2. s.out \in Seq(Frag) /\ s.init_emitted \in BOOLEAN
  BY <1>1 DEF Segmenters
<1>3. CASE s.init_emitted = TRUE
  <2>1. i = <<>> /\ s.out = Segments(bs)
    BY <1>3, Zenon DEF Tally
  <2>2. s.out \o <<>> = s.out
    BY <1>2, ConcatEmptySeq, Zenon
  <2> QED BY <2>1, <2>2, Zenon
<1>4. CASE s.init_emitted = FALSE
  <2>1. i = InitIfAny(Bytes(bs)) /\ s.out = <<>> /\ NotBegun(bs)
    BY <1>4, Zenon DEF Tally
  <2>2. Segments(bs) = InitIfAny(Bytes(bs)) /\ InitIfAny(Bytes(bs)) \in Seq(Frag)
    BY <2>1, OpeningSegments, Zenon
  <2>3. <<>> \o InitIfAny(Bytes(bs)) = InitIfAny(Bytes(bs))
    BY <2>2, ConcatEmptySeq, Zenon
  <2> QED BY <2>1, <2>2, <2>3, Zenon
<1> QED BY <1>2, <1>3, <1>4, Zenon

InProgress(s) == s.in_fragment = TRUE

LEMMA TallyMdat ==
    ASSUME NEW bs, NEW b, NEW cs, NEW n, Grows(bs, b, cs, n), NEW s, Tally(s, bs),
           b[2] = Mdat, InProgress(s)
    PROVE  Tally(TakeMdat(s, b), cs) /\ TakeMdat(s, b).pending = s.pending
<1> DEFINE x == s.fragment \o b
           t == Append(s.out, Segment("Fragment", x))
           s2 == TakeMdat(s, b)
<1>1. n \in Nat /\ Len(bs) = n /\ Len(cs) = n + 1 /\ b \in Seq(Nat) /\ bs \in Seq(Seq(Nat)) /\ cs \in Seq(Seq(Nat))
  BY DEF Grows
<1>2. s \in Segmenters /\ s.opaque = FALSE /\ InFragment(bs, n) /\ s.fragment = Current(bs)
  BY <1>1, Zenon DEF Tally, InProgress
<1>3. Moofs(bs) # {}
  BY <1>1, <1>2, NoMoofNoFragment, Zenon
<1>4. s.init_emitted = TRUE /\ s.out = Segments(bs)
  BY <1>3, Zenon DEF Tally, NotBegun
<1>5. s.fragment \in Seq(Nat) /\ s.out \in Seq(Frag)
  BY <1>2 DEF Segmenters
<1>6. x \in Seq(Nat)
  BY <1>1, <1>5, ConcatProperties, Zenon
<1>7. Segment("Fragment", x) \in Frag /\ <<Segment("Fragment", x)>> \in Seq(Frag)
  BY <1>6, SegmentType, Zenon
<1>8. t = s.out \o <<Segment("Fragment", x)>> /\ t \in Seq(Frag)
  <2> DEFINE e == Segment("Fragment", x)
  <2> HIDE DEF x, e
  <2>1. t = s.out \o <<e>>
    BY <1>5, <1>7, AppendIsConcat, Zenon DEF e
  <2>2. t \in Seq(Frag)
    BY <1>5, <1>7, AppendProperties, Zenon DEF e
  <2> QED BY <2>1, <2>2, Zenon DEF e
<1>9. Mdat # Moof
  BY DEF Mdat, Moof
<1>10. Segments(cs) = t
  <2>1. Frags(cs) = Frags(bs) \o <<Segment("Fragment", x)>>
    <3>1. Frags(cs) = Frags(bs) \o <<Segment("Fragment", Current(bs) \o b)>>
      BY <1>2, FragsNew
    <3> QED BY <1>2, <3>1, Zenon
  <2> DEFINE f == <<Segment("Fragment", x)>>
  <2> HIDE DEF f
  <2>2. Segments(cs) = Segments(bs) \o f
    BY <1>3, <1>7, <2>1, SegmentsNew DEF f
  <2> QED BY <1>4, <1>8, <2>2, Zenon DEF f
<1>11. s2 = [s EXCEPT !.out = t, !.fragment = <<>>, !.in_fragment = FALSE]
  BY Zenon DEF TakeMdat
<1> HIDE DEF t, x, s2
<1>12. /\ s2 \in Segmenters /\ s2.opaque = FALSE /\ s2.in_fragment = FALSE /\ s2.init_emitted = TRUE
       /\ s2.out = t /\ s2.pending = s.pending
  <2>1. t \in Seq(Frag) /\ s \in Segmenters /\ s.opaque = FALSE /\ s.init_emitted = TRUE /\ <<>> \in Seq(Nat)
    BY <1>2, <1>4, <1>8
  <2>2. s2 \in Segmenters
    BY <1>11, <2>1 DEF Segmenters
  <2>3. s2.opaque = s.opaque /\ s2.in_fragment = FALSE /\ s2.init_emitted = s.init_emitted
    BY <1>11, <2>1 DEF Segmenters
  <2>4. s2.out = t /\ s2.pending = s.pending
    BY <1>11, <2>1 DEF Segmenters
  <2> QED BY <2>1, <2>2, <2>3, <2>4, Zenon
<1>13. ~InFragment(cs, Len(cs))
  <2>1. InFragment(cs, n + 1) <=> b[2] = Moof \/ (InFragment(bs, n) /\ b[2] # Mdat)
    BY InFragmentNew
  <2> QED BY <1>1, <1>9, <2>1, Zenon
<1>14. Moofs(cs) # {}
  <2>1. Moofs(cs) = Moofs(bs) \cup (IF b[2] = Moof THEN {n + 1} ELSE {})
    BY InitNew
  <2> QED BY <1>3, <2>1
<1>15. Tally(s2, cs)
  <2>1. s2.in_fragment # TRUE
    BY <1>12
  <2> QED BY <1>10, <1>12, <1>13, <1>14, <2>1, Zenon DEF Tally
<1> QED BY <1>12, <1>15, Zenon DEF s2

LEMMA TallyMoof ==
    ASSUME NEW bs, NEW b, NEW cs, NEW n, Grows(bs, b, cs, n), NEW s, Tally(s, bs), b[2] = Moof
    PROVE  Tally(TakeMoof(s, b), cs) /\ TakeMoof(s, b).pending = s.pending
<1> DEFINE i == IF s.init_emitted THEN <<>> ELSE InitIfAny(s.init)
           v == IF s.in_fragment THEN <<Segment("Fragment", s.fragment)>> ELSE <<>>
           k == IF s.init_emitted THEN s.init ELSE <<>>
           t == s.out \o i \o v
           s2 == TakeMoof(s, b)
<1>1. n \in Nat /\ Len(bs) = n /\ Len(cs) = n + 1 /\ b \in Seq(Nat) /\ bs \in Seq(Seq(Nat)) /\ cs \in Seq(Seq(Nat))
  BY DEF Grows
<1>2. /\ s \in Segmenters /\ s.opaque = FALSE
      /\ s.in_fragment = TRUE <=> InFragment(bs, n)
      /\ s.in_fragment = TRUE => s.fragment = Current(bs)
  BY <1>1, Zenon DEF Tally
<1>3. /\ s.fragment \in Seq(Nat) /\ s.out \in Seq(Frag) /\ s.init \in Seq(Nat)
      /\ s.in_fragment \in BOOLEAN /\ s.init_emitted \in BOOLEAN
  BY <1>2 DEF Segmenters
<1>4. i \in Seq(Frag) /\ v \in Seq(Frag) /\ k \in Seq(Nat)
  <2>1. <<>> \in Seq(Frag) /\ <<>> \in Seq(Nat)
    OBVIOUS
  <2>2. InitIfAny(s.init) \in Seq(Frag) /\ <<Segment("Fragment", s.fragment)>> \in Seq(Frag)
    BY <1>3, SegmentType, Zenon
  <2> QED BY <1>3, <2>1, <2>2, Zenon
<1>5. Moofs(cs) # {}
  <2>1. Moofs(cs) = Moofs(bs) \cup (IF b[2] = Moof THEN {n + 1} ELSE {})
    BY InitNew
  <2> QED BY <2>1
<1>6. Frags(cs) = Frags(bs) \o v
  <2>1. CASE s.in_fragment = TRUE
    <3>1. v = <<Segment("Fragment", Current(bs))>>
      BY <1>2, <2>1, Zenon
    <3>2. Frags(cs) = Frags(bs) \o <<Segment("Fragment", Current(bs))>>
      BY <1>2, <2>1, FragsNew
    <3> QED BY <3>1, <3>2, Zenon
  <2>2. CASE s.in_fragment = FALSE
    <3>1. v = <<>> /\ ~InFragment(bs, n)
      BY <1>2, <2>2, Zenon
    <3>2. Frags(cs) = Frags(bs)
      BY <3>1, FragsNew
    <3>3. Frags(bs) \o <<>> = Frags(bs)
      <4>1. Frags(bs) \in Seq(Frag)
        BY <1>1, FragsType, Zenon
      <4> QED BY <4>1, ConcatEmptySeq, Zenon
    <3> QED BY <3>1, <3>2, <3>3, Zenon
  <2> QED BY <1>3, <2>1, <2>2, Zenon
<1>7. Segments(cs) = Segments(bs) \o v
  <2> HIDE DEF v
  <2> QED BY <1>4, <1>6, SegmentsNew
<1>8. s.out \o i = Segments(bs)
  BY <1>1, HandedOver, Zenon
<1>9. Segments(cs) = t
  <2> HIDE DEF i, v
  <2> QED BY <1>7, <1>8, Zenon
<1>10. t \in Seq(Frag)
  BY <1>1, <1>9, SegmentsType, Zenon
<1>11. s2 = [s EXCEPT !.out = t, !.init = k, !.init_emitted = TRUE, !.fragment = b, !.in_fragment = TRUE]
  BY Zenon DEF TakeMoof
<1> HIDE DEF t, i, v, k, s2
<1>12. s2 \in Segmenters
  BY <1>1, <1>2, <1>4, <1>10, <1>11 DEF Segmenters
<1>13. s2.opaque = s.opaque /\ s2.in_fragment = TRUE /\ s2.init_emitted = TRUE
  BY <1>2, <1>11 DEF Segmenters
<1>14. s2.out = t /\ s2.pending = s.pending /\ s2.fragment = b
  BY <1>2, <1>11 DEF Segmenters
<1>15. InFragment(cs, Len(cs))
  <2>1. InFragment(cs, n + 1) <=> b[2] = Moof \/ (InFragment(bs, n) /\ b[2] # Mdat)
    BY InFragmentNew
  <2> QED BY <1>1, <2>1, Zenon
<1>16. Current(cs) = b
  BY CurrentNew
<1>17. Tally(s2, cs)
  BY <1>2, <1>5, <1>9, <1>12, <1>13, <1>14, <1>15, <1>16, Zenon DEF Tally
<1> QED BY <1>14, <1>17, Zenon DEF s2

LEMMA TallyOther ==
    ASSUME NEW bs, NEW b, NEW cs, NEW n, Grows(bs, b, cs, n), NEW s, Tally(s, bs),
           b[2] # Moof, ~(b[2] = Mdat /\ InProgress(s))
    PROVE  Tally(TakeOther(s, b), cs) /\ TakeOther(s, b).pending = s.pending
<1> DEFINE s2 == TakeOther(s, b)
<1>1. n \in Nat /\ Len(bs) = n /\ Len(cs) = n + 1 /\ b \in Seq(Nat) /\ bs \in Seq(Seq(Nat)) /\ cs = Append(bs, b)
  BY DEF Grows
<1>2. /\ s \in Segmenters /\ s.opaque = FALSE
      /\ s.in_fragment = TRUE <=> InFragment(bs, n)
      /\ s.in_fragment = TRUE => s.fragment = Current(bs)
  BY <1>1, Zenon DEF Tally
<1>3. /\ s.fragment \in Seq(Nat) /\ s.out \in Seq(Frag) /\ s.init \in Seq(Nat)
      /\ s.in_fragment \in BOOLEAN /\ s.init_emitted \in BOOLEAN
  BY <1>2 DEF Segmenters
<1>4. Moofs(cs) = Moofs(bs)
  <2>1. Moofs(cs) = Moofs(bs) \cup (IF b[2] = Moof THEN {n + 1} ELSE {})
    BY InitNew
  <2> QED BY <2>1
<1>5. Frags(cs) = Frags(bs)
  <2>1. ~InFragment(bs, n) \/ (b[2] # Mdat /\ b[2] # Moof)
    BY <1>2, Zenon DEF InProgress
  <2> QED BY <2>1, FragsNew
<1>6. Moofs(bs) # {} => Segments(cs) = Segments(bs)
  <2> SUFFICES ASSUME Moofs(bs) # {} PROVE Segments(cs) = Segments(bs)
    BY Zenon
  <2>1. Frags(bs) \in Seq(Frag) /\ Segments(bs) \in Seq(Frag) /\ <<>> \in Seq(Frag)
    <3>1. <<>> \in Seq(Frag)
      OBVIOUS
    <3> QED BY <1>1, <3>1, SegmentsType, Zenon
  <2>2. Frags(bs) \o <<>> = Frags(bs) /\ Segments(bs) \o <<>> = Segments(bs)
    BY <2>1, ConcatEmptySeq, Zenon
  <2>3. Frags(cs) = Frags(bs) \o <<>>
    BY <1>5, <2>2, Zenon
  <2>4. Segments(cs) = Segments(bs) \o <<>>
    BY <2>1, <2>3, SegmentsNew
  <2> QED BY <2>2, <2>4, Zenon
<1>7. InFragment(cs, Len(cs)) <=> InFragment(bs, n)
  <2>1. InFragment(cs, n + 1) <=> b[2] = Moof \/ (InFragment(bs, n) /\ b[2] # Mdat)
    BY InFragmentNew
  <2> QED BY <1>1, <1>2, <2>1, Zenon DEF InProgress
<1>8. CASE s.in_fragment = TRUE
  <2> DEFINE x == s.fragment \o b
  <2>1. x \in Seq(Nat)
    BY <1>1, <1>3, ConcatProperties, Zenon
  <2>2. Current(cs) = x
    <3>1. Current(cs) = Current(bs) \o b
      BY <1>2, <1>8, CurrentNew
    <3> QED BY <1>2, <1>8, <3>1, Zenon
  <2>3. s2 = [s EXCEPT !.fragment = x]
    BY <1>8, Zenon DEF TakeOther
  <2> HIDE DEF s2, x
  <2>4. s2 \in Segmenters
    BY <1>2, <2>1, <2>3 DEF Segmenters
  <2>5. s2.opaque = s.opaque /\ s2.in_fragment = s.in_fragment /\ s2.init_emitted = s.init_emitted
    BY <1>2, <2>3 DEF Segmenters
  <2>6. s2.out = s.out /\ s2.pending = s.pending /\ s2.fragment = x
    BY <1>2, <2>3 DEF Segmenters
  <2>7. Moofs(bs) # {}
    BY <1>1, <1>2, <1>8, NoMoofNoFragment, Zenon
  <2>8. s.init_emitted = TRUE /\ s.out = Segments(bs)
    BY <2>7, Zenon DEF Tally, NotBegun
  <2>9. Tally(s2, cs)
    BY <1>2, <1>4, <1>6, <1>7, <1>8, <2>2, <2>4, <2>5, <2>6, <2>7, <2>8, Zenon DEF Tally
  <2> QED BY <2>6, <2>9, Zenon DEF s2
<1>9. CASE s.in_fragment = FALSE
  <2> DEFINE x == s.init \o b
  <2>1. x \in Seq(Nat)
    BY <1>1, <1>3, ConcatProperties, Zenon
  <2>2. s2 = [s EXCEPT !.init = x]
    BY <1>9, Zenon DEF TakeOther
  <2>3. s.init = Bytes(bs) => x = Bytes(cs)
    <3>1. Bytes(Append(bs, b)) = Bytes(bs) \o b
      BY <1>1, FlattenSeqAppend, Zenon DEF Bytes
    <3> QED BY <1>1, <3>1, Zenon
  <2> HIDE DEF s2, x
  <2>4. s2 \in Segmenters
    BY <1>2, <2>1, <2>2 DEF Segmenters
  <2>5. s2.opaque = s.opaque /\ s2.in_fragment = s.in_fragment /\ s2.init_emitted = s.init_emitted
    BY <1>2, <2>2 DEF Segmenters
  <2>6. s2.out = s.out /\ s2.pending = s.pending /\ s2.init = x
    BY <1>2, <2>2 DEF Segmenters
  <2>7. s.in_fragment # TRUE
    BY <1>9
  <2>8. \/ s.init_emitted = TRUE /\ Moofs(bs) # {} /\ s.out = Segments(bs)
        \/ s.init_emitted = FALSE /\ NotBegun(bs) /\ s.init = Bytes(bs) /\ s.out = <<>>
    BY Zenon DEF Tally
  <2>9. \/ s2.init_emitted = TRUE /\ Moofs(cs) # {} /\ s2.out = Segments(cs)
        \/ s2.init_emitted = FALSE /\ NotBegun(cs) /\ s2.init = Bytes(cs) /\ s2.out = <<>>
    <3>1. CASE s.init_emitted = TRUE /\ Moofs(bs) # {} /\ s.out = Segments(bs)
      BY <1>4, <1>6, <2>5, <2>6, <3>1, Zenon
    <3>2. CASE s.init_emitted = FALSE /\ NotBegun(bs) /\ s.init = Bytes(bs) /\ s.out = <<>>
      <4>1. NotBegun(cs)
        BY <1>4, <1>5, <3>2, Zenon DEF NotBegun
      <4> QED BY <2>3, <2>5, <2>6, <3>2, <4>1, Zenon
    <3> QED BY <2>8, <3>1, <3>2, Zenon
  <2>10. Tally(s2, cs)
    BY <1>2, <1>7, <2>4, <2>5, <2>7, <2>9, Zenon DEF Tally
  <2> QED BY <2>6, <2>10, Zenon DEF s2
<1> QED BY <1>3, <1>8, <1>9, Zenon

\* What pending holds does not matter for the boxes that have been seen.
LEMMA TallyPending ==
    ASSUME NEW bs, NEW s, Tally(s, bs), NEW d \in Seq(Nat), NEW s2, s2 = [s EXCEPT !.pending = d]
    PROVE  Tally(s2, bs) /\ s2.pending = d /\ s2.in_fragment = s.in_fragment
<1>1. s \in Segmenters
  BY Zenon DEF Tally
<1>2. s2 \in Segmenters
  BY <1>1 DEF Segmenters
<1>3. s2.opaque = s.opaque /\ s2.in_fragment = s.in_fragment /\ s2.init_emitted = s.init_emitted
  BY <1>1 DEF Segmenters
<1>4. s2.out = s.out /\ s2.fragment = s.fragment /\ s2.init = s.init
  BY <1>1 DEF Segmenters
<1>5. s2.pending = d
  BY <1>1 DEF Segmenters
<1> HIDE DEF Tally
<1>6. /\ s.opaque = FALSE
      /\ s.in_fragment = TRUE <=> InFragment(bs, Len(bs))
      /\ s.in_fragment = TRUE => s.fragment = Current(bs)
      /\ \/ s.init_emitted = TRUE /\ Moofs(bs) # {} /\ s.out = Segments(bs)
         \/ s.init_emitted = FALSE /\ NotBegun(bs) /\ s.init = Bytes(bs) /\ s.out = <<>>
  BY Zenon DEF Tally
<1>7. Tally(s2, bs)
  BY <1>2, <1>3, <1>4, <1>6, Zenon DEF Tally
<1> QED BY <1>3, <1>5, <1>7, Zenon

\* The next box is taken (the body of the loop of feed).
LEMMA TallyTakes ==
    ASSUME NEW bs \in Seq(Seq(Nat)), NEW s, Tally(s, bs), NEW b, NEW d, Opens(s.pending, b, d)
    PROVE  Tally(CutOne(s), Append(bs, b)) /\ CutOne(s).pending = d
<1> DEFINE p == s.pending
           n == Len(b)
           s1 == [s EXCEPT !.pending = d]
           cs == Append(bs, b)
           m == Len(bs)
<1>1. /\ b \in Seq(Nat) /\ d \in Seq(Nat) /\ BoxLen(p) = n /\ SubSeq(p, 1, n) = b
      /\ SubSeq(p, n + 1, Len(p)) = d
  BY Zenon DEF Opens
<1>2. n \in Nat /\ Len(d) \in Nat /\ n >= 3 /\ Len(p) = n + Len(d)
  BY Zenon DEF Opens
<1>3. n # Malformed /\ n # Unknown /\ ~(n > Len(p))
  <2> HIDE DEF n, p
  <2> QED BY <1>2 DEF Malformed, Unknown
<1>4. CutOne(s) = TakeBox(s, n)
  <2>1. CutOne(s) = CASE n = Malformed -> EnterOpaque(s)
                      [] n = Unknown \/ n > Len(p) -> s
                      [] OTHER -> TakeBox(s, n)
    BY <1>1, Zenon DEF CutOne
  <2> HIDE DEF n, p
  <2> QED BY <1>3, <2>1, Zenon
<1>5. Grows(bs, b, cs, m)
  BY <1>1, Growing, Zenon
<1> HIDE DEF cs, m
<1>6. s1 = [s EXCEPT !.pending = SubSeq(@, n + 1, Len(@))]
  BY <1>1, Zenon
<1>7. TakeBox(s, n) = CASE b[2] = Moof -> TakeMoof(s1, b)
                        [] b[2] = Mdat /\ s.in_fragment -> TakeMdat(s1, b)
                        [] OTHER -> TakeOther(s1, b)
  BY <1>1, <1>6, Zenon DEF TakeBox
<1>8. s1 = [s EXCEPT !.pending = d]
  BY Zenon
<1> HIDE DEF s1, n, p
<1>9. Tally(s1, bs) /\ s1.pending = d /\ s1.in_fragment = s.in_fragment
  BY <1>1, <1>8, TallyPending
<1>10. s.in_fragment \in BOOLEAN
  <2>1. s \in Segmenters
    BY Zenon DEF Tally
  <2> QED BY <2>1 DEF Segmenters
<1>11. Mdat # Moof
  BY DEF Mdat, Moof
<1>12. CASE b[2] = Moof
  <2>1. CutOne(s) = TakeMoof(s1, b)
    BY <1>4, <1>7, <1>11, <1>12, Zenon
  <2>2. Tally(TakeMoof(s1, b), cs) /\ TakeMoof(s1, b).pending = s1.pending
    BY <1>5, <1>9, <1>12, TallyMoof
  <2> QED BY <1>9, <2>1, <2>2, Zenon DEF cs
<1>13. CASE b[2] = Mdat /\ s.in_fragment = TRUE
  <2>1. CutOne(s) = TakeMdat(s1, b)
    BY <1>4, <1>7, <1>11, <1>13, Zenon
  <2>2. Tally(TakeMdat(s1, b), cs) /\ TakeMdat(s1, b).pending = s1.pending
    <3>1. Tally(s1, bs) /\ b[2] = Mdat /\ InProgress(s1)
      BY <1>9, <1>13, Zenon DEF InProgress
    <3> QED BY <1>5, <3>1, TallyMdat
  <2> QED BY <1>9, <2>1, <2>2, Zenon DEF cs
<1>14. CASE b[2] # Moof /\ ~(b[2] = Mdat /\ s.in_fragment = TRUE)
  <2>1. CutOne(s) = TakeOther(s1, b)
    BY <1>4, <1>7, <1>10, <1>14, Zenon
  <2>2. Tally(TakeOther(s1, b), cs) /\ TakeOther(s1, b).pending = s1.pending
    <3>1. Tally(s1, bs) /\ b[2] # Moof /\ ~(b[2] = Mdat /\ InProgress(s1))
      BY <1>9, <1>14, Zenon DEF InProgress
    <3> QED BY <1>5, <3>1, TallyOther
  <2> QED BY <1>9, <2>1, <2>2, Zenon DEF cs
<1> QED BY <1>12, <1>13, <1>14, Zenon

\* Nothing more can be taken, but more may come.
Rests(r) == Stops(r) /\ BoxLen(r) # Malformed

LEMMA CutOneRests ==
    ASSUME NEW s, Rests(s.pending)
    PROVE  CutOne(s) = s
<1> DEFINE n == BoxLen(s.pending)
<1>1. n # Malformed /\ (n = Unknown \/ n > Len(s.pending))
  BY Zenon DEF Rests, Stops
<1>2. CutOne(s) = CASE n = Malformed -> EnterOpaque(s)
                    [] n = Unknown \/ n > Len(s.pending) -> s
                    [] OTHER -> TakeBox(s, n)
  BY Zenon DEF CutOne
<1> HIDE DEF n
<1> QED BY <1>1, <1>2, Zenon

LEMMA RestsEmpty ==
    ASSUME NEW r \in Seq(Nat), Len(r) = 0
    PROVE  Rests(r)
<1>1. 0 < 3 /\ Unknown # Malformed
  BY DEF Unknown, Malformed
<1>2. BoxLen(r) = CASE Len(r) < 3 -> Unknown [] r[1] = 1 /\ Len(r) < 5 -> Unknown
                    [] r[1] = 1 /\ Len(r) >= 5 -> Sized(r[4], 5) [] OTHER -> Sized(r[1], 3)
  BY Zenon DEF BoxLen, HeaderLen, LargeLen
<1>3. BoxLen(r) = Unknown
  <2> DEFINE z == BoxLen(r)
  <2>1. z = CASE Len(r) < 3 -> Unknown [] r[1] = 1 /\ Len(r) < 5 -> Unknown
              [] r[1] = 1 /\ Len(r) >= 5 -> Sized(r[4], 5) [] OTHER -> Sized(r[1], 3)
    BY <1>2, Zenon
  <2> HIDE DEF z
  <2>2. z = Unknown
    BY <1>1, <2>1
  <2> QED BY <2>2, Zenon DEF z
<1> QED BY <1>1, <1>3, Zenon DEF Rests, Stops

\* After the boxes bs something came that is no box; since then the pieces of
\* loose have been handed over as they were read.
Spills(s, bs, loose) ==
    /\ s \in Segmenters /\ s.opaque = TRUE /\ s.pending = <<>>
    /\ loose \in Seq(Frag) /\ s.out = Segments(bs) \o loose

LEMMA EntersOpaque ==
    ASSUME NEW bs \in Seq(Seq(Nat)), NEW s, Tally(s, bs), BoxLen(s.pending) = Malformed
    PROVE  Spills(CutOne(s), bs, <<>>)
<1> DEFINE e == IF s.init_emitted THEN <<>> ELSE InitIfAny(s.init)
           t == s.out \o e
           k == IF s.init_emitted THEN s.init ELSE <<>>
           s2 == EnterOpaque(s)
<1>1. CutOne(s) = s2
  <2> DEFINE n == BoxLen(s.pending)
  <2>1. CutOne(s) = CASE n = Malformed -> EnterOpaque(s)
                      [] n = Unknown \/ n > Len(s.pending) -> s
                      [] OTHER -> TakeBox(s, n)
    BY Zenon DEF CutOne
  <2>2. n = Malformed /\ n # Unknown /\ ~(n > Len(s.pending))
    <3>1. s \in Segmenters
      BY Zenon DEF Tally
    <3>2. s.pending \in Seq(Nat)
      BY <3>1 DEF Segmenters
    <3>3. Len(s.pending) \in Nat
      BY <3>2
    <3> HIDE DEF n
    <3>4. n = Malformed
      BY Zenon DEF n
    <3> QED BY <3>3, <3>4 DEF Malformed, Unknown
  <2> HIDE DEF n
  <2> QED BY <2>1, <2>2, Zenon
<1>2. t = Segments(bs) /\ t \in Seq(Frag)
  <2>1. t = Segments(bs)
    BY HandedOver, Zenon
  <2>2. Segments(bs) \in Seq(Frag)
    BY SegmentsType, Zenon
  <2> QED BY <2>1, <2>2, Zenon
<1>3. s \in Segmenters
  BY Zenon DEF Tally
<1>4. k \in Seq(Nat)
  <2>1. s.init \in Seq(Nat) /\ <<>> \in Seq(Nat)
    BY <1>3 DEF Segmenters
  <2> QED BY <2>1, Zenon
<1>5. s2 = [s EXCEPT !.out = t, !.init = k, !.pending = <<>>, !.fragment = <<>>,
                     !.in_fragment = FALSE, !.opaque = TRUE]
  BY Zenon DEF EnterOpaque
<1> HIDE DEF t, e, k, s2
<1>6. s2 \in Segmenters
  <2>1. <<>> \in Seq(Nat) /\ t \in Seq(Frag) /\ k \in Seq(Nat)
    BY <1>2, <1>4
  <2> QED BY <1>3, <1>5, <2>1 DEF Segmenters
<1>7. s2.opaque = TRUE
  BY <1>3, <1>5 DEF Segmenters
<1>8. s2.out = t /\ s2.pending = <<>>
  BY <1>3, <1>5 DEF Segmenters
<1>9. t \o <<>> = t /\ <<>> \in Seq(Frag)
  <2>1. <<>> \in Seq(Frag)
    OBVIOUS
  <2> QED BY <1>2, <2>1, ConcatEmptySeq, Zenon
<1>10. s2.out = Segments(bs) \o <<>>
  BY <1>2, <1>8, <1>9, Zenon
<1> QED BY <1>1, <1>6, <1>7, <1>8, <1>9, <1>10, Zenon DEF Spills

-----------------------------------------------------------------------------
(* feed, with the stream read up to x.                                     *)

\* The boxes found so far have been dealt with, r is pending.
Stands(s, x, bs, r) == Tally(s, bs) /\ s.pending = r /\ ParsesTo(x, bs, r)

Runs(s, x) == \E bs, r : Stands(s, x, bs, r) /\ Rests(r)

Payload(loose) == [i \in DOMAIN loose |-> loose[i].bytes]

\* The pieces of loose end what was read.
Trails(x, loose) ==
    \E q \in 0..Len(x) : FlattenSeq(Payload(loose)) = SubSeq(x, q + 1, Len(x))

GaveUp(s, x, bs, r, loose) == Spills(s, bs, loose) /\ ParsesTo(x, bs, r) /\ BoxLen(r) = Malformed

\* After i turns of at most n.
Works(s, x, n, i) ==
    \/ \E bs, r : Stands(s, x, bs, r) /\ (Rests(r) \/ i + Len(r) <= n)
    \/ \E bs, r : GaveUp(s, x, bs, r, <<>>)

LEMMA WorksOn ==
    ASSUME NEW s, NEW x, NEW n \in Nat, NEW i \in Nat, Works(s, x, n, i)
    PROVE  Works(CutOne(s), x, n, i + 1)
<1>1. CASE \E bs, r : GaveUp(s, x, bs, r, <<>>)
  <2>1. PICK bs, r : GaveUp(s, x, bs, r, <<>>)
    BY <1>1
  <2>2. s.pending = <<>>
    BY <2>1, Zenon DEF GaveUp, Spills
  <2>3. Rests(<<>>)
    <3>1. <<>> \in Seq(Nat) /\ Len(<<>>) = 0
      OBVIOUS
    <3> QED BY <3>1, RestsEmpty, Zenon
  <2>4. CutOne(s) = s
    BY <2>2, <2>3, CutOneRests, Zenon
  <2> QED BY <2>1, <2>4, Zenon DEF Works
<1>2. ASSUME NEW bs, NEW r, Stands(s, x, bs, r), Rests(r) PROVE Works(CutOne(s), x, n, i + 1)
  <2>1. s.pending = r
    BY <1>2, Zenon DEF Stands
  <2>2. CutOne(s) = s
    BY <1>2, <2>1, CutOneRests, Zenon
  <2> QED BY <1>2, <2>2, Zenon DEF Works
<1>3. ASSUME NEW bs, NEW r, Stands(s, x, bs, r), i + Len(r) <= n PROVE Works(CutOne(s), x, n, i + 1)
  <2>1. Tally(s, bs) /\ s.pending = r /\ ParsesTo(x, bs, r)
    BY <1>3, Zenon DEF Stands
  <2>2. r \in Seq(Nat) /\ bs \in Seq(Seq(Nat)) /\ Len(r) \in Nat
    BY <2>1, Zenon DEF ParsesTo
  <2>3. CASE BoxLen(r) = Malformed
    <3>1. Spills(CutOne(s), bs, <<>>)
      BY <2>1, <2>2, <2>3, EntersOpaque, Zenon
    <3>2. GaveUp(CutOne(s), x, bs, r, <<>>)
      BY <2>1, <2>3, <3>1, Zenon DEF GaveUp
    <3> QED BY <3>2, Zenon DEF Works
  <2>4. CASE Rests(r)
    BY <1>2, <1>3, <2>4, Zenon
  <2>5. CASE Boxed(r, BoxLen(r))
    <3> DEFINE l == BoxLen(r)
               b == SubSeq(r, 1, l)
               d == SubSeq(r, l + 1, Len(r))
    <3>1. Opens(r, b, d)
      BY <2>5, Opening, Zenon
    <3> HIDE DEF b, d, l
    <3>2. Tally(CutOne(s), Append(bs, b)) /\ CutOne(s).pending = d
      <4>1. Opens(s.pending, b, d)
        BY <2>1, <3>1, Zenon
      <4> QED BY <2>1, <2>2, <4>1, TallyTakes, Zenon
    <3>3. ParsesTo(x, Append(bs, b), d)
      BY <2>1, <3>1, ParsesOne, Zenon
    <3>4. (i + 1) + Len(d) <= n
      <4> DEFINE u == Len(r)
                 v == Len(d)
                 w == Len(b)
      <4>1. u = w + v /\ w \in Nat /\ v \in Nat /\ w >= 3 /\ i + u <= n
        BY <1>3, <3>1, Zenon DEF Opens
      <4> HIDE DEF u, v, w
      <4>2. (i + 1) + v <= n
        BY <4>1
      <4> QED BY <4>2, Zenon DEF v
    <3>5. Stands(CutOne(s), x, Append(bs, b), d)
      BY <3>2, <3>3, Zenon DEF Stands
    <3> QED BY <3>4, <3>5, Zenon DEF Works
  <2>6. Stops(r) \/ Boxed(r, BoxLen(r))
    BY <2>2, TakesOrStops, Zenon
  <2> QED BY <2>3, <2>4, <2>5, <2>6, Zenon DEF Rests
<1> QED BY <1>1, <1>2, <1>3, Zenon DEF Works

\* The whole loop.
LEMMA CutWorks ==
    ASSUME NEW s, NEW x, NEW bs, NEW r, Stands(s, x, bs, r)
    PROVE  Runs(Cut(s), x) \/ \E cs, d : GaveUp(Cut(s), x, cs, d, <<>>)
<1>1. s.pending = r /\ ParsesTo(x, bs, r)
  BY Zenon DEF Stands
<1>2. Len(r) \in Nat
  BY <1>1, Zenon DEF ParsesTo
<1> DEFINE n == Len(r)
           R(i) == Repeat(CutOne, s, i)
           K == {i \in 0..n : Works(R(i), x, n, i)}
<1>3. n \in Nat
  BY <1>2
<1>4. Cut(s) = R(n)
  BY <1>1, Zenon DEF Cut
<1>5. R(0) = s /\ \A i \in Nat : R(i + 1) = CutOne(R(i))
  <2>1. 0 \in Nat
    OBVIOUS
  <2> QED BY <2>1, CuttingTurns, Zenon
<1>6. Works(s, x, n, 0)
  <2>1. 0 + n <= n
    BY <1>3
  <2> QED BY <2>1, Zenon DEF Works
<1> HIDE DEF n, R
<1>7. 0 \in K
  <2>1. 0 \in 0..n
    BY <1>3
  <2> QED BY <1>5, <1>6, <2>1, Zenon
<1>8. ASSUME NEW i \in 0..n - 1, i \in K PROVE i + 1 \in K
  <2>1. i \in Nat /\ i + 1 \in 0..n
    BY <1>3
  <2>2. Works(R(i), x, n, i)
    BY <1>8
  <2>3. Works(CutOne(R(i)), x, n, i + 1)
    BY <1>3, <2>1, <2>2, WorksOn, Zenon
  <2>4. R(i + 1) = CutOne(R(i))
    BY <1>5, <2>1, Zenon
  <2> QED BY <2>1, <2>3, <2>4, Zenon
<1>9. n \in K
  <2> HIDE DEF K
  <2>1. 0 \in 0..n
    BY <1>3
  <2> QED BY <1>3, <1>7, <1>8, <2>1, Climb
<1>10. Works(R(n), x, n, n)
  BY <1>9
<1>11. CASE \E cs, d : GaveUp(R(n), x, cs, d, <<>>)
  BY <1>4, <1>11, Zenon
<1>12. ASSUME NEW cs, NEW d, Stands(R(n), x, cs, d), Rests(d) \/ n + Len(d) <= n PROVE Runs(Cut(s), x)
  <2>1. d \in Seq(Nat) /\ Len(d) \in Nat
    BY <1>12, Zenon DEF Stands, ParsesTo
  <2>2. CASE n + Len(d) <= n
    <3>1. Len(d) = 0
      BY <1>3, <2>1, <2>2
    <3>2. Rests(d)
      BY <2>1, <3>1, RestsEmpty, Zenon
    <3> QED BY <1>4, <1>12, <3>2, Zenon DEF Runs
  <2> QED BY <1>4, <1>12, <2>2, Zenon DEF Runs
<1> QED BY <1>10, <1>11, <1>12, Zenon DEF Works

LEMMA FeedRuns ==
    ASSUME NEW s, NEW x, NEW bs, NEW r, Stands(s, x, bs, r), NEW c \in Seq(Nat)
    PROVE  \/ Runs(Feed(s, c), x \o c)
           \/ \E cs, d : GaveUp(Feed(s, c), x \o c, cs, d, <<>>)
<1>1. Tally(s, bs) /\ s.pending = r /\ ParsesTo(x, bs, r)
  BY Zenon DEF Stands
<1> DEFINE s1 == [s EXCEPT !.pending = @ \o c]
           v == r \o c
<1>2. s.opaque = FALSE
  BY <1>1, Zenon DEF Tally
<1>3. Feed(s, c) = Cut(s1)
  BY <1>2, Zenon DEF Feed
<1>4. s1 = [s EXCEPT !.pending = v]
  BY <1>1, Zenon
<1>5. v \in Seq(Nat)
  <2>1. r \in Seq(Nat)
    BY <1>1, Zenon DEF ParsesTo
  <2> QED BY <2>1, ConcatProperties, Zenon
<1>6. ParsesTo(x \o c, bs, v)
  BY <1>1, ParsesOn, Zenon
<1> HIDE DEF s1, v
<1>7. Tally(s1, bs) /\ s1.pending = v
  BY <1>1, <1>4, <1>5, TallyPending
<1>8. Stands(s1, x \o c, bs, v)
  BY <1>6, <1>7, Zenon DEF Stands
<1>9. Runs(Cut(s1), x \o c) \/ \E cs, d : GaveUp(Cut(s1), x \o c, cs, d, <<>>)
  BY <1>8, CutWorks, Zenon
<1> QED BY <1>3, <1>9, Zenon

LEMMA PayloadType ==
    ASSUME NEW l \in Seq(Frag)
    PROVE  /\ Payload(l) \in [1..Len(l) -> Seq(Nat)] /\ Payload(l) \in Seq(Seq(Nat))
           /\ \A i \in 1..Len(l) : Payload(l)[i] = l[i].bytes
<1>1. Len(l) \in Nat /\ DOMAIN l = 1..Len(l) /\ \A i \in 1..Len(l) : l[i] \in Frag
  BY LenProperties, ElementOfSeq
<1>2. \A i \in 1..Len(l) : l[i].bytes \in Seq(Nat)
  BY <1>1 DEF Frag
<1>3. Payload(l) = [i \in 1..Len(l) |-> l[i].bytes]
  BY <1>1, Zenon DEF Payload
<1>4. Payload(l) \in [1..Len(l) -> Seq(Nat)] /\ \A i \in 1..Len(l) : Payload(l)[i] = l[i].bytes
  BY <1>2, <1>3, Zenon
<1>5. Payload(l) \in Seq(Seq(Nat))
  BY <1>1, <1>4, ListIsSeq, Zenon
<1> QED BY <1>4, <1>5, Zenon

LEMMA PayloadAppend ==
    ASSUME NEW l \in Seq(Frag), NEW e \in Frag
    PROVE  Payload(Append(l, e)) = Append(Payload(l), e.bytes)
<1> DEFINE m == Append(l, e)
           f == Payload(l)
           g == Payload(m)
           n == Len(l)
<1>1. /\ n \in Nat /\ m \in Seq(Frag) /\ Len(m) = n + 1 /\ m[n + 1] = e
      /\ \A i \in 1..n : m[i] = l[i]
  BY AppendProperties
<1> HIDE DEF m
<1>2. f \in [1..n -> Seq(Nat)] /\ \A i \in 1..n : f[i] = l[i].bytes
  BY PayloadType, Zenon
<1>3. g \in [1..n + 1 -> Seq(Nat)] /\ \A i \in 1..n + 1 : g[i] = m[i].bytes
  BY <1>1, PayloadType, Zenon
<1>4. n + 1 \in 1..n + 1 /\ \A i \in 1..n : i \in 1..n + 1
  <2> HIDE DEF n
  <2> QED BY <1>1
<1>5. g[n + 1] = e.bytes
  BY <1>1, <1>3, <1>4, Zenon
<1>6. \A i \in 1..n : g[i] = f[i]
  BY <1>1, <1>2, <1>3, <1>4, Zenon
<1> HIDE DEF f, g, n
<1>7. Longer(Seq(Nat), n, f, g)
  BY <1>1, <1>2, <1>3, <1>6, ListAppend
<1> QED BY <1>5, <1>7, Zenon DEF Longer, f, g, m

\* What ends x and what follows.
LEMMA EndingOn ==
    ASSUME NEW x \in Seq(Nat), NEW c \in Seq(Nat), NEW q \in 0..Len(x)
    PROVE  /\ q \in 0..Len(x \o c)
           /\ SubSeq(x, q + 1, Len(x)) \o c = SubSeq(x \o c, q + 1, Len(x \o c))
<1> DEFINE u == x \o c
           l == Len(x)
           k == Len(u)
<1>1. Adjoins(x, c, u)
  BY Adjoining, Zenon
<1>2. u \in Seq(Nat) /\ l \in Nat /\ Len(c) \in Nat /\ k = l + Len(c)
  BY <1>1, Zenon DEF Adjoins
<1>3. From(u, l + 1) = c /\ SubSeq(u, 1, l) = x
  BY FromBehind, Zenon
<1>4. SubSeq(u, l + 1, k) = c
  BY <1>3, Zenon DEF From
<1> HIDE DEF u, l, k
<1>5. /\ q \in Nat /\ q <= l /\ l <= k /\ k \in Nat /\ k <= k /\ 0 \in Nat /\ 0 <= l
      /\ l <= l /\ 0 + l = l /\ 0 + 1 = 1 /\ (0 + q) + 1 = q + 1 /\ 0 + l <= l
  BY <1>2 DEF l
<1>6. SubSeq(u, q + 1, l) \o SubSeq(u, l + 1, k) = SubSeq(u, q + 1, k)
  <2>1. u \in Seq(Nat) /\ q \in Nat /\ l \in Nat /\ k \in Nat /\ q <= l /\ l <= k /\ k <= Len(u)
    BY <1>2, <1>5, Zenon DEF k
  <2> QED BY <2>1, CuttingOn, Zenon
<1>7. SubSeq(SubSeq(u, 0 + 1, l), q + 1, l) = SubSeq(u, (0 + q) + 1, 0 + l)
  <2>1. /\ u \in Seq(Nat) /\ q \in Nat /\ l \in Nat /\ 0 \in Nat /\ 0 <= l /\ l <= Len(u)
        /\ q <= l /\ 0 + l <= l
    BY <1>2, <1>5, Zenon DEF k
  <2> QED BY <2>1, CuttingAgain
<1>8. SubSeq(x, q + 1, l) = SubSeq(u, q + 1, l)
  BY <1>3, <1>5, <1>7, Zenon
<1>9. q \in 0..k
  <2>1. q \in Nat /\ q <= l /\ l <= k /\ l \in Nat /\ k \in Nat
    BY <1>2, <1>5, Zenon
  <2> QED BY <2>1
<1> QED BY <1>4, <1>6, <1>8, <1>9, Zenon DEF u, l, k

LEMMA FeedOpaque ==
    ASSUME NEW s, NEW x, NEW bs, NEW r, NEW loose, GaveUp(s, x, bs, r, loose), Trails(x, loose),
           NEW c \in Seq(Nat), NEW more, more = Append(loose, Segment("Fragment", c))
    PROVE  GaveUp(Feed(s, c), x \o c, bs, r \o c, more) /\ Trails(x \o c, more)
<1> DEFINE e == Segment("Fragment", c)
           t == Append(s.out, e)
           s2 == Feed(s, c)
<1>1. /\ s \in Segmenters /\ s.opaque = TRUE /\ s.pending = <<>>
      /\ loose \in Seq(Frag) /\ s.out = Segments(bs) \o loose
  BY Zenon DEF GaveUp, Spills
<1>2. ParsesTo(x, bs, r) /\ BoxLen(r) = Malformed
  BY Zenon DEF GaveUp
<1>3. x \in Seq(Nat) /\ r \in Seq(Nat) /\ bs \in Seq(Seq(Nat))
  BY <1>2, Zenon DEF ParsesTo
<1>4. ParsesTo(x \o c, bs, r \o c)
  BY <1>2, ParsesOn, Zenon
<1>5. BoxLen(r \o c) = Malformed
  <2>1. BoxLen(r) # Unknown
    BY <1>2 DEF Unknown, Malformed
  <2> QED BY <1>2, <1>3, <2>1, BoxLenOn, Zenon
<1>6. s2 = [s EXCEPT !.out = t]
  BY <1>1, Zenon DEF Feed
<1>7. e \in Frag /\ e.bytes = c
  <2>1. e \in Frag
    BY SegmentType, Zenon
  <2>2. e.bytes = c
    BY DEF Segment
  <2> QED BY <2>1, <2>2, Zenon
<1> HIDE DEF e
<1>8. s.out \in Seq(Frag)
  BY <1>1 DEF Segmenters
<1>9. t \in Seq(Frag) /\ more \in Seq(Frag) /\ more = Append(loose, e)
  <2>1. more = Append(loose, e)
    BY Zenon DEF e
  <2>2. t \in Seq(Frag) /\ Append(loose, e) \in Seq(Frag)
    BY <1>1, <1>7, <1>8, AppendProperties, Zenon
  <2> QED BY <2>1, <2>2, Zenon
<1>10. t = Segments(bs) \o more
  <2> DEFINE g == Segments(bs)
  <2>1. g \in Seq(Frag)
    BY <1>3, SegmentsType, Zenon
  <2> HIDE DEF g
  <2>2. t = s.out \o <<e>> /\ more = loose \o <<e>>
    BY <1>1, <1>7, <1>8, <1>9, AppendIsConcat, Zenon
  <2>3. <<e>> \in Seq(Frag)
    BY <1>7
  <2>4. (g \o loose) \o <<e>> = g \o (loose \o <<e>>)
    <3> DEFINE h == <<e>>
    <3>1. h \in Seq(Frag) /\ loose \in Seq(Frag)
      BY <1>1, <2>3, Zenon
    <3> HIDE DEF h
    <3>2. (g \o loose) \o h = g \o (loose \o h)
      BY <2>1, <3>1, ConcatAssociative
    <3> QED BY <3>2, Zenon DEF h
  <2> QED BY <1>1, <2>2, <2>4, Zenon DEF g
<1> HIDE DEF t, s2
<1>11. s2 \in Segmenters
  BY <1>1, <1>6, <1>9 DEF Segmenters
<1>12. s2.opaque = s.opaque /\ s2.out = t /\ s2.pending = s.pending
  BY <1>1, <1>6 DEF Segmenters
<1>13. Spills(s2, bs, more)
  BY <1>1, <1>9, <1>10, <1>11, <1>12, Zenon DEF Spills
<1>14. GaveUp(s2, x \o c, bs, r \o c, more)
  BY <1>4, <1>5, <1>13, Zenon DEF GaveUp
<1>15. Trails(x \o c, more)
  <2>1. PICK q \in 0..Len(x) : FlattenSeq(Payload(loose)) = SubSeq(x, q + 1, Len(x))
    BY Zenon DEF Trails
  <2>2. Payload(more) = Append(Payload(loose), c)
    BY <1>1, <1>7, <1>9, PayloadAppend, Zenon
  <2>3. Payload(loose) \in Seq(Seq(Nat))
    BY <1>1, PayloadType, Zenon
  <2>4. FlattenSeq(Append(Payload(loose), c)) = FlattenSeq(Payload(loose)) \o c
    BY <2>3, FlattenSeqAppend, Zenon
  <2>5. /\ q \in 0..Len(x \o c)
        /\ SubSeq(x, q + 1, Len(x)) \o c = SubSeq(x \o c, q + 1, Len(x \o c))
    BY <1>3, EndingOn, Zenon
  <2> QED BY <2>1, <2>2, <2>4, <2>5, Zenon DEF Trails
<1> QED BY <1>14, <1>15, Zenon DEF s2

\* Nothing loose yet.
LEMMA TrailsNot ==
    ASSUME NEW x \in Seq(Nat)
    PROVE  Trails(x, <<>>)
<1>1. Len(x) \in Nat /\ Payload(<<>>) = <<>>
  BY DEF Payload
<1>2. FlattenSeq(<<>>) = <<>>
  BY FlattenSeqEmpty
<1>3. Len(x) \in 0..Len(x) /\ SubSeq(x, Len(x) + 1, Len(x)) = <<>>
  BY <1>1
<1> QED BY <1>1, <1>2, <1>3, Zenon DEF Trails

-----------------------------------------------------------------------------
(* Beginnings and ends.                                                    *)

PieceOf(X, u, q, p, b) == b \in Seq(X) /\ Len(b) = p - q /\ \A j \in 1..p - q : b[j] = u[q + j]

LEMMA CuttingAny ==
    ASSUME NEW X, NEW u \in Seq(X), NEW q \in Nat, NEW p \in Nat, q <= p, p <= Len(u)
    PROVE  PieceOf(X, u, q, p, SubSeq(u, q + 1, p))
<1>1. SubSeq(u, q + 1, p) \in Seq(X)
  OBVIOUS
<1>2. Len(SubSeq(u, q + 1, p)) = p - q
  OBVIOUS
<1>3. \A j \in 1..p - q : SubSeq(u, q + 1, p)[j] = u[q + j]
  OBVIOUS
<1> QED BY <1>1, <1>2, <1>3, Zenon DEF PieceOf

LEMMA BeginsAndRest ==
    ASSUME NEW X, NEW w \in Seq(X), NEW l \in Seq(X), NEW u, u = w \o l
    PROVE  IsPrefix(w, u) /\ SubSeq(u, Len(w) + 1, Len(u)) = l
<1> DEFINE a == Len(w)
           b == Len(l)
           c == Len(u)
           d == SubSeq(u, 0 + 1, a)
           e == SubSeq(u, a + 1, c)
<1>1. u \in Seq(X) /\ c = a + b /\ \A i \in 1..a + b : u[i] = IF i <= a THEN w[i] ELSE l[i - a]
  BY ConcatProperties
<1>2. a \in Nat /\ b \in Nat
  OBVIOUS
<1> HIDE DEF a, b, c
<1>3. 0 \in Nat /\ 0 <= a /\ a <= c /\ c <= c /\ c \in Nat /\ c - a = b /\ a - 0 = a
  BY <1>1, <1>2
<1>4. d \in Seq(X) /\ Len(d) = a - 0 /\ \A i \in 1..a - 0 : d[i] = u[0 + i]
  <2>1. a <= Len(u) /\ u \in Seq(X) /\ a \in Nat /\ 0 \in Nat /\ 0 <= a
    BY <1>1, <1>2, <1>3, Zenon DEF c
  <2>2. PieceOf(X, u, 0, a, d)
    BY <2>1, CuttingAny, Zenon
  <2> QED BY <2>2, Zenon DEF PieceOf
<1>5. e \in Seq(X) /\ Len(e) = c - a /\ \A i \in 1..c - a : e[i] = u[a + i]
  <2>1. c <= Len(u) /\ u \in Seq(X) /\ a \in Nat /\ c \in Nat /\ a <= c
    BY <1>1, <1>2, <1>3, Zenon DEF c
  <2>2. PieceOf(X, u, a, c, e)
    BY <2>1, CuttingAny, Zenon
  <2> QED BY <2>2, Zenon DEF PieceOf
<1> HIDE DEF d, e
<1>6. d = w
  <2>1. \A i \in 1..a : u[0 + i] = w[i]
    <3>1. \A i \in 1..a : 0 + i = i /\ i \in 1..a + b /\ i <= a
      BY <1>2
    <3> QED BY <1>1, <3>1, Zenon
  <2>2. Len(d) = a /\ \A i \in 1..a : d[i] = w[i]
    BY <1>3, <1>4, <2>1
  <2> QED BY <1>4, <2>2, SeqEqual DEF a
<1>7. e = l
  <2>1. \A i \in 1..b : u[a + i] = l[i]
    <3>1. \A i \in 1..b : a + i \in 1..a + b /\ ~(a + i <= a) /\ (a + i) - a = i
      BY <1>2
    <3> QED BY <1>1, <3>1
  <2>2. Len(e) = b /\ \A i \in 1..b : e[i] = l[i]
    BY <1>3, <1>5, <2>1
  <2> QED BY <1>5, <2>2, SeqEqual DEF b
<1>8. SubSeq(w, 1, a) = w
  BY SubSeqFull DEF a
<1>9. SubSeq(u, 1, a) = w
  <2>1. 0 + 1 = 1
    OBVIOUS
  <2> QED BY <1>6, <2>1, Zenon DEF d
<1>10. IsPrefix(w, u)
  BY <1>3, <1>8, <1>9, Zenon DEF IsPrefix, a, c
<1> QED BY <1>7, <1>10, Zenon DEF a, c, e

LEMMA Reversed ==
    ASSUME NEW x \in Seq(Nat)
    PROVE  /\ Reverse(x) \in Seq(Nat) /\ Len(Reverse(x)) = Len(x)
           /\ \A i \in 1..Len(x) : Reverse(x)[i] = x[(Len(x) - i) + 1]
<1> DEFINE l == Len(x)
<1>1. l \in Nat /\ \A i \in 1..l : x[i] \in Nat
  OBVIOUS
<1>2. Reverse(x) = [i \in 1..l |-> x[(l - i) + 1]]
  BY Zenon DEF Reverse
<1> HIDE DEF l
<1>3. \A i \in 1..l : (l - i) + 1 \in 1..l
  BY <1>1
<1>4. \A i \in 1..l : x[(l - i) + 1] \in Nat
  BY <1>1, <1>3, Zenon
<1>5. Reverse(x) \in [1..l -> Nat] /\ \A i \in 1..l : Reverse(x)[i] = x[(l - i) + 1]
  BY <1>2, <1>4, Zenon
<1>6. Reverse(x) \in Seq(Nat) /\ Len(Reverse(x)) = l
  BY <1>1, <1>5, ListIsSeq, Zenon
<1> QED BY <1>5, <1>6, Zenon DEF l

LEMMA EndIsSuffix ==
    ASSUME NEW x \in Seq(Nat), NEW q \in 0..Len(x)
    PROVE  IsSuffix(SubSeq(x, q + 1, Len(x)), x)
<1> DEFINE l == Len(x)
           y == SubSeq(x, q + 1, l)
           k == Len(y)
           m == Reverse(x)
           n == Reverse(y)
           d == SubSeq(m, 1, k)
<1>1. l \in Nat /\ q \in Nat /\ q <= l /\ l <= l
  OBVIOUS
<1>2. Piece(x, q, l, y)
  BY <1>1, Cutting, Zenon
<1> HIDE DEF l, y
<1>3. y \in Seq(Nat) /\ k = l - q /\ \A j \in 1..l - q : y[j] = x[q + j]
  BY <1>2, Zenon DEF Piece
<1>4. k \in Nat /\ k <= l
  BY <1>1, <1>3
<1>5. m \in Seq(Nat) /\ Len(m) = l /\ \A i \in 1..l : m[i] = x[(l - i) + 1]
  BY Reversed, Zenon DEF l
<1>6. n \in Seq(Nat) /\ Len(n) = k /\ \A i \in 1..k : n[i] = y[(k - i) + 1]
  BY <1>3, Reversed, Zenon
<1> HIDE DEF k, m, n
<1>7. ASSUME NEW i \in 1..k PROVE n[i] = m[i]
  <2>1. (k - i) + 1 \in 1..l - q /\ q + ((k - i) + 1) = (l - i) + 1 /\ i \in 1..l
    BY <1>1, <1>3, <1>4
  <2>2. n[i] = y[(k - i) + 1] /\ m[i] = x[(l - i) + 1]
    BY <1>5, <1>6, <1>7, <2>1, Zenon
  <2>3. y[(k - i) + 1] = x[q + ((k - i) + 1)]
    BY <1>3, <2>1, Zenon
  <2> QED BY <2>1, <2>2, <2>3, Zenon
<1>8. Piece(m, 0, k, SubSeq(m, 0 + 1, k))
  <2>1. 0 \in Nat /\ 0 <= k /\ k <= Len(m)
    BY <1>4, <1>5
  <2> QED BY <1>4, <1>5, <2>1, Cutting, Zenon
<1>9. 0 + 1 = 1 /\ k - 0 = k /\ \A j \in 1..k : 0 + j = j
  BY <1>4
<1>10. d \in Seq(Nat) /\ Len(d) = k - 0 /\ \A j \in 1..k - 0 : d[j] = m[0 + j]
  <2> DEFINE f == SubSeq(m, 0 + 1, k)
  <2>1. f \in Seq(Nat) /\ Len(f) = k - 0 /\ \A j \in 1..k - 0 : f[j] = m[0 + j]
    BY <1>8, Zenon DEF Piece
  <2>2. f = d
    BY <1>9, Zenon
  <2> HIDE DEF f, d
  <2> QED BY <2>1, <2>2, Zenon
<1> HIDE DEF d
<1>11. Len(d) = k /\ \A j \in 1..k : d[j] = m[j]
  BY <1>4, <1>9, <1>10
<1>12. d = n
  <2>1. \A j \in 1..k : d[j] = n[j]
    BY <1>7, <1>11, Zenon
  <2> QED BY <1>6, <1>10, <1>11, <2>1, SeqEqual
<1>13. SubSeq(n, 1, Len(n)) = n
  BY <1>6, SubSeqFull, Zenon
<1>14. Len(n) <= Len(m)
  BY <1>4, <1>5, <1>6
<1>15. IsPrefix(n, m)
  BY <1>6, <1>12, <1>13, <1>14, Zenon DEF IsPrefix, d
<1> QED BY <1>15, Zenon DEF IsSuffix, n, m, y, l

-----------------------------------------------------------------------------
(* The encoder's stdout reader.                                            *)

\* finish: what was held back as init is all there is.
Finished(s, x, bs, r) ==
    /\ ParsesTo(x, bs, r) /\ Rests(r) /\ s.opaque = FALSE
    /\ s.out = IF Moofs(bs) = {} THEN InitIfAny(x) ELSE Segments(bs)

Ended(s, x)    == \E bs, r : Finished(s, x, bs, r)
Overflow(s, x) == \E bs, r, loose : GaveUp(s, x, bs, r, loose) /\ Trails(x, loose)

LEMMA Finishing ==
    ASSUME NEW s, NEW x, Runs(s, x)
    PROVE  Ended(FinishSegments(s), x)
<1>1. PICK bs, r : Stands(s, x, bs, r) /\ Rests(r)
  BY Zenon DEF Runs
<1>2. Tally(s, bs) /\ s.pending = r /\ ParsesTo(x, bs, r)
  BY <1>1, Zenon DEF Stands
<1>3. s \in Segmenters /\ s.opaque = FALSE
  BY <1>2, Zenon DEF Tally
<1>4. s.init_emitted \in BOOLEAN
  BY <1>3 DEF Segmenters
<1>5. CASE s.init_emitted = TRUE
  <2>1. FinishSegments(s) = s
    BY <1>5, Zenon DEF FinishSegments
  <2>2. Moofs(bs) # {} /\ s.out = Segments(bs)
    BY <1>2, <1>5, Zenon DEF Tally
  <2>3. Finished(s, x, bs, r)
    BY <1>1, <1>2, <1>3, <2>2, Zenon DEF Finished
  <2> QED BY <2>1, <2>3, Zenon DEF Ended
<1>6. CASE s.init_emitted = FALSE
  <2> DEFINE s2 == FinishSegments(s)
             t == s.out \o InitIfAny(s.init \o s.pending)
  <2>1. s2 = [s EXCEPT !.out = t, !.pending = <<>>, !.init = <<>>]
    BY <1>3, <1>6, Zenon DEF FinishSegments
  <2>2. NotBegun(bs) /\ s.init = Bytes(bs) /\ s.out = <<>>
    BY <1>2, <1>6, Zenon DEF Tally
  <2>3. Moofs(bs) = {}
    BY <2>2, Zenon DEF NotBegun
  <2>4. s.init \o s.pending = x /\ x \in Seq(Nat)
    BY <1>2, <2>2, Zenon DEF ParsesTo
  <2>5. t = InitIfAny(x)
    <3>1. InitIfAny(x) \in Seq(Frag)
      BY <2>4, SegmentType, Zenon
    <3>2. <<>> \o InitIfAny(x) = InitIfAny(x)
      BY <3>1, ConcatEmptySeq, Zenon
    <3> QED BY <2>2, <2>4, <3>2, Zenon
  <2> HIDE DEF s2, t
  <2>6. s2.opaque = s.opaque /\ s2.out = t
    BY <1>3, <2>1 DEF Segmenters
  <2>7. Finished(s2, x, bs, r)
    BY <1>1, <1>2, <1>3, <2>3, <2>5, <2>6, Zenon DEF Finished
  <2> QED BY <2>7, Zenon DEF Ended, s2
<1> QED BY <1>4, <1>5, <1>6, Zenon

\* What the segmenter holds and has handed over is a matter of the bytes read,
\* not of the pieces they came in.
Handled(x) ==
    \/ ended # "Eof" /\ Runs(state, x)
    \/ Overflow(state, x)
    \/ ended = "Eof" /\ Ended(state, x)

SegmentsSound ==
    reader = "Segments" =>
        stream \in Seq(Nat) /\ at \in 0..Len(stream) /\ Handled(SubSeq(stream, 1, at))

LEMMA SegmentsSoundInit == StreamInit => SegmentsSound
<1> SUFFICES ASSUME StreamInit, reader = "Segments" PROVE SegmentsSound
  BY Zenon DEF SegmentsSound
<1>1. stream \in Outputs /\ at = 0 /\ state = NewSegmenter /\ ended = "No"
  BY DEF StreamInit, FramesInit, SegmentsInit
<1>2. stream \in Seq(Nat)
  BY <1>1, ByteStreamsAssumption
<1>3. at \in 0..Len(stream) /\ SubSeq(stream, 1, at) = <<>>
  BY <1>1, <1>2
<1>4. <<>> \in Seq(Nat) /\ Len(<<>>) = 0 /\ <<>> \in Seq(Seq(Nat)) /\ <<>> \in Seq(Frag)
  OBVIOUS
<1>5. Moofs(<<>>) = {}
  BY DEF Moofs, Places
<1>6. Frags(<<>>) = <<>>
  <2>1. [j \in 1..Len(<<>>) |-> FragmentAt(<<>>, j)] = <<>>
    OBVIOUS
  <2> QED BY <2>1, FlattenSeqEmpty, Zenon DEF Frags
<1>7. Bytes(<<>>) = <<>>
  BY FlattenSeqEmpty, Zenon DEF Bytes
<1>8. ~InFragment(<<>>, Len(<<>>))
  BY <1>5, NoMoofNoFragment, Zenon
<1> DEFINE s == NewSegmenter
<1>9. s \in Segmenters
  BY <1>4 DEF NewSegmenter, Segmenters
<1>10. s.opaque = FALSE /\ s.in_fragment = FALSE /\ s.init_emitted = FALSE
  BY DEF NewSegmenter
<1>11. s.init = <<>> /\ s.out = <<>> /\ s.pending = <<>>
  BY DEF NewSegmenter
<1> HIDE DEF s
<1>12. Tally(s, <<>>)
  <2>1. s.in_fragment # TRUE
    BY <1>10
  <2> QED BY <1>5, <1>6, <1>7, <1>8, <1>9, <1>10, <1>11, <2>1, Zenon DEF Tally, NotBegun
<1>13. ParsesTo(<<>>, <<>>, <<>>)
  BY <1>4, ParsesNothing, Zenon
<1>14. Rests(<<>>)
  BY <1>4, RestsEmpty, Zenon
<1>15. Runs(s, <<>>)
  BY <1>11, <1>12, <1>13, <1>14, Zenon DEF Runs, Stands
<1>16. Handled(<<>>)
  BY <1>1, <1>15, Zenon DEF Handled, s
<1> QED BY <1>2, <1>3, <1>16, Zenon DEF SegmentsSound

LEMMA SegmentsSoundStep == SegmentsSound /\ [StreamNext]_streamVars => SegmentsSound'
<1> SUFFICES ASSUME SegmentsSound, [StreamNext]_streamVars, reader' = "Segments" PROVE SegmentsSound'
  BY Zenon DEF SegmentsSound
<1>1. CASE UNCHANGED streamVars
  <2>1. reader' = reader /\ stream' = stream /\ at' = at /\ state' = state /\ ended' = ended
    BY <1>1, Zenon DEF streamVars
  <2> QED BY <2>1, Zenon DEF SegmentsSound, Handled
<1>2. reader = "Segments"
  BY <1>1 DEF StreamNext, ReadFrames, ReadSegments, ReadStep, EndOfStream, ReadError, streamVars
<1>3. stream \in Seq(Nat) /\ at \in 0..Len(stream) /\ Handled(SubSeq(stream, 1, at))
  BY <1>2, Zenon DEF SegmentsSound
<1> DEFINE x == SubSeq(stream, 1, at)
<1>4. x \in Seq(Nat)
  BY <1>3
<1>5. ASSUME NEW n \in ReadSizes, ReadSegments(n) PROVE SegmentsSound'
  <2> DEFINE r == at + Len(Chunk(n))
             c == Chunk(n)
             y == SubSeq(stream, 1, r)
  <2>1. ended = "No" /\ at < Len(stream) /\ at' = r /\ stream' = stream
    BY <1>5, Zenon DEF ReadSegments, ReadStep
  <2>2. state' = Feed(state, c) /\ ended' = ended
    BY <1>5, Zenon DEF ReadSegments
  <2>3. Reaches(stream, at, c, r)
    BY <1>3, <2>1, ChunkReaches, Zenon
  <2> HIDE DEF r, c
  <2>4. r \in 0..Len(stream) /\ at < r /\ c = SubSeq(stream, at + 1, r)
    BY <2>3, Zenon DEF Reaches
  <2>5. at \in Nat /\ r \in Nat /\ 0 \in Nat /\ 0 <= at /\ at <= r /\ r <= Len(stream) /\ 0 + 1 = 1
    <3>1. Len(stream) \in Nat
      BY <1>3
    <3> QED BY <1>3, <2>4, <3>1
  <2>6. c \in Seq(Nat)
    <3>1. Piece(stream, at, r, SubSeq(stream, at + 1, r))
      BY <1>3, <2>5, Cutting, Zenon
    <3> QED BY <2>4, <3>1, Zenon DEF Piece
  <2>7. x \o c = y
    <3>1. SubSeq(stream, 0 + 1, at) \o SubSeq(stream, at + 1, r) = SubSeq(stream, 0 + 1, r)
      BY <1>3, <2>5, CuttingOn, Zenon
    <3> QED BY <2>4, <2>5, <3>1, Zenon
  <2> HIDE DEF x, y
  <2>8. Runs(state', y) \/ Overflow(state', y)
    <3>1. ASSUME NEW bs, NEW d, Stands(state, x, bs, d) PROVE Runs(state', y) \/ Overflow(state', y)
      <4>1. Runs(Feed(state, c), x \o c) \/ \E cs, e : GaveUp(Feed(state, c), x \o c, cs, e, <<>>)
        BY <2>6, <3>1, FeedRuns, Zenon
      <4>2. y \in Seq(Nat)
        BY <1>4, <2>6, <2>7, ConcatProperties, Zenon
      <4>3. Trails(y, <<>>)
        BY <4>2, TrailsNot, Zenon
      <4> QED BY <2>2, <2>7, <4>1, <4>3, Zenon DEF Overflow
    <3>2. ASSUME NEW bs, NEW d, NEW loose, GaveUp(state, x, bs, d, loose), Trails(x, loose)
          PROVE  Overflow(state', y)
      <4> DEFINE more == Append(loose, Segment("Fragment", c))
      <4>1. GaveUp(Feed(state, c), x \o c, bs, d \o c, more) /\ Trails(x \o c, more)
        BY <2>6, <3>2, FeedOpaque, Zenon
      <4> HIDE DEF more
      <4> QED BY <2>2, <2>7, <4>1, Zenon DEF Overflow
    <3>3. Runs(state, x) \/ Overflow(state, x)
      BY <1>3, <2>1, Zenon DEF Handled, x
    <3> QED BY <3>1, <3>2, <3>3, Zenon DEF Runs, Overflow
  <2>9. ended' # "Eof"
    BY <2>1, <2>2
  <2>10. stream' \in Seq(Nat) /\ at' \in 0..Len(stream') /\ SubSeq(stream', 1, at') = y
    BY <1>3, <2>1, <2>4, Zenon DEF y
  <2>11. \/ ended' # "Eof" /\ Runs(state', y)
         \/ Overflow(state', y)
         \/ ended' = "Eof" /\ Ended(state', y)
    BY <2>8, <2>9, Zenon
  <2> QED BY <2>10, <2>11, Zenon DEF SegmentsSound, Handled
<1>6. ASSUME NEW n \in ReadSizes PROVE ~ReadFrames(n)
  BY <1>2 DEF ReadFrames
<1>7. CASE EndOfStream
  <2>1. /\ stream' = stream /\ at' = at /\ ended = "No" /\ ended' = "Eof"
        /\ state' = FinishSegments(state)
    BY <1>2, <1>7, Zenon DEF EndOfStream
  <2> HIDE DEF x
  <2>2. ended # "Eof"
    BY <2>1
  <2>3. Runs(state, x) \/ Overflow(state, x)
    BY <1>3, <2>2, Zenon DEF Handled, x
  <2>4. Runs(state, x) => Ended(state', x)
    BY <2>1, Finishing, Zenon
  <2>5. Overflow(state, x) => Overflow(state', x)
    <3> SUFFICES ASSUME Overflow(state, x) PROVE Overflow(state', x)
      BY Zenon
    <3>1. state.opaque = TRUE
      BY Zenon DEF Overflow, GaveUp, Spills
    <3>2. state' = state
      BY <2>1, <3>1, Zenon DEF FinishSegments
    <3> QED BY <3>2, Zenon
  <2>6. stream' \in Seq(Nat) /\ at' \in 0..Len(stream') /\ SubSeq(stream', 1, at') = x
    BY <1>3, <2>1, Zenon DEF x
  <2>7. \/ ended' # "Eof" /\ Runs(state', x)
        \/ Overflow(state', x)
        \/ ended' = "Eof" /\ Ended(state', x)
    BY <2>1, <2>3, <2>4, <2>5, Zenon
  <2> QED BY <2>6, <2>7, Zenon DEF SegmentsSound, Handled
<1>8. CASE ReadError
  <2>1. stream' = stream /\ at' = at /\ ended = "No" /\ ended' = "Error" /\ state' = state
    BY <1>8, Zenon DEF ReadError
  <2> HIDE DEF x
  <2>2. ended # "Eof" /\ ended' # "Eof"
    BY <2>1
  <2>3. Runs(state, x) \/ Overflow(state, x)
    BY <1>3, <2>2, Zenon DEF Handled, x
  <2>4. stream' \in Seq(Nat) /\ at' \in 0..Len(stream') /\ SubSeq(stream', 1, at') = x
    BY <1>3, <2>1, Zenon DEF x
  <2>5. \/ ended' # "Eof" /\ Runs(state', x)
        \/ Overflow(state', x)
        \/ ended' = "Eof" /\ Ended(state', x)
    BY <2>1, <2>2, <2>3, Zenon
  <2> QED BY <2>4, <2>5, Zenon DEF SegmentsSound, Handled
<1> QED BY <1>1, <1>5, <1>6, <1>7, <1>8, Zenon DEF StreamNext

\* What the property asks of what was handed over: w, all of it or with loose
\* pieces behind.
Wholly(x, w, out, begun, opaque) ==
    LET loose == SubSeq(out, Len(w) + 1, Len(out))
    IN /\ ~begun => out = <<>>
       /\ begun => IsPrefix(w, out)
       /\ begun /\ ~opaque => loose = <<>>
       /\ IsSuffix(FlattenSeq([i \in DOMAIN loose |-> loose[i].bytes]), x)

LEMMA WhollyWith ==
    ASSUME NEW x \in Seq(Nat), NEW w \in Seq(Frag), NEW l \in Seq(Frag), NEW out, out = w \o l,
           Trails(x, l), NEW begun, NEW opaque, begun, opaque \/ l = <<>>
    PROVE  Wholly(x, w, out, begun, opaque)
<1>1. IsPrefix(w, out) /\ SubSeq(out, Len(w) + 1, Len(out)) = l
  BY BeginsAndRest, Zenon
<1>2. PICK q \in 0..Len(x) : FlattenSeq(Payload(l)) = SubSeq(x, q + 1, Len(x))
  BY Zenon DEF Trails
<1>3. IsSuffix(FlattenSeq([i \in DOMAIN l |-> l[i].bytes]), x)
  <2>1. IsSuffix(SubSeq(x, q + 1, Len(x)), x)
    BY EndIsSuffix, Zenon
  <2> QED BY <1>2, <2>1, Zenon DEF Payload
<1> QED BY <1>1, <1>3, Zenon DEF Wholly

LEMMA WhollyNothing ==
    ASSUME NEW x \in Seq(Nat), NEW w \in Seq(Frag), NEW begun, NEW opaque, ~begun
    PROVE  Wholly(x, w, <<>>, begun, opaque)
<1>1. SubSeq(<<>>, Len(w) + 1, Len(<<>>)) = <<>>
  <2>1. Len(w) \in Nat
    OBVIOUS
  <2>2. Len(w) + 1 \in Int /\ 0 \in Int /\ 0 < Len(w) + 1 /\ Len(<<>>) = 0
    BY <2>1
  <2> QED BY <2>2, SubSeqEmpty, Zenon
<1>2. Len(x) \in 0..Len(x) /\ SubSeq(x, Len(x) + 1, Len(x)) = <<>>
  OBVIOUS
<1>3. IsSuffix(<<>>, x)
  BY <1>2, EndIsSuffix, Zenon
<1>4. [i \in DOMAIN <<>> |-> <<>>[i].bytes] = <<>>
  OBVIOUS
<1> QED BY <1>1, <1>3, <1>4, FlattenSeqEmpty, Zenon DEF Wholly

LEMMA SegmentsWhole == SegmentsSound => SegmentsAreWhole
<1> SUFFICES ASSUME SegmentsSound, reader = "Segments" PROVE SegmentsAreWhole
  BY Zenon DEF SegmentsAreWhole
<1> DEFINE x == SubSeq(stream, 1, at)
           whole == IF ended = "Eof" THEN SegmentsAtEnd(x) ELSE Segments(Boxes(x))
           begun == Moofs(Boxes(x)) # {} \/ ended = "Eof" \/ state.opaque
<1> SUFFICES state.opaque = Broken(x) /\ Wholly(x, whole, state.out, begun, state.opaque)
  BY Zenon DEF SegmentsAreWhole, Wholly
<1>1. stream \in Seq(Nat) /\ at \in 0..Len(stream) /\ Handled(x)
  BY Zenon DEF SegmentsSound
<1>2. x \in Seq(Nat)
  BY <1>1
<1>3. <<>> \in Seq(Frag) /\ Trails(x, <<>>)
  <2>1. <<>> \in Seq(Frag)
    OBVIOUS
  <2> QED BY <1>2, <2>1, TrailsNot, Zenon
<1> HIDE DEF x
<1>4. CASE ended # "Eof" /\ Runs(state, x)
  <2>1. PICK bs, r : Stands(state, x, bs, r) /\ Rests(r)
    BY <1>4, Zenon DEF Runs
  <2>2. Tally(state, bs) /\ ParsesTo(x, bs, r) /\ Stops(r) /\ BoxLen(r) # Malformed
    BY <2>1, Zenon DEF Stands, Rests
  <2>3. Boxes(x) = bs /\ Broken(x) = FALSE /\ bs \in Seq(Seq(Nat))
    <3>1. Boxes(x) = bs /\ Broken(x) = (BoxLen(r) = Malformed)
      BY <2>2, ParsedIs
    <3>2. bs \in Seq(Seq(Nat))
      BY <2>2, Zenon DEF ParsesTo
    <3> QED BY <2>2, <3>1, <3>2, Zenon
  <2>4. state.opaque = FALSE
    BY <2>2, Zenon DEF Tally
  <2>5. whole = Segments(bs) /\ (begun <=> Moofs(bs) # {})
    BY <1>4, <2>3, <2>4, Zenon
  <2>6. Segments(bs) \in Seq(Frag)
    BY <2>3, SegmentsType, Zenon
  <2>7. CASE Moofs(bs) # {}
    <3>1. state.out = Segments(bs)
      BY <2>2, <2>7, Zenon DEF Tally, NotBegun
    <3>2. Segments(bs) \o <<>> = Segments(bs)
      BY <2>6, ConcatEmptySeq, Zenon
    <3>3. state.out = whole \o <<>> /\ whole \in Seq(Frag) /\ begun
      BY <2>5, <2>6, <2>7, <3>1, <3>2, Zenon
    <3> HIDE DEF whole, begun
    <3>4. Wholly(x, whole, state.out, begun, state.opaque)
      BY <1>2, <1>3, <3>3, WhollyWith
    <3> QED BY <2>3, <2>4, <3>4, Zenon
  <2>8. CASE Moofs(bs) = {}
    <3>1. state.out = <<>>
      BY <2>2, <2>8, Zenon DEF Tally
    <3>2. whole \in Seq(Frag) /\ ~begun
      BY <2>5, <2>6, <2>8, Zenon
    <3> HIDE DEF whole, begun
    <3>3. Wholly(x, whole, <<>>, begun, state.opaque)
      BY <1>2, <3>2, WhollyNothing, Zenon
    <3> QED BY <2>3, <2>4, <3>1, <3>3, Zenon
  <2> QED BY <2>7, <2>8, Zenon
<1>5. CASE Overflow(state, x)
  <2>1. PICK bs, r, loose : GaveUp(state, x, bs, r, loose) /\ Trails(x, loose)
    BY <1>5, Zenon DEF Overflow
  <2>2. Spills(state, bs, loose) /\ ParsesTo(x, bs, r) /\ BoxLen(r) = Malformed
    BY <2>1, Zenon DEF GaveUp
  <2>3. Boxes(x) = bs /\ Broken(x) = TRUE /\ bs \in Seq(Seq(Nat))
    <3>1. Stops(r)
      BY <2>2, Zenon DEF Stops
    <3>2. Boxes(x) = bs /\ Broken(x) = (BoxLen(r) = Malformed)
      BY <2>2, <3>1, ParsedIs
    <3>3. bs \in Seq(Seq(Nat))
      BY <2>2, Zenon DEF ParsesTo
    <3> QED BY <2>2, <3>2, <3>3, Zenon
  <2>4. state.opaque = TRUE /\ loose \in Seq(Frag) /\ state.out = Segments(bs) \o loose
    BY <2>2, Zenon DEF Spills
  <2>5. whole = Segments(bs) /\ begun
    <3>1. SegmentsAtEnd(x) = Segments(bs)
      BY <2>3, Zenon DEF SegmentsAtEnd
    <3> QED BY <2>3, <2>4, <3>1, Zenon
  <2>6. whole \in Seq(Frag) /\ state.out = whole \o loose
    <3>1. Segments(bs) \in Seq(Frag)
      BY <2>3, SegmentsType, Zenon
    <3> QED BY <2>4, <2>5, <3>1, Zenon
  <2>7. begun /\ state.opaque
    BY <2>4, <2>5, Zenon
  <2> HIDE DEF whole, begun
  <2>8. Wholly(x, whole, state.out, begun, state.opaque)
    BY <1>2, <2>1, <2>4, <2>6, <2>7, WhollyWith
  <2> QED BY <2>3, <2>4, <2>8, Zenon
<1>6. CASE ended = "Eof" /\ Ended(state, x)
  <2>1. PICK bs, r : Finished(state, x, bs, r)
    BY <1>6, Zenon DEF Ended
  <2>2. /\ ParsesTo(x, bs, r) /\ Stops(r) /\ BoxLen(r) # Malformed /\ state.opaque = FALSE
        /\ state.out = IF Moofs(bs) = {} THEN InitIfAny(x) ELSE Segments(bs)
    BY <2>1, Zenon DEF Finished, Rests
  <2>3. Boxes(x) = bs /\ Broken(x) = FALSE /\ bs \in Seq(Seq(Nat))
    <3>1. Boxes(x) = bs /\ Broken(x) = (BoxLen(r) = Malformed)
      BY <2>2, ParsedIs
    <3>2. bs \in Seq(Seq(Nat))
      BY <2>2, Zenon DEF ParsesTo
    <3> QED BY <2>2, <3>1, <3>2, Zenon
  <2>4. whole = state.out /\ begun
    <3>1. SegmentsAtEnd(x) = state.out
      BY <2>2, <2>3, Zenon DEF SegmentsAtEnd
    <3> QED BY <1>6, <3>1, Zenon
  <2>5. whole \in Seq(Frag)
    <3>1. Segments(bs) \in Seq(Frag) /\ InitIfAny(x) \in Seq(Frag)
      BY <1>2, <2>3, SegmentsType, SegmentType, Zenon
    <3> QED BY <2>2, <2>4, <3>1, Zenon
  <2> HIDE DEF whole, begun
  <2>6. state.out = whole \o <<>>
    <3>1. whole \o <<>> = whole
      BY <2>5, ConcatEmptySeq, Zenon
    <3> QED BY <2>4, <3>1, Zenon
  <2>7. begun
    BY <2>4
  <2>8. Wholly(x, whole, state.out, begun, state.opaque)
    BY <1>2, <1>3, <2>5, <2>6, <2>7, WhollyWith
  <2> QED BY <2>2, <2>3, <2>8, Zenon
<1> QED BY <1>1, <1>4, <1>5, <1>6, Zenon DEF Handled

\* For any output of the encoder, cut into any pieces: what the stdout reader
\* hands over is the init segment and the complete fragments of the boxes read
\* so far, never a part of a box; at the end of a stream without a moof it is
\* all of it, and behind something that is no box what was read (feed, finish).
THEOREM SegmentsAreWholeHolds == StreamSpec => []SegmentsAreWhole
<1>1. StreamInit => SegmentsSound
  BY SegmentsSoundInit
<1>2. SegmentsSound /\ [StreamNext]_streamVars => SegmentsSound'
  BY SegmentsSoundStep
<1>3. SegmentsSound => SegmentsAreWhole
  BY SegmentsWhole
<1> QED BY <1>1, <1>2, <1>3, PTL DEF StreamSpec

===============================================================================
