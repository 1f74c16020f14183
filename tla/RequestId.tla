------------------------------ MODULE RequestId ------------------------------
(***************************************************************************)
(* Request ids of one session (src/cast/request_id.rs): the allocator, the *)
(* pending map and its timeouts, driven by the iterations of the           *)
(* connection task, against receivers that answer late, twice or never.    *)
(*                                                                         *)
(* Every iteration of the run loop ends by reaping expired requests.  Time *)
(* is counted in ticks; a request's age stands for now - sent_at.  serial  *)
(* and replies are history: they tell which request a reply really answers.*)
(***************************************************************************)
EXTENDS Naturals, FiniteSets

CONSTANTS
    MaxId,        \* u32::MAX
    Timeout,      \* the response timeout, in ticks
    MaxPending,   \* bound on requests outstanding at once
    MaxSerial     \* bound on requests made

ASSUME RequestIdAssumption ==
    /\ MaxId \in Nat \ {0}
    /\ Timeout \in Nat \ {0}
    /\ MaxPending \in Nat \ {0} /\ MaxPending < MaxId
    /\ MaxSerial \in Nat

Ids == 1..MaxId

VARIABLES
    next,      \* RequestId.next
    pending,   \* ids with an outstanding request
    age,       \* their age in ticks
    owner,     \* serial of the request last given each id (0: none yet)
    serial,    \* requests made so far
    replies    \* replies on the wire, <<id, serial of the request>>

idVars == <<next, pending, age, owner, serial, replies>>

IdInit ==
    /\ next = 1
    /\ pending = {}
    /\ age = [i \in Ids |-> 0]
    /\ owner = [i \in Ids |-> 0]
    /\ serial = 0
    /\ replies = {}

-----------------------------------------------------------------------------

\* The ids allocate passes over on its way from next to i.
Skipped(i) == IF i >= next THEN next..(i - 1) ELSE (next..MaxId) \cup (1..(i - 1))

\* A version that hands out next without looking at the pending map.
AllocatesBlindly(i) == i = next

\* allocate returns i: the first id from next on, wrapping at MaxId, that has
\* no outstanding request.
Allocates(i) == i \notin pending /\ Skipped(i) \subseteq pending

\* The counter after i was handed out.
AfterLowestFree(i) == 1
After(i) == IF i = MaxId THEN 1 ELSE i + 1

\* PendingMap::expire: the requests that stay, of those in P with ages a.
UnexpiredForever(P, a) == P
Unexpired(P, a) == {i \in P : a[i] < Timeout}

\* next_request in a command handler (the receiver may answer), then reap.
Request ==
    /\ serial < MaxSerial
    /\ Cardinality(pending) < MaxPending
    /\ \E i \in Ids :
         /\ Allocates(i)
         /\ next' = After(i)
         /\ age' = [age EXCEPT ![i] = 0]
         /\ owner' = [owner EXCEPT ![i] = serial + 1]
         /\ pending' = Unexpired(pending \cup {i}, age')
         /\ \E answered \in BOOLEAN :
              replies' = IF answered THEN replies \cup {<<i, serial + 1>>} ELSE replies
    /\ serial' = serial + 1

\* correlate: a reply, possibly late or duplicated, resolves the id it names;
\* then reap.
Reply ==
    /\ \E r \in replies :
         /\ pending' = Unexpired(pending \ {r[1]}, age)
         /\ \E duplicated \in BOOLEAN :
              replies' = IF duplicated THEN replies ELSE replies \ {r}
    /\ UNCHANGED <<next, age, owner, serial>>

\* Any other iteration (a heartbeat at the latest): reap.
Reap ==
    /\ pending # {}
    /\ pending' = Unexpired(pending, age)
    /\ UNCHANGED <<next, age, owner, serial, replies>>

\* Time passes for the outstanding requests.
Tick ==
    /\ \E i \in pending : age[i] < Timeout
    /\ age' = [i \in Ids |-> IF i \in pending /\ age[i] < Timeout THEN age[i] + 1 ELSE age[i]]
    /\ UNCHANGED <<next, pending, owner, serial, replies>>

IdNext == Request \/ Reply \/ Reap \/ Tick

IdSpec == IdInit /\ [][IdNext]_idVars

\* Time passes and the heartbeat wakes the loop.
IdFairSpec == IdSpec /\ WF_idVars(Reap) /\ WF_idVars(Tick)

-----------------------------------------------------------------------------

\* Ids stay in 1..u32::MAX: 0 is never handed out, across the wrap.
IdsOK ==
    /\ next \in Ids
    /\ pending \subseteq Ids
    /\ age \in [Ids -> Nat]
    /\ owner \in [Ids -> Nat]
    /\ serial \in Nat
    /\ replies \subseteq Ids \X Nat

\* An outstanding request keeps its id: nobody else is given it, even when the
\* counter wraps onto it.
NoReuseWhilePending ==
    [][\A i \in pending : owner'[i] = owner[i]]_idVars

\* A reply that names the id of another, newer request is older than it by
\* nearly the whole id space: late and duplicated replies are taken for
\* somebody else's only after a wrap.
MisattributionNeedsWrap ==
    \A r \in replies :
        r[1] \in pending /\ owner[r[1]] # r[2] =>
            owner[r[1]] >= r[2] + MaxId - MaxPending + 1

\* Every request settles: it is answered or reaped.
RequestsSettle == \A i \in Ids : i \in pending ~> i \notin pending

=============================================================================
