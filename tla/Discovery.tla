------------------------------ MODULE Discovery ------------------------------
(***************************************************************************)
(* The mDNS discovery task (src/cast/mdns.rs): it queries every            *)
(* REQUERY_INTERVAL, keeps a table of receivers by address, drops those    *)
(* that have been silent, and sends the list to the GUI.                   *)
(*                                                                         *)
(* A packet is the records that parse_packet reads from it; one that is    *)
(* malformed is discarded and counts as lost.  A receiver is a service     *)
(* instance, which has a port of its own, at the IP of a host; two         *)
(* instances may share a host and one may move to another.  The network    *)
(* may lose, repeat and delay packets, and a packet may hold the records   *)
(* of two receivers or lack some: any such packet of receivers that are    *)
(* about may arrive at any time.                                           *)
(***************************************************************************)
EXTENDS Naturals, Sequences, FiniteSetsExt

CONSTANTS
    Instances,     \* service instances, and their ports
    Hosts,         \* host names, and their IPs
    Addrs,         \* where instances may be: the <<instance, host>> that exist
    MissedCycles,  \* MISSED_CYCLES_TO_EXPIRE
    None

ASSUME DiscoveryAssumption ==
    /\ Addrs \subseteq Instances \X Hosts
    /\ Instances \cap Hosts = {}      \* no host has the name of an instance
    /\ None \notin Hosts \cup {"Described", "Label"}
    /\ MissedCycles \in Nat \ {0}

\* (IP, port) as packets may combine them.
Keys == Instances \X Hosts

\* What TXT tells of a receiver: its friendly name and its id.  Without it
\* the instance's label is the name and there is no id.
Infos == {"Described", "Label"}

-----------------------------------------------------------------------------
(* Packets.                                                                *)

Ptr(i)    == [type |-> "PTR", owner |-> "googlecast", instance |-> i]
Srv(a)    == [type |-> "SRV", owner |-> a[1], target |-> a[2]]
Txt(i)    == [type |-> "TXT", owner |-> i]
Ip(h)     == [type |-> "A", owner |-> h, ip |-> h]

InstanceIp(a) == [type |-> "A", owner |-> a[1], ip |-> a[2]]

\* All there is to say about a, the same with the A record under the name of
\* the instance, and with a record missing.
Answers(a) ==
    {<<Ptr(a[1]), Srv(a), Txt(a[1]), Ip(a[2])>>,
     <<Ptr(a[1]), Srv(a), InstanceIp(a)>>,
     <<Srv(a), Txt(a[1]), Ip(a[2])>>, <<Ptr(a[1]), Txt(a[1]), Ip(a[2])>>,
     <<Ptr(a[1]), Srv(a), Ip(a[2])>>, <<Ptr(a[1]), Srv(a), Txt(a[1])>>}

\* The packets of the receivers in S.
Packets(S) == {p \o q : p, q \in {<<>>} \cup UNION {Answers(a) : a \in S}}

\* correlate: of the records of a kind that one name owns, the last counts.
Owned(records, type, name) == {k \in DOMAIN records : records[k].type = type /\ records[k].owner = name}
Has(records, type, name)   == Owned(records, type, name) # {}
The(records, type, name)   == records[Max(Owned(records, type, name))]

\* The IP comes from the host that SRV names, or else from the instance.
AnyIp(records, i) ==
    LET ips == {k \in DOMAIN records : records[k].type = "A"}
    IN IF ips = {} THEN None ELSE records[Max(ips)].ip
IpOf(records, i) ==
    LET target == The(records, "SRV", i).target
    IN CASE Has(records, "A", target) -> The(records, "A", target).ip
         [] ~Has(records, "A", target) /\ Has(records, "A", i) -> The(records, "A", i).ip
         [] OTHER -> None

\* An instance without SRV or A is skipped.
Device(records, i) ==
    IF ~Has(records, "SRV", i) THEN None
    ELSE IF IpOf(records, i) = None THEN None
    ELSE [addr |-> <<i, IpOf(records, i)>>,
          info |-> IF Has(records, "TXT", i) THEN "Described" ELSE "Label"]

\* The devices of a packet.  Their order does not matter: what a packet says
\* of an instance is one device, however often PTR names it, and two instances
\* have two ports, so no two devices of a packet have the same address.
Named(records) == {k \in DOMAIN records : records[k].type = "PTR" /\ records[k].owner = "googlecast"}
Correlate(records) == {Device(records, records[k].instance) : k \in Named(records)} \ {None}

\* What parse_packet makes of the packets of the receivers in S.
ParsePacket == [S \in SUBSET Addrs |-> {Correlate(p) : p \in Packets(S)}]

-----------------------------------------------------------------------------

VARIABLES
    about,        \* receivers whose packets may arrive
    running,      \* the task's loop
    info,         \* devices: what is known of each address, or None
    missed,       \* devices: missed_cycles
    receivers,    \* the last ReceiversUpdated sent
    heard,        \* history: announced since the last query cycle
    silent        \* history: whole query cycles without one (capped)

devices == <<info, missed>>
history == <<heard, silent>>
vars    == <<about, running, devices, receivers, history>>

Init ==
    /\ about \in SUBSET Addrs /\ running = TRUE
    /\ info = [a \in Keys |-> None] /\ missed = [a \in Keys |-> 0]
    /\ receivers = info
    /\ heard = [a \in Keys |-> FALSE] /\ silent = [a \in Keys |-> 0]

\* push_snapshot, when the table changed.
PushSnapshot(changed) == receivers' = IF changed THEN info' ELSE receivers

-----------------------------------------------------------------------------

\* upsert_device: what is known of a and its missed_cycles, refreshed when one
\* of the devices found is at a.
UpsertNoRefresh(found, a) ==
    IF \E x \in found : x.addr = a
    THEN [info |-> (CHOOSE x \in found : x.addr = a).info, missed |-> missed[a]]
    ELSE [info |-> info[a], missed |-> missed[a]]
UpsertDevice(found, a) ==
    IF \E x \in found : x.addr = a
    THEN [info |-> (CHOOSE x \in found : x.addr = a).info, missed |-> 0]
    ELSE [info |-> info[a], missed |-> missed[a]]

\* Its result: a device that is new, or whose name or id is.
ChangedIfNew(found) == \E x \in found : info[x.addr] = None
Changed(found)      == \E x \in found : info[x.addr] # x.info

\* recv_from: every receiver the packet describes, then one snapshot.
Receive(found) ==
    /\ running
    /\ info' = [a \in Keys |-> UpsertDevice(found, a).info]
    /\ missed' = [a \in Keys |-> UpsertDevice(found, a).missed]
    /\ PushSnapshot(Changed(found))
    /\ heard' = [a \in Keys |-> heard[a] \/ \E x \in found : x.addr = a]
    /\ UNCHANGED <<about, running, silent>>

\* expire_cycle keeps a device while its count stays below the limit.
CountStuck(a) == IF missed[a] + 1 < MissedCycles THEN missed[a] + 1 ELSE missed[a]
Count(a)      == missed[a] + 1
Kept(a)       == info[a] # None /\ Count(a) < MissedCycles

\* interval.tick: send a query and let a cycle pass.  The query that a Rescan
\* sends out of turn is no cycle and changes nothing here.
Tick ==
    /\ running
    /\ info' = [a \in Keys |-> IF Kept(a) THEN info[a] ELSE None]
    /\ missed' = [a \in Keys |-> IF Kept(a) THEN Count(a) ELSE 0]
    /\ PushSnapshot(info' # info)
    /\ heard' = [a \in Keys |-> FALSE]
    /\ silent' = [a \in Keys |-> IF info[a] = None \/ heard[a] THEN 0
                                ELSE IF silent[a] = MissedCycles - 1 THEN silent[a]
                                ELSE silent[a] + 1]
    /\ UNCHANGED <<about, running>>

\* The token, or the rescan sender is gone.
Stop == running /\ running' = FALSE /\ UNCHANGED <<about, devices, receivers, history>>

\* A receiver is switched on, or off and its last packet has arrived.
Appear(a) == a \notin about /\ about' = about \cup {a} /\ UNCHANGED <<running, devices, receivers, history>>
Vanish(a) == a \in about /\ about' = about \ {a} /\ UNCHANGED <<running, devices, receivers, history>>

Next == \/ \E found \in ParsePacket[about] : Receive(found)
        \/ Tick \/ Stop
        \/ \E a \in Addrs : Appear(a) \/ Vanish(a)

Spec == Init /\ [][Next]_vars

\* The interval keeps ticking while the task runs.
FairSpec == Spec /\ WF_vars(Tick)

-----------------------------------------------------------------------------
(* Properties.                                                             *)

\* Types, and missed_cycles below the limit for every device kept.
TypeOK ==
    /\ about \subseteq Addrs /\ running \in BOOLEAN
    /\ info \in [Keys -> Infos \cup {None}] /\ receivers \in [Keys -> Infos \cup {None}]
    /\ missed \in [Keys -> 0..MissedCycles - 1]
    /\ heard \in [Keys -> BOOLEAN] /\ silent \in [Keys -> 0..MissedCycles - 1]

\* The GUI's list is the table: every change, a renamed receiver and one that
\* expired included, has been sent.
ListIsCurrent == receivers = info

\* The table is well formed, its counts below the limit (expire_cycle), and
\* the list shown is the table.
TableInv == TypeOK /\ ListIsCurrent

\* A receiver that is listed exists: its port and its IP were never taken from
\* records of two receivers, nor from what is left of an incomplete answer
\* (correlate).
ListedExist == \A a \in Keys : receivers[a] # None => a \in Addrs

\* A receiver that answers is not dropped: one query cycle without an answer,
\* a lost packet, is always forgiven.
Dropped(a) == info[a] # None /\ info'[a] = None
LossForgiven == [][\A a \in Keys : Dropped(a) => silent'[a] = MissedCycles - 1]_vars

\* A receiver that is gone leaves the list.
GoneExpires == \A a \in Addrs :
    (a \notin about /\ info[a] # None) ~> (a \in about \/ receivers[a] = None \/ ~running)

=============================================================================
