--------------------------- MODULE DiscoveryProofs ---------------------------
(***************************************************************************)
(* The list of receivers is the table, it names only receivers that exist, *)
(* and a receiver is dropped only after MISSED_CYCLES_TO_EXPIRE - 1 whole  *)
(* query cycles of silence: for any number of instances and hosts, and     *)
(* however their packets are cut, joined, repeated and delayed.            *)
(***************************************************************************)
EXTENDS Discovery, FiniteSetTheorems, WellFoundedInduction, TLAPS

-----------------------------------------------------------------------------
(* The last record of a kind.                                              *)

\* A bounded set of numbers that is not empty has a least element.
LEMMA LeastExists ==
    ASSUME NEW n \in Nat, NEW T, T \subseteq 0..n, T # {}
    PROVE  \E x \in T : \A y \in T : x <= y
<1> DEFINE R == StrictSubsetOrdering(0..n)
           F == {0..k : k \in T}
<1>1. IsWellFoundedOn(R, SUBSET (0..n))
  <2>1. IsFiniteSet(0..n)
    BY FS_Interval
  <2> QED BY <2>1, FS_StrictSubsetOrderingWellFounded, FS_FiniteSubsetsOfFinite
<1>2. F \subseteq SUBSET (0..n)
  <2> SUFFICES ASSUME NEW k \in T PROVE 0..k \subseteq 0..n
    OBVIOUS
  <2> QED OBVIOUS
<1>3. F # {}
  OBVIOUS
<1>4. \E x \in F : \A y \in F : ~(<<y, x>> \in R)
  <2> HIDE DEF F, R
  <2> QED BY <1>1, <1>2, <1>3, WFMin
<1>5. PICK x \in T : \A y \in T : ~(<<0..y, 0..x>> \in R)
  BY <1>4
<1>6. ASSUME NEW y \in T PROVE x <= y
  <2> SUFFICES ASSUME y < x PROVE FALSE
    OBVIOUS
  <2>1. x \in 0..x /\ x \notin 0..y
    OBVIOUS
  <2>2. 0..y \subseteq 0..x /\ 0..y # 0..x
    BY <2>1
  <2>3. <<0..y, 0..x>> \in R
    BY <2>2 DEF StrictSubsetOrdering
  <2> QED BY <1>5, <2>3
<1> QED BY <1>6

\* So the last of the records of a packet that are of some kind is one of them.
LEMMA LastIsOne ==
    ASSUME NEW n \in Nat, NEW T, T \subseteq 1..n, T # {}
    PROVE  Max(T) \in T
<1> DEFINE U == {n - k : k \in T}
<1>1. U \subseteq 0..n /\ U # {}
  <2>1. ASSUME NEW k \in T PROVE n - k \in 0..n
    OBVIOUS
  <2> QED BY <2>1
<1>2. PICK u \in U : \A v \in U : u <= v
  <2> HIDE DEF U
  <2> QED BY <1>1, LeastExists
<1>3. PICK k \in T : u = n - k
  BY <1>2
<1>4. ASSUME NEW y \in T PROVE k >= y
  <2>1. n - k <= n - y
    BY <1>2, <1>3
  <2>2. k \in 1..n /\ y \in 1..n
    OBVIOUS
  <2> QED BY <2>1, <2>2
<1>5. \E x \in T : \A y \in T : x >= y
  BY <1>4
<1> QED BY <1>5 DEF Max

-----------------------------------------------------------------------------
(* What packets can say.                                                   *)

\* The records of the receivers in S.
Records(S) == UNION {{Ptr(a[1]), Srv(a), Txt(a[1]), Ip(a[2]), InstanceIp(a)} : a \in S}

\* A packet holds nothing else.
LEMMA PacketRecords ==
    ASSUME NEW S \in SUBSET Addrs, NEW p \in Packets(S)
    PROVE  p \in Seq(Records(S))
<1>1. ASSUME NEW a \in S PROVE Answers(a) \subseteq Seq(Records(S))
  <2> DEFINE W == {Ptr(a[1]), Srv(a), Txt(a[1]), Ip(a[2]), InstanceIp(a)}
  <2>1. W \subseteq Records(S)
    BY DEF Records
  <2>2. ASSUME NEW w, NEW x, NEW y, NEW z, w \in Records(S), x \in Records(S), y \in Records(S), z \in Records(S)
        PROVE  <<w, x, y, z>> \in Seq(Records(S)) /\ <<x, y, z>> \in Seq(Records(S))
    BY <2>2
  <2>3. Ptr(a[1]) \in Records(S) /\ Srv(a) \in Records(S) /\ Txt(a[1]) \in Records(S)
           /\ Ip(a[2]) \in Records(S) /\ InstanceIp(a) \in Records(S)
    BY <2>1
  <2> QED BY <2>2, <2>3 DEF Answers
<1>2. <<>> \in Seq(Records(S))
  OBVIOUS
<1>3. {<<>>} \cup UNION {Answers(a) : a \in S} \subseteq Seq(Records(S))
  <2> SUFFICES ASSUME NEW q \in {<<>>} \cup UNION {Answers(a) : a \in S}
               PROVE  q \in Seq(Records(S))
    OBVIOUS
  <2>1. q = <<>> \/ \E a \in S : q \in Answers(a)
    OBVIOUS
  <2> QED BY <1>1, <1>2, <2>1
<1>4. ASSUME NEW x \in Seq(Records(S)), NEW y \in Seq(Records(S)) PROVE x \o y \in Seq(Records(S))
  OBVIOUS
<1>5. PICK x, y \in {<<>>} \cup UNION {Answers(a) : a \in S} : p = x \o y
  BY DEF Packets
<1>6. x \in Seq(Records(S)) /\ y \in Seq(Records(S))
  BY <1>3, <1>5
<1> QED BY <1>4, <1>5, <1>6

\* SRV names a host that its instance is at; an A record that a host owns has
\* the IP of that host, and one that an instance owns that of a host it is at.
LEMMA RecordsAreTrue ==
    ASSUME NEW S \in SUBSET Addrs, NEW r \in Records(S)
    PROVE  /\ r.type = "PTR" => r.instance \in Instances
           /\ r.type = "SRV" => <<r.owner, r.target>> \in S
           /\ (r.type = "A" /\ r.owner \in Hosts) => r.ip = r.owner
           /\ (r.type = "A" /\ r.owner \in Instances) => <<r.owner, r.ip>> \in S
<1>1. PICK a \in S : r \in {Ptr(a[1]), Srv(a), Txt(a[1]), Ip(a[2]), InstanceIp(a)}
  BY DEF Records
<1>2. a \in Instances \X Hosts /\ a = <<a[1], a[2]>> /\ a[1] \in Instances /\ a[2] \in Hosts
  BY DiscoveryAssumption
<1>3. a[1] \notin Hosts /\ a[2] \notin Instances
  BY <1>2, DiscoveryAssumption
<1>4. CASE r = Ptr(a[1])
  BY <1>2, <1>4 DEF Ptr
<1>5. CASE r = Srv(a)
  BY <1>2, <1>5 DEF Srv
<1>6. CASE r = Txt(a[1])
  BY <1>6 DEF Txt
<1>7. CASE r = Ip(a[2])
  BY <1>3, <1>7 DEF Ip
<1>8. CASE r = InstanceIp(a)
  BY <1>2, <1>3, <1>8 DEF InstanceIp
<1> QED BY <1>1, <1>4, <1>5, <1>6, <1>7, <1>8

\* The record that counts for a name is one of those that it owns.
LEMMA TheIsOwned ==
    ASSUME NEW R, NEW p \in Seq(R), NEW type, NEW name, Has(p, type, name)
    PROVE  /\ The(p, type, name) \in R
           /\ The(p, type, name).type = type /\ The(p, type, name).owner = name
<1> DEFINE T == Owned(p, type, name)
<1>1. T \subseteq 1..Len(p) /\ T # {} /\ Len(p) \in Nat
  BY DEF Owned, Has
<1>2. Max(T) \in T
  <2> HIDE DEF T
  <2> QED BY <1>1, LastIsOne
<1>3. The(p, type, name) = p[Max(T)]
  BY DEF The
<1> QED BY <1>2, <1>3 DEF Owned

\* The IP that correlate takes for an instance is that of a host where it is.
LEMMA IpIsTrue ==
    ASSUME NEW S \in SUBSET Addrs, NEW p \in Packets(S), NEW i \in Instances,
           Has(p, "SRV", i), IpOf(p, i) # None
    PROVE  <<i, IpOf(p, i)>> \in S
<1> DEFINE srv == The(p, "SRV", i)
           target == srv.target
<1>1. p \in Seq(Records(S))
  BY PacketRecords
<1>2. srv \in Records(S) /\ srv.type = "SRV" /\ srv.owner = i
  BY <1>1, TheIsOwned
<1>3. <<i, target>> \in S
  BY <1>2, RecordsAreTrue
<1>4. target \in Hosts
  BY <1>3, DiscoveryAssumption
<1>5. IpOf(p, i) = CASE Has(p, "A", target) -> The(p, "A", target).ip
                     [] ~Has(p, "A", target) /\ Has(p, "A", i) -> The(p, "A", i).ip
                     [] OTHER -> None
  BY DEF IpOf
<1> HIDE DEF srv, target
<1>6. CASE Has(p, "A", target)
  <2>1. The(p, "A", target) \in Records(S) /\ The(p, "A", target).type = "A"
          /\ The(p, "A", target).owner = target
    BY <1>1, <1>6, TheIsOwned
  <2>2. The(p, "A", target).ip = target
    BY <2>1, <1>4, RecordsAreTrue
  <2> QED BY <1>3, <1>5, <1>6, <2>2
<1>7. CASE ~Has(p, "A", target) /\ Has(p, "A", i)
  <2>1. The(p, "A", i) \in Records(S) /\ The(p, "A", i).type = "A" /\ The(p, "A", i).owner = i
    BY <1>1, <1>7, TheIsOwned
  <2>2. <<i, The(p, "A", i).ip>> \in S
    BY <2>1, RecordsAreTrue
  <2> QED BY <1>5, <1>7, <2>2
<1>8. CASE ~Has(p, "A", target) /\ ~Has(p, "A", i)
  BY <1>5, <1>8
<1> QED BY <1>6, <1>7, <1>8

\* What parse_packet finds in packets of the receivers in S: receivers in S.
LEMMA FoundExist ==
    ASSUME NEW S \in SUBSET Addrs, NEW found \in ParsePacket[S]
    PROVE  \A x \in found : x.addr \in S /\ x.info \in Infos
<1>1. PICK p \in Packets(S) : found = Correlate(p)
  BY DEF ParsePacket
<1> SUFFICES ASSUME NEW x \in found PROVE x.addr \in S /\ x.info \in Infos
  OBVIOUS
<1>2. x # None
  BY <1>1 DEF Correlate
<1>3. PICK k \in Named(p) : x = Device(p, p[k].instance)
  BY <1>1 DEF Correlate
<1>4. p[k] \in Records(S) /\ p[k].type = "PTR"
  <2>1. p \in Seq(Records(S)) /\ k \in DOMAIN p /\ p[k].type = "PTR"
    BY <1>3, PacketRecords DEF Named
  <2> QED BY <2>1
<1> DEFINE i == p[k].instance
<1>5. i \in Instances
  BY <1>4, RecordsAreTrue
<1>6. x = Device(p, i)
  BY <1>3
<1> HIDE DEF i
<1>7. Has(p, "SRV", i) /\ IpOf(p, i) # None
  BY <1>2, <1>6 DEF Device
<1>8. x.addr = <<i, IpOf(p, i)>> /\ x.info \in Infos
  BY <1>6, <1>7 DEF Device, Infos
<1> QED BY <1>5, <1>7, <1>8, IpIsTrue

\* No packet describes an address twice: upsert_device is called once for each
\* address, or again with the same device, so the order of the calls is lost
\* on the table.
LEMMA FoundOnce ==
    ASSUME NEW p, NEW x \in Correlate(p), NEW y \in Correlate(p), x.addr = y.addr
    PROVE  x = y
<1>1. PICK k \in Named(p) : x = Device(p, p[k].instance) /\ x # None
  BY DEF Correlate
<1>2. PICK l \in Named(p) : y = Device(p, p[l].instance) /\ y # None
  BY DEF Correlate
<1>3. ASSUME NEW i, Device(p, i) # None PROVE Device(p, i).addr = <<i, IpOf(p, i)>>
  BY <1>3 DEF Device
<1>4. p[k].instance = p[l].instance
  BY <1>1, <1>2, <1>3
<1> QED BY <1>1, <1>2, <1>4
-----------------------------------------------------------------------------
(* The table.                                                              *)

\* missed_cycles never runs ahead of the cycles of silence by more than the
\* one that has just begun.
CountIsSilence ==
    \A a \in Keys : info[a] # None =>
        missed[a] <= silent[a] + 1 /\ (heard[a] = TRUE => missed[a] = 0)

IInv == TypeOK /\ ListIsCurrent /\ ListedExist /\ CountIsSilence

LEMMA IInvInit == Init => IInv
<1> SUFFICES ASSUME Init PROVE IInv
  OBVIOUS
<1> USE DiscoveryAssumption DEF Init
<1>1. 0 \in 0..MissedCycles - 1
  OBVIOUS
<1>2. heard \in [Keys -> BOOLEAN]
  OBVIOUS
<1>3. TypeOK
  BY <1>1, <1>2 DEF TypeOK
<1>4. ListIsCurrent
  BY DEF ListIsCurrent
<1>5. ListedExist /\ CountIsSilence
  BY DEF ListedExist, CountIsSilence
<1> QED BY <1>3, <1>4, <1>5 DEF IInv

\* A packet: what upsert_device did for an address.
LEMMA ReceiveEffect ==
    ASSUME IInv, NEW found \in ParsePacket[about], Receive(found), NEW a \in Keys
    PROVE  \/ /\ \E x \in found : x.addr = a
              /\ a \in Addrs /\ info'[a] \in Infos /\ missed'[a] = 0 /\ heard'[a] = TRUE
           \/ /\ ~ \E x \in found : x.addr = a
              /\ info'[a] = info[a] /\ missed'[a] = missed[a] /\ heard'[a] = heard[a]
<1>1. about \in SUBSET Addrs /\ heard[a] \in BOOLEAN
  BY DEF IInv, TypeOK
<1>2. \A x \in found : x.addr \in about /\ x.info \in Infos
  BY <1>1, FoundExist
<1>3. info'[a] = UpsertDevice(found, a).info /\ missed'[a] = UpsertDevice(found, a).missed
  BY DEF Receive
<1>4. heard'[a] = (heard[a] \/ \E x \in found : x.addr = a)
  BY DEF Receive
<1>5. CASE \E x \in found : x.addr = a
  <2> DEFINE y == CHOOSE x \in found : x.addr = a
  <2>1. y \in found /\ y.addr = a
    BY <1>5
  <2>2. UpsertDevice(found, a) = [info |-> y.info, missed |-> 0]
    BY <1>5 DEF UpsertDevice
  <2> HIDE DEF y
  <2>3. a \in Addrs /\ y.info \in Infos
    BY <1>1, <1>2, <2>1
  <2>4. heard'[a] = TRUE
    BY <1>4, <1>5, Zenon
  <2> QED BY <1>3, <1>5, <2>2, <2>3, <2>4
<1>6. CASE ~ \E x \in found : x.addr = a
  <2>1. UpsertDevice(found, a) = [info |-> info[a], missed |-> missed[a]]
    BY <1>6 DEF UpsertDevice
  <2>2. heard'[a] = heard[a]
    BY <1>1, <1>4, <1>6, Zenon
  <2> QED BY <1>3, <1>6, <2>1, <2>2
<1> QED BY <1>5, <1>6

\* A packet that changes nothing upsert_device reports leaves the table alone.
LEMMA Unreported ==
    ASSUME IInv, NEW found \in ParsePacket[about], Receive(found), ~Changed(found)
    PROVE  info' = info
<1>1. info \in [Keys -> Infos \cup {None}] /\ info' = [a \in Keys |-> UpsertDevice(found, a).info]
  BY DEF IInv, TypeOK, Receive
<1>2. ASSUME NEW a \in Keys PROVE UpsertDevice(found, a).info = info[a]
  <2>1. CASE \E x \in found : x.addr = a
    <3> DEFINE y == CHOOSE x \in found : x.addr = a
    <3>1. y \in found /\ y.addr = a
      BY <2>1
    <3>2. UpsertDevice(found, a).info = y.info
      BY <2>1 DEF UpsertDevice
    <3> HIDE DEF y
    <3> QED BY <3>1, <3>2 DEF Changed
  <2>2. CASE ~ \E x \in found : x.addr = a
    BY <2>2 DEF UpsertDevice
  <2> QED BY <2>1, <2>2
<1> QED BY <1>1, <1>2

LEMMA ReceiveKeeps ==
    ASSUME IInv, NEW found \in ParsePacket[about], Receive(found)
    PROVE  IInv'
<1>1. \A a \in Keys : \/ a \in Addrs /\ info'[a] \in Infos /\ missed'[a] = 0 /\ heard'[a] = TRUE
                      \/ info'[a] = info[a] /\ missed'[a] = missed[a] /\ heard'[a] = heard[a]
  BY ReceiveEffect
<1>2. UNCHANGED <<about, running, silent>>
  BY DEF Receive
<1>3. info' \in [Keys -> Infos \cup {None}]
  <2>1. info' = [a \in Keys |-> info'[a]] /\ info \in [Keys -> Infos \cup {None}]
    BY DEF Receive, IInv, TypeOK
  <2>2. \A a \in Keys : info'[a] \in Infos \cup {None}
    BY <1>1, <2>1
  <2> QED BY <2>1, <2>2
<1>4. ListIsCurrent'
  <2>1. receivers' = IF Changed(found) THEN info' ELSE receivers
    BY DEF Receive, PushSnapshot
  <2>2. receivers = info
    BY DEF IInv, ListIsCurrent
  <2> QED BY <2>1, <2>2, Unreported DEF ListIsCurrent
<1>5. TypeOK'
  <2>1. missed' \in [Keys -> 0..MissedCycles - 1]
    <3>1. missed' = [a \in Keys |-> missed'[a]] /\ missed \in [Keys -> 0..MissedCycles - 1]
      BY DEF Receive, IInv, TypeOK
    <3>2. \A a \in Keys : missed'[a] \in 0..MissedCycles - 1
      BY <1>1, <3>1, DiscoveryAssumption
    <3> QED BY <3>1, <3>2
  <2>2. heard' \in [Keys -> BOOLEAN]
    <3>1. heard' = [a \in Keys |-> heard'[a]] /\ heard \in [Keys -> BOOLEAN]
      BY DEF Receive, IInv, TypeOK
    <3>2. \A a \in Keys : heard'[a] \in BOOLEAN
      BY <1>1, <3>1, Zenon
    <3> QED BY <3>1, <3>2
  <2>3. receivers' = info'
    BY <1>4 DEF ListIsCurrent
  <2> QED BY <1>2, <1>3, <2>1, <2>2, <2>3 DEF IInv, TypeOK
<1>6. ListedExist'
  <2>1. receivers' = info' /\ receivers = info
    BY <1>4 DEF ListIsCurrent, IInv
  <2> QED BY <1>1, <2>1 DEF IInv, ListedExist
<1>7. CountIsSilence'
  <2> SUFFICES ASSUME NEW a \in Keys, info'[a] # None
               PROVE  missed'[a] <= silent'[a] + 1 /\ (heard'[a] = TRUE => missed'[a] = 0)
    BY DEF CountIsSilence
  <2>1. silent'[a] = silent[a] /\ silent[a] \in Nat
    BY <1>2, DiscoveryAssumption DEF IInv, TypeOK
  <2> QED BY <1>1, <2>1 DEF IInv, CountIsSilence
<1> QED BY <1>4, <1>5, <1>6, <1>7 DEF IInv

LEMMA TickKeeps == IInv /\ Tick => IInv'
<1> SUFFICES ASSUME IInv, Tick PROVE IInv'
  OBVIOUS
<1> USE DiscoveryAssumption
<1>1. TypeOK /\ receivers = info
  BY DEF IInv, ListIsCurrent
<1>2. /\ info' = [a \in Keys |-> IF Kept(a) THEN info[a] ELSE None]
      /\ missed' = [a \in Keys |-> IF Kept(a) THEN Count(a) ELSE 0]
      /\ heard' = [a \in Keys |-> FALSE] /\ UNCHANGED <<about, running>>
  BY DEF Tick
<1>3. silent' = [a \in Keys |-> IF info[a] = None \/ heard[a] THEN 0
                                    ELSE IF silent[a] = MissedCycles - 1 THEN silent[a]
                                    ELSE silent[a] + 1]
  BY DEF Tick
<1>4. receivers' = info'
  BY <1>1 DEF Tick, PushSnapshot
<1>5. ASSUME NEW a \in Keys
      PROVE  /\ missed[a] \in 0..MissedCycles - 1 /\ silent[a] \in 0..MissedCycles - 1
             /\ heard[a] \in BOOLEAN
             /\ Kept(a) => missed'[a] = missed[a] + 1 /\ missed[a] + 1 < MissedCycles
             /\ ~Kept(a) => missed'[a] = 0 /\ info'[a] = None
             /\ Kept(a) => info'[a] = info[a] /\ info[a] # None
  BY <1>1, <1>2 DEF TypeOK, Kept, Count
<1>6. ASSUME NEW a \in Keys
      PROVE  \/ (info[a] = None \/ heard[a] = TRUE) /\ silent'[a] = 0
             \/ /\ info[a] # None /\ heard[a] = FALSE
                /\ silent'[a] = IF silent[a] = MissedCycles - 1 THEN silent[a] ELSE silent[a] + 1
  <2>1. silent'[a] = IF info[a] = None \/ heard[a] THEN 0
                       ELSE IF silent[a] = MissedCycles - 1 THEN silent[a]
                       ELSE silent[a] + 1
    BY <1>3
  <2>2. CASE info[a] = None \/ heard[a] = TRUE
    <3>1. CASE info[a] = None
      BY <2>1, <3>1
    <3>2. CASE heard[a] = TRUE
      BY <2>1, <3>2
    <3> QED BY <2>2, <3>1, <3>2
  <2>3. CASE info[a] # None /\ heard[a] = FALSE
    <3>1. silent'[a] = IF silent[a] = MissedCycles - 1 THEN silent[a] ELSE silent[a] + 1
      BY <2>1, <2>3
    <3> QED BY <2>3, <3>1, Zenon
  <2>4. heard[a] = TRUE \/ heard[a] = FALSE
    BY <1>1 DEF TypeOK
  <2> QED BY <2>2, <2>3, <2>4, Zenon
<1>7. TypeOK'
  <2>1. info' \in [Keys -> Infos \cup {None}]
    BY <1>1, <1>2 DEF TypeOK
  <2>2. missed' \in [Keys -> 0..MissedCycles - 1]
    <3>1. \A a \in Keys : missed'[a] \in 0..MissedCycles - 1
      BY <1>5
    <3> QED BY <1>2, <3>1
  <2>3. silent' \in [Keys -> 0..MissedCycles - 1]
    <3>1. ASSUME NEW a \in Keys PROVE silent'[a] \in 0..MissedCycles - 1
      <4>1. silent'[a] = 0 \/ silent'[a] = IF silent[a] = MissedCycles - 1 THEN silent[a] ELSE silent[a] + 1
        BY <1>6, Zenon
      <4> QED BY <1>5, <4>1
    <3> QED BY <1>3, <3>1
  <2>4. heard' \in [Keys -> BOOLEAN]
    BY <1>2
  <2> QED BY <1>1, <1>2, <1>4, <2>1, <2>2, <2>3, <2>4 DEF TypeOK
<1>8. ListedExist'
  BY <1>1, <1>4, <1>5 DEF ListedExist, IInv
<1>9. CountIsSilence'
  <2> SUFFICES ASSUME NEW a \in Keys, info'[a] # None
               PROVE  missed'[a] <= silent'[a] + 1 /\ heard'[a] = FALSE
    BY DEF CountIsSilence
  <2>1. Kept(a)
    BY <1>5
  <2>2. missed'[a] = missed[a] + 1 /\ missed[a] + 1 < MissedCycles /\ info[a] # None
    BY <1>5, <2>1
  <2>3. missed[a] <= silent[a] + 1 /\ (heard[a] = TRUE => missed[a] = 0)
    BY <2>2 DEF IInv, CountIsSilence
  <2>4. heard'[a] = FALSE
    BY <1>2
  <2>5. \/ missed[a] = 0 /\ silent'[a] = 0
        \/ silent'[a] = IF silent[a] = MissedCycles - 1 THEN silent[a] ELSE silent[a] + 1
    BY <1>6, <2>2, <2>3, Zenon
  <2>6. missed'[a] <= silent'[a] + 1
    BY <1>5, <2>2, <2>3, <2>5
  <2> QED BY <2>4, <2>6
<1> QED BY <1>4, <1>7, <1>8, <1>9 DEF IInv, ListIsCurrent

LEMMA NextKeeps == IInv /\ [Next]_vars => IInv'
<1> SUFFICES ASSUME IInv, [Next]_vars PROVE IInv'
  OBVIOUS
<1>1. ASSUME NEW found \in ParsePacket[about], Receive(found) PROVE IInv'
  BY <1>1, ReceiveKeeps
<1>2. CASE Tick
  BY <1>2, TickKeeps
<1>3. ASSUME UNCHANGED <<devices, receivers, history>>, about' \subseteq Addrs, running' \in BOOLEAN
      PROVE  IInv'
  BY <1>3 DEF IInv, TypeOK, ListIsCurrent, ListedExist, CountIsSilence, devices, history
<1>4. CASE Stop
  BY <1>3, <1>4 DEF Stop, IInv, TypeOK
<1>5. ASSUME NEW a \in Addrs, Appear(a) \/ Vanish(a) PROVE IInv'
  BY <1>3, <1>5 DEF Appear, Vanish, IInv, TypeOK
<1>6. CASE UNCHANGED vars
  BY <1>3, <1>6 DEF vars, IInv, TypeOK
<1> QED BY <1>1, <1>2, <1>4, <1>5, <1>6 DEF Next

LEMMA IInvHolds == Spec => []IInv
<1> QED BY IInvInit, NextKeeps, PTL DEF Spec

\* The list that the GUI was sent is the table, after any packets and cycles:
\* upsert_device and expire_cycle report every change that push_snapshot has
\* to send, and expire_cycle keeps missed_cycles below the limit.
THEOREM ListFollowsTable == Spec => []TableInv
<1>1. IInv => TableInv
  BY DEF IInv, TableInv
<1> QED BY <1>1, IInvHolds, PTL

\* Whatever packets of existing receivers arrive, correlate never makes up a
\* receiver out of the records of several.
THEOREM ListedReceiversExist == Spec => []ListedExist
<1>1. IInv => ListedExist
  BY DEF IInv
<1> QED BY <1>1, IInvHolds, PTL

\* A receiver is dropped (expire_cycle) only after MISSED_CYCLES_TO_EXPIRE - 1
\* query cycles in which none of its answers arrived.
THEOREM LossesAreForgiven == Spec => LossForgiven
<1>1. ASSUME IInv, [Next]_vars, NEW a \in Keys, Dropped(a) PROVE silent'[a] = MissedCycles - 1
  <2>1. ASSUME NEW found \in ParsePacket[about], Receive(found) PROVE FALSE
    <3>1. info'[a] \in Infos \/ info'[a] = info[a]
      BY <1>1, <2>1, ReceiveEffect
    <3> QED BY <1>1, <3>1, DiscoveryAssumption DEF Dropped, Infos
  <2>2. ASSUME UNCHANGED info PROVE FALSE
    BY <1>1, <2>2 DEF Dropped
  <2>3. Tick
    BY <1>1, <2>1, <2>2 DEF Next, Stop, Appear, Vanish, vars, devices
  <2>4. info[a] # None /\ ~Kept(a)
    BY <1>1, <2>3 DEF Dropped, Tick
  <2>5. /\ missed[a] \in 0..MissedCycles - 1 /\ silent[a] \in 0..MissedCycles - 1
        /\ heard[a] \in BOOLEAN
    BY <1>1 DEF IInv, TypeOK
  <2>6. missed[a] = MissedCycles - 1
    BY <2>4, <2>5, DiscoveryAssumption DEF Kept, Count
  <2>7. missed[a] <= silent[a] + 1 /\ (heard[a] = TRUE => missed[a] = 0)
    BY <1>1, <2>4 DEF IInv, CountIsSilence
  <2>8. silent'[a] = IF info[a] = None \/ heard[a] THEN 0
                       ELSE IF silent[a] = MissedCycles - 1 THEN silent[a]
                       ELSE silent[a] + 1
    BY <2>3 DEF Tick
  <2>9. CASE heard[a] = TRUE
    BY <2>6, <2>7, <2>8, <2>9
  <2>10. CASE heard[a] = FALSE
    BY <2>4, <2>5, <2>6, <2>7, <2>8, <2>10, DiscoveryAssumption
  <2> QED BY <2>5, <2>9, <2>10
<1>2. IInv /\ [Next]_vars => [\A a \in Keys : Dropped(a) => silent'[a] = MissedCycles - 1]_vars
  BY <1>1
<1> QED BY <1>2, IInvHolds, PTL DEF Spec, LossForgiven

=============================================================================
