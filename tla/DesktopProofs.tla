---------------------------- MODULE DesktopProofs ----------------------------
(***************************************************************************)
(* The window, for any receivers and any number of clicks, losses and      *)
(* lists: with all events delivered it shows the session and the list      *)
(* there are, playback only with its connection, and a LOAD goes to the    *)
(* receiver picked when Play was clicked; the copies of the volume have    *)
(* their types throughout.                                                 *)
(***************************************************************************)
EXTENDS MCDashboard, FiniteSetTheorems, SequenceTheorems, WellFoundedInduction, TLAPS

-----------------------------------------------------------------------------
(* What is in the dashboard and its channels.                              *)

Picture ==
    [selected : Devices \cup {None}, connection : Devices \cup {None}, playing : BOOLEAN,
     listed : SUBSET Devices, discovery : {"Scanning", "Ready", "NoReceivers", "Error"}]

Fact  == [kind : {"Connected", "Disconnected"}, device : Devices]
         \cup [kind : {"Error", "MediaStatus"}]
Told  == Fact \cup [kind : {"Receivers"}, devices : SUBSET Devices]
Order == [op : {"Select"}, device : Devices] \cup [op : {"Play"}, for : Devices \cup {None}]
         \cup [op : {"Rescan"}]
Cast  == [op : {"Select"}, device : Devices] \cup [op : {"Load"}, for : Devices \cup {None}]

DashTypes ==
    /\ gui \in Picture /\ inbox \in Seq(Told) /\ facts \in Seq(Fact)
    /\ orders \in Seq(Order) /\ casts \in Seq(Cast)
    /\ picked \in Devices \cup {None} /\ table \in SUBSET Devices

\* A link is to the receiver that is wanted, and only a link is ready.
Linked ==
    /\ wanted \in Devices \cup {None} /\ link \in {wanted, None}
    /\ ready \in BOOLEAN /\ (ready => link # None)

-----------------------------------------------------------------------------
(* What the events on their way are going to show.                         *)

\* The connection shown after event e, if it was c before.
Showing(c, e) == IF e.kind = "Connected" THEN e.device
                 ELSE IF e.kind \in {"Disconnected", "Error"} THEN None ELSE c

\* The events s lead from connection c to d, and each status comes with a
\* connection.
Leads(c, s, d) ==
    \E f \in [0..Len(s) -> Devices \cup {None}] :
        /\ f[0] = c /\ f[Len(s)] = d
        /\ \A i \in 1..Len(s) : /\ f[i] = Showing(f[i - 1], s[i])
                                /\ s[i].kind = "MediaStatus" => f[i] # None

SessionShown ==
    /\ \E m \in Devices \cup {None} : Leads(gui.connection, inbox, m) /\ Leads(m, facts, link)
    /\ gui.playing => gui.connection # None

\* The last event of s that selects or deselects names d as connected.
Silent(s, i) == \A j \in i + 1..Len(s) : s[j].kind \notin {"Connected", "Disconnected"}
Ends(s, d)   == \E i \in 1..Len(s) : s[i] = Connected(d) /\ Silent(s, i)

\* No selection among the commands of q from i to k.
NoSelect(q, i, k) == \A j \in i..k : q[j].op # "Select"
NoPick == NoSelect(orders, 1, Len(orders)) /\ NoSelect(casts, 1, Len(casts))

SelectionShown ==
    link # None /\ NoPick =>
        \/ Ends(facts, link)
        \/ Silent(facts, 0) /\ Ends(inbox, link)
        \/ Silent(facts, 0) /\ Silent(inbox, 0) /\ gui.selected = link

Unlisted(s, i) == \A j \in i + 1..Len(s) : s[j].kind # "Receivers"
ListShown ==
    \/ \E i \in 1..Len(inbox) : inbox[i] = Receivers(table) /\ Unlisted(inbox, i)
    \/ Unlisted(inbox, 0) /\ gui.listed = table

-----------------------------------------------------------------------------
(* Whom the clicks on their way are for.                                   *)

\* x is the receiver of the last selection among the first i - 1 of q, if
\* there is one.
Follows(q, i, x) ==
    \A j \in 1..i - 1 : q[j].op = "Select" /\ NoSelect(q, j + 1, i - 1) => x = q[j].device

\* x is the receiver that a command behind q[i - 1] finds wanted, if w is now.
Meant(q, w, i, x) == /\ Follows(q, i, x)
                     /\ NoSelect(q, 1, i - 1) /\ w # None => x = w

\* The same for one behind o[i - 1], with q between.
Asked(o, q, w, i, x) == /\ Follows(o, i, x)
                        /\ NoSelect(o, 1, i - 1) => Meant(q, w, Len(q) + 1, x)

ClicksFollow ==
    /\ \A i \in 1..Len(casts) : casts[i].op = "Load" => Meant(casts, wanted, i, casts[i].for)
    /\ \A i \in 1..Len(orders) :
           orders[i].op = "Play" => Asked(orders, casts, wanted, i, orders[i].for)
    /\ Asked(orders, casts, wanted, Len(orders) + 1, picked)

DashIInv == DashTypes /\ Linked /\ SessionShown /\ SelectionShown /\ ListShown /\ ClicksFollow

-----------------------------------------------------------------------------
(* Induction along a sequence.                                             *)

\* A set of numbers closed under successors up to n has n.
LEMMA Climb ==
    ASSUME NEW n \in Nat, NEW m \in 0..n, NEW K, m \in K,
           \A k \in m..n - 1 : k \in K => k + 1 \in K
    PROVE  n \in K
<1> SUFFICES ASSUME n \notin K PROVE FALSE
  OBVIOUS
<1> DEFINE T == {k \in m..n : k \notin K}
           R == StrictSubsetOrdering(0..n)
           F == {0..k : k \in T}
<1>1. IsWellFoundedOn(R, SUBSET (0..n))
  <2>1. IsFiniteSet(0..n)
    BY FS_Interval
  <2> QED BY <2>1, FS_StrictSubsetOrderingWellFounded, FS_FiniteSubsetsOfFinite
<1>2. F \subseteq SUBSET (0..n)
  <2> SUFFICES ASSUME NEW k \in T PROVE 0..k \subseteq 0..n
    OBVIOUS
  <2> QED OBVIOUS
<1>3. F # {}
  BY n \in T
<1>4. \E x \in F : \A y \in F : ~(<<y, x>> \in R)
  <2> HIDE DEF F, R
  <2> QED BY <1>1, <1>2, <1>3, WFMin
<1>5. PICK x \in T : \A y \in T : ~(<<0..y, 0..x>> \in R)
  BY <1>4
<1>6. x - 1 \in T
  OBVIOUS
<1>7. 0..(x - 1) \subseteq 0..x /\ 0..(x - 1) # 0..x
  <2>1. x \in 0..x /\ x \notin 0..(x - 1)
    OBVIOUS
  <2> QED BY <2>1
<1>8. <<0..(x - 1), 0..x>> \in R
  BY <1>7 DEF StrictSubsetOrdering
<1> QED BY <1>5, <1>6, <1>8

\* p shows g after event e, field by field.
Takes(g, e, p) ==
    /\ p \in Picture
    /\ p.connection = Showing(g.connection, e)
    /\ e.kind \in {"Disconnected", "Error"} => p.playing = FALSE
    /\ e.kind \in {"Receivers", "Connected"} => p.playing = g.playing
    /\ e.kind = "Connected" => p.selected = e.device
    /\ e.kind \notin {"Connected", "Disconnected"} => p.selected = g.selected
    /\ p.listed = IF e.kind = "Receivers" THEN e.devices ELSE g.listed

LEMMA Applied ==
    ASSUME NEW g \in Picture, NEW e \in Told
    PROVE  Takes(g, e, ApplyEvent(g, e))
<1>1. CASE e.kind = "Receivers"
  <2>1. e.devices \in SUBSET Devices BY <1>1 DEF Told, Fact
  <2>2. ApplyEvent(g, e) = [g EXCEPT !.listed = e.devices,
                              !.discovery = IF e.devices = {} THEN "NoReceivers" ELSE "Ready"]
    BY <1>1 DEF ApplyEvent
  <2> QED BY <1>1, <2>1, <2>2 DEF Picture, Showing, Takes
<1>2. CASE e.kind = "Connected"
  <2>1. e.device \in Devices BY <1>2 DEF Told, Fact
  <2>2. ApplyEvent(g, e) = [g EXCEPT !.selected = e.device, !.connection = e.device]
    BY <1>2 DEF ApplyEvent, NowSelected
  <2> QED BY <1>2, <2>1, <2>2 DEF Picture, Showing, Takes
<1>3. CASE e.kind = "Disconnected"
  <2>1. ApplyEvent(g, e) = [g EXCEPT !.selected = Deselected(g, e.device), !.connection = None,
                                     !.playing = FALSE]
    BY <1>3 DEF ApplyEvent
  <2>2. Deselected(g, e.device) \in Devices \cup {None} BY DEF Deselected, Picture
  <2> QED BY <1>3, <2>1, <2>2 DEF Picture, Showing, Takes
<1>4. CASE e.kind = "Error"
  <2>1. ApplyEvent(g, e) = [g EXCEPT !.connection = None, !.playing = FALSE,
                              !.discovery = IF g.listed = {} THEN "Error" ELSE g.discovery]
    BY <1>4 DEF ApplyEvent
  <2> QED BY <1>4, <2>1 DEF Picture, Showing, Takes
<1>5. CASE e.kind = "MediaStatus"
  <2>1. ApplyEvent(g, e) = [g EXCEPT !.playing = TRUE] BY <1>5 DEF ApplyEvent
  <2> QED BY <1>5, <2>1 DEF Picture, Showing, Takes
<1> QED BY <1>1, <1>2, <1>3, <1>4, <1>5 DEF Told, Fact

\* handle_events shows one picture after the other.
LEMMA DrainedSteps ==
    ASSUME NEW g \in Picture, NEW s \in Seq(Told)
    PROVE  \E h \in [0..Len(s) -> Picture] :
               /\ h[0] = g /\ h[Len(s)] = Drained(g, s)
               /\ \A i \in 1..Len(s) : h[i] = ApplyEvent(h[i - 1], s[i])
<1> DEFINE n == Len(s)
           Upto(k, h) == h[0] = g /\ \A i \in 1..k : h[i] = ApplyEvent(h[i - 1], s[i])
           K == {k \in 0..n : \E h \in [0..k -> Picture] : Upto(k, h)}
           Is(h) == h = [i \in 0..n |-> IF i = 0 THEN g ELSE ApplyEvent(h[i - 1], s[i])]
<1>1. n \in Nat /\ \A i \in 1..n : s[i] \in Told
  OBVIOUS
<1> HIDE DEF n
<1>2. 0 \in K
  <2> DEFINE z == [i \in 0..0 |-> g]
  <2>1. z \in [0..0 -> Picture] /\ z[0] = g
    OBVIOUS
  <2>2. Upto(0, z)
    BY <2>1
  <2>3. \E h \in [0..0 -> Picture] : Upto(0, h)
    <3> HIDE DEF z, Upto
    <3> QED BY <2>1, <2>2
  <2> QED BY <1>1, <2>3
<1>3. ASSUME NEW k \in 0..n - 1, k \in K PROVE k + 1 \in K
  <2>1. PICK h \in [0..k -> Picture] : Upto(k, h) BY <1>3
  <2> DEFINE t == [i \in 0..k + 1 |-> IF i = k + 1 THEN ApplyEvent(h[k], s[k + 1]) ELSE h[i]]
  <2>2. k \in 0..k /\ k + 1 \in 1..n BY <1>1
  <2>3. h[k] \in Picture /\ s[k + 1] \in Told BY <1>1, <2>1, <2>2
  <2>4. ApplyEvent(h[k], s[k + 1]) \in Picture BY <2>3, Applied DEF Takes
  <2>5. t \in [0..k + 1 -> Picture] BY <1>1, <2>1, <2>4
  <2>6. Upto(k + 1, t) BY <1>1, <2>1
  <2>7. \E u \in [0..k + 1 -> Picture] : Upto(k + 1, u)
    <3> HIDE DEF t, Upto
    <3> QED BY <2>5, <2>6
  <2> QED BY <1>1, <2>2, <2>7
<1>4. n \in K
  <2> HIDE DEF K
  <2> QED BY <1>1, <1>2, <1>3, Climb
<1>5. PICK f \in [0..n -> Picture] : Upto(n, f) BY <1>4
<1>6. Is(f)
  <2>1. \A i \in 0..n : f[i] = IF i = 0 THEN g ELSE ApplyEvent(f[i - 1], s[i]) BY <1>1, <1>5
  <2> QED BY <1>5, <2>1, Zenon
<1> DEFINE h == CHOOSE h : Is(h)
<1>7. Is(h) BY <1>6, Zenon
<1>8. Drained(g, s) = h[n] BY Zenon DEF Drained, n
<1> HIDE DEF h
<1>9. Upto(n, h) BY <1>1, <1>7
<1>10. \A k \in 0..n : h[k] \in Picture
  <2> DEFINE J == {k \in 0..n : h[k] \in Picture}
  <2>1. 0 \in J BY <1>1, <1>9
  <2>2. ASSUME NEW k \in 0..n - 1, k \in J PROVE k + 1 \in J
    <3>1. k + 1 \in 1..n /\ k + 1 \in 0..n /\ (k + 1) - 1 = k BY <1>1
    <3>2. h[k] \in Picture /\ s[k + 1] \in Told BY <1>1, <2>2, <3>1
    <3>3. h[k + 1] = ApplyEvent(h[k], s[k + 1]) BY <1>9, <3>1
    <3>4. ApplyEvent(h[k], s[k + 1]) \in Picture BY <3>2, Applied DEF Takes
    <3> QED BY <3>1, <3>3, <3>4
  <2>3. ASSUME NEW k \in 0..n PROVE k \in J
    <3>1. \A i \in 0..k - 1 : i \in J => i + 1 \in J BY <1>1, <2>2
    <3> HIDE DEF J
    <3> QED BY <1>1, <2>1, <3>1, Climb
  <2> QED BY <2>3
<1>11. h \in [0..n -> Picture] BY <1>7, <1>10
<1> QED BY <1>8, <1>9, <1>11 DEF n

\* What a frame leaves: the connection the events lead to, and the selection
\* and the list of the last event that has one.
LEMMA DrainedShows ==
    ASSUME NEW g \in Picture, NEW s \in Seq(Told)
    PROVE  /\ Drained(g, s) \in Picture
           /\ \A d \in Devices \cup {None} :
                  Leads(g.connection, s, d) /\ (g.playing => g.connection # None)
                      => /\ Drained(g, s).connection = d
                         /\ Drained(g, s).playing => d # None
           /\ \A d \in Devices :
                  Ends(s, d) \/ (Silent(s, 0) /\ g.selected = d) => Drained(g, s).selected = d
           /\ \A ds \in SUBSET Devices :
                  \/ \E i \in 1..Len(s) : s[i] = Receivers(ds) /\ Unlisted(s, i)
                  \/ Unlisted(s, 0) /\ g.listed = ds
                  => Drained(g, s).listed = ds
<1> DEFINE n == Len(s)
<1>1. n \in Nat /\ \A i \in 1..n : s[i] \in Told
  OBVIOUS
<1> HIDE DEF n
<1>2. PICK h \in [0..n -> Picture] :
          /\ h[0] = g /\ h[n] = Drained(g, s)
          /\ \A i \in 1..n : h[i] = ApplyEvent(h[i - 1], s[i])
  BY DrainedSteps DEF n
<1>3. ASSUME NEW i \in 1..n
      PROVE  i \in 0..n /\ s[i] \in Told /\ Takes(h[i - 1], s[i], h[i])
  <2>1. i \in 0..n /\ h[i - 1] \in Picture /\ s[i] \in Told
        /\ h[i] = ApplyEvent(h[i - 1], s[i])
    BY <1>1, <1>2
  <2> QED BY <2>1, Applied
<1>4. \A k \in 0..n - 1 : k + 1 \in 1..n /\ s[k + 1] \in Told /\ Takes(h[k], s[k + 1], h[k + 1])
  BY <1>1, <1>3
<1>5. Drained(g, s) \in Picture
  BY <1>1, <1>2
<1>6. ASSUME NEW d \in Devices \cup {None}, Leads(g.connection, s, d),
             g.playing => g.connection # None
      PROVE  Drained(g, s).connection = d /\ (Drained(g, s).playing => d # None)
  <2>1. PICK f \in [0..n -> Devices \cup {None}] :
            /\ f[0] = g.connection /\ f[n] = d
            /\ \A i \in 1..n : /\ f[i] = Showing(f[i - 1], s[i])
                               /\ s[i].kind = "MediaStatus" => f[i] # None
    BY <1>6 DEF Leads, n
  <2> DEFINE K == {k \in 0..n : h[k].connection = f[k] /\ (h[k].playing => f[k] # None)}
  <2>2. 0 \in K
    BY <1>1, <1>2, <1>6, <2>1
  <2>3. ASSUME NEW k \in 0..n - 1, k \in K PROVE k + 1 \in K
    <3>1. /\ f[k + 1] = Showing(f[k], s[k + 1])
          /\ s[k + 1].kind = "MediaStatus" => f[k + 1] # None
      BY <1>1, <2>1
    <3>2. h[k + 1].connection = f[k + 1]
      BY <1>4, <2>3, <3>1 DEF Takes
    <3>3. s[k + 1].kind = "Connected" => f[k + 1] # None
      BY <1>4, <3>1, DashboardAssumption DEF Showing, Told, Fact
    <3>4. h[k + 1].playing => f[k + 1] # None
      <4>1. CASE s[k + 1].kind \in {"Disconnected", "Error"}
        BY <1>4, <4>1 DEF Takes
      <4>2. CASE s[k + 1].kind = "Receivers"
        <5>1. h[k + 1].playing = h[k].playing
          BY <1>4, <4>2 DEF Takes
        <5>2. f[k + 1] = f[k]
          BY <3>1, <4>2 DEF Showing
        <5> QED BY <2>3, <5>1, <5>2
      <4> QED BY <1>4, <3>1, <3>3, <4>1, <4>2 DEF Told, Fact
    <3> QED BY <1>1, <3>2, <3>4
  <2>4. n \in K
    <3> HIDE DEF K
    <3> QED BY <1>1, <2>2, <2>3, Climb
  <2> QED BY <1>2, <2>1, <2>4
<1>7. ASSUME NEW d \in Devices, NEW m \in 0..n, h[m].selected = d, Silent(s, m)
      PROVE  Drained(g, s).selected = d
  <2> DEFINE K == {k \in 0..n : h[k].selected = d}
  <2>1. m \in K
    BY <1>7
  <2>2. ASSUME NEW k \in m..n - 1, k \in K PROVE k + 1 \in K
    <3>1. k \in 0..n - 1 /\ k + 1 \in m + 1..n
      BY <1>1
    <3>2. s[k + 1].kind \notin {"Connected", "Disconnected"}
      BY <1>7, <3>1 DEF Silent, n
    <3>3. h[k + 1].selected = h[k].selected
      BY <1>4, <3>1, <3>2 DEF Takes
    <3> QED BY <1>1, <2>2, <3>3
  <2>3. n \in K
    <3> HIDE DEF K
    <3> QED BY <1>1, <2>1, <2>2, Climb
  <2> QED BY <1>2, <2>3
<1>8. ASSUME NEW ds \in SUBSET Devices, NEW m \in 0..n, h[m].listed = ds, Unlisted(s, m)
      PROVE  Drained(g, s).listed = ds
  <2> DEFINE K == {k \in 0..n : h[k].listed = ds}
  <2>1. m \in K
    BY <1>8
  <2>2. ASSUME NEW k \in m..n - 1, k \in K PROVE k + 1 \in K
    <3>1. k \in 0..n - 1 /\ k + 1 \in m + 1..n
      BY <1>1
    <3>2. s[k + 1].kind # "Receivers"
      BY <1>8, <3>1 DEF Unlisted, n
    <3>3. h[k + 1].listed = h[k].listed
      BY <1>4, <3>1, <3>2 DEF Takes
    <3> QED BY <1>1, <2>2, <3>3
  <2>3. n \in K
    <3> HIDE DEF K
    <3> QED BY <1>1, <2>1, <2>2, Climb
  <2> QED BY <1>2, <2>3
<1>9. ASSUME NEW d \in Devices, Ends(s, d) \/ (Silent(s, 0) /\ g.selected = d)
      PROVE  Drained(g, s).selected = d
  <2>1. CASE Ends(s, d)
    <3>1. PICK i \in 1..n : s[i] = Connected(d) /\ Silent(s, i)
      BY <2>1 DEF Ends, n
    <3>2. s[i].kind = "Connected" /\ s[i].device = d
      BY <3>1 DEF Connected
    <3>3. h[i].selected = d
      BY <1>3, <3>2 DEF Takes
    <3> QED BY <1>7, <1>3, <3>1, <3>3
  <2>2. CASE Silent(s, 0) /\ g.selected = d
    <3>1. 0 \in 0..n
      BY <1>1
    <3> QED BY <1>2, <1>7, <2>2, <3>1
  <2> QED BY <1>9, <2>1, <2>2
<1>10. ASSUME NEW ds \in SUBSET Devices,
              \/ \E i \in 1..n : s[i] = Receivers(ds) /\ Unlisted(s, i)
              \/ Unlisted(s, 0) /\ g.listed = ds
       PROVE  Drained(g, s).listed = ds
  <2>1. ASSUME NEW i \in 1..n, s[i] = Receivers(ds), Unlisted(s, i)
        PROVE  Drained(g, s).listed = ds
    <3>1. s[i].kind = "Receivers" /\ s[i].devices = ds
      BY <2>1 DEF Receivers
    <3>2. h[i].listed = ds
      BY <1>3, <3>1 DEF Takes
    <3> QED BY <1>8, <1>3, <2>1, <3>2
  <2>2. CASE Unlisted(s, 0) /\ g.listed = ds
    <3>1. 0 \in 0..n
      BY <1>1
    <3> QED BY <1>2, <1>8, <2>2, <3>1
  <2> QED BY <1>10, <2>1, <2>2
<1> QED BY <1>5, <1>6, <1>9, <1>10 DEF n

-----------------------------------------------------------------------------
(* Events that join a channel or leave it.                                 *)

LEMMA LeadsNowhere ==
    ASSUME NEW c \in Devices \cup {None}, NEW d \in Devices \cup {None}
    PROVE  Leads(c, <<>>, d) <=> c = d
<1>1. ASSUME Leads(c, <<>>, d) PROVE c = d
  BY <1>1 DEF Leads
<1>2. ASSUME c = d PROVE Leads(c, <<>>, d)
  <2> DEFINE f == [i \in 0..0 |-> c]
  <2>1. f \in [0..0 -> Devices \cup {None}] /\ f[0] = c
    OBVIOUS
  <2>2. Len(<<>>) = 0
    OBVIOUS
  <2> HIDE DEF f
  <2> QED BY <1>2, <2>1, <2>2 DEF Leads
<1> QED BY <1>1, <1>2

\* A connection for every event is a witness that they lead there.
LEMMA LeadsBy ==
    ASSUME NEW c, NEW d, NEW s, NEW f \in [0..Len(s) -> Devices \cup {None}],
           f[0] = c, f[Len(s)] = d,
           \A i \in 1..Len(s) : /\ f[i] = Showing(f[i - 1], s[i])
                                /\ s[i].kind = "MediaStatus" => f[i] # None
    PROVE  Leads(c, s, d)
  BY Zenon DEF Leads

LEMMA LeadsOn ==
    ASSUME NEW s \in Seq(Told), NEW e \in Told, NEW c \in Devices \cup {None},
           NEW d \in Devices \cup {None}, Leads(c, s, d),
           e.kind = "MediaStatus" => d # None
    PROVE  Leads(c, Append(s, e), Showing(d, e))
<1> DEFINE n == Len(s)
           t == Append(s, e)
<1>1. n \in Nat /\ Len(t) = n + 1 /\ t[n + 1] = e /\ \A i \in 1..n : t[i] = s[i]
  OBVIOUS
<1>2. PICK f \in [0..n -> Devices \cup {None}] :
          /\ f[0] = c /\ f[n] = d
          /\ \A i \in 1..n : /\ f[i] = Showing(f[i - 1], s[i])
                             /\ s[i].kind = "MediaStatus" => f[i] # None
  BY DEF Leads
<1> DEFINE u == [i \in 0..n + 1 |-> IF i = n + 1 THEN Showing(d, e) ELSE f[i]]
<1>3. Showing(d, e) \in Devices \cup {None}
  BY DEF Showing, Told, Fact
<1>4. e.kind = "MediaStatus" => Showing(d, e) # None
  BY DEF Showing
<1> HIDE DEF n, t
<1>5. u \in [0..n + 1 -> Devices \cup {None}] /\ u[0] = c /\ u[n + 1] = Showing(d, e)
  BY <1>1, <1>2, <1>3
<1>6. ASSUME NEW i \in 1..n + 1
      PROVE  /\ u[i] = Showing(u[i - 1], t[i])
             /\ t[i].kind = "MediaStatus" => u[i] # None
  <2>1. CASE i = n + 1
    BY <1>1, <1>2, <1>4, <2>1
  <2>2. CASE i \in 1..n
    <3>1. u[i] = f[i] /\ u[i - 1] = f[i - 1] /\ t[i] = s[i]
      BY <1>1, <2>2
    <3> QED BY <1>2, <2>2, <3>1
  <2> QED BY <1>1, <2>1, <2>2
<1> HIDE DEF u
<1>7. Leads(c, t, Showing(d, e))
  BY <1>1, <1>5, <1>6 DEF Leads
<1> QED BY <1>7 DEF t

LEMMA LeadsAway ==
    ASSUME NEW s \in Seq(Told), s # <<>>, NEW c \in Devices \cup {None},
           NEW d \in Devices \cup {None}, Leads(c, s, d)
    PROVE  /\ Showing(c, Head(s)) \in Devices \cup {None}
           /\ Leads(Showing(c, Head(s)), Tail(s), d)
           /\ Head(s).kind = "MediaStatus" => c # None
<1> DEFINE n == Len(s) - 1
           t == Tail(s)
<1>1. n \in Nat /\ Len(s) = n + 1 /\ Len(t) = n /\ Head(s) = s[1] /\ s[1] \in Told
      /\ \A i \in 1..n : t[i] = s[i + 1]
  OBVIOUS
<1>2. PICK f \in [0..n + 1 -> Devices \cup {None}] :
          /\ f[0] = c /\ f[n + 1] = d
          /\ \A i \in 1..n + 1 : /\ f[i] = Showing(f[i - 1], s[i])
                                 /\ s[i].kind = "MediaStatus" => f[i] # None
  <2> HIDE DEF n
  <2> QED BY <1>1 DEF Leads
<1> DEFINE u == [i \in 0..n |-> f[i + 1]]
<1> HIDE DEF n, t
<1>3. u \in [0..n -> Devices \cup {None}] /\ u[0] = f[1] /\ u[n] = d
  BY <1>1, <1>2
<1>4. f[1] = Showing(c, Head(s)) /\ (Head(s).kind = "MediaStatus" => f[1] # None)
  <2>1. 1 \in 1..n + 1 /\ f[1 - 1] = f[0]
    BY <1>1
  <2> QED BY <1>1, <1>2, <2>1
<1>5. ASSUME NEW i \in 1..n
      PROVE  /\ u[i] = Showing(u[i - 1], t[i])
             /\ t[i].kind = "MediaStatus" => u[i] # None
  <2>1. u[i] = f[i + 1] /\ u[i - 1] = f[i] /\ t[i] = s[i + 1]
    BY <1>1
  <2>2. i + 1 \in 1..n + 1 /\ (i + 1) - 1 = i
    BY <1>1
  <2> QED BY <1>2, <2>1, <2>2
<1>6. Head(s).kind = "MediaStatus" => c # None
  BY <1>4 DEF Showing
<1> HIDE DEF u
<1>7. Leads(Showing(c, Head(s)), t, d)
  <2>1. u[0] = Showing(c, Head(s)) /\ u[Len(t)] = d /\ u \in [0..Len(t) -> Devices \cup {None}]
    BY <1>1, <1>3, <1>4
  <2>2. \A i \in 1..Len(t) : /\ u[i] = Showing(u[i - 1], t[i])
                             /\ t[i].kind = "MediaStatus" => u[i] # None
    BY <1>1, <1>5
  <2> QED BY <2>1, <2>2, LeadsBy
<1>8. f[1] \in Devices \cup {None}
  <2>1. 1 \in 0..n + 1 BY <1>1
  <2> QED BY <1>2, <2>1
<1> QED BY <1>4, <1>6, <1>7, <1>8 DEF t

\* The selection and the list an event that joins or leaves s makes.
LEMMA EndsOn ==
    ASSUME NEW s \in Seq(Told), NEW e \in Told, NEW d \in Devices
    PROVE  /\ e = Connected(d) => Ends(Append(s, e), d)
           /\ e.kind \notin {"Connected", "Disconnected"} =>
                  /\ Ends(s, d) => Ends(Append(s, e), d)
                  /\ Silent(s, 0) => Silent(Append(s, e), 0)
<1> DEFINE n == Len(s)
           t == Append(s, e)
<1>1. n \in Nat /\ Len(t) = n + 1 /\ t[n + 1] = e /\ \A i \in 1..n : t[i] = s[i]
  OBVIOUS
<1> HIDE DEF n, t
<1>2. ASSUME e = Connected(d) PROVE Ends(t, d)
  <2>1. n + 1 \in 1..Len(t) /\ Silent(t, n + 1)
    BY <1>1 DEF Silent
  <2> QED BY <1>1, <1>2, <2>1 DEF Ends
<1>3. ASSUME e.kind \notin {"Connected", "Disconnected"}, Ends(s, d) PROVE Ends(t, d)
  <2>1. PICK i \in 1..n : s[i] = Connected(d) /\ Silent(s, i)
    BY <1>3 DEF Ends, n
  <2>2. \A j \in i + 1..n : s[j].kind \notin {"Connected", "Disconnected"}
    BY <2>1 DEF Silent, n
  <2>3. i \in 1..Len(t) /\ t[i] = Connected(d)
    BY <1>1, <2>1
  <2>4. Silent(t, i)
    BY <1>1, <1>3, <2>2 DEF Silent
  <2> QED BY <2>3, <2>4 DEF Ends
<1>4. ASSUME e.kind \notin {"Connected", "Disconnected"}, Silent(s, 0) PROVE Silent(t, 0)
  <2>1. \A j \in 1..n : s[j].kind \notin {"Connected", "Disconnected"}
    BY <1>4 DEF Silent, n
  <2> QED BY <1>1, <1>4, <2>1 DEF Silent
<1> QED BY <1>2, <1>3, <1>4 DEF t

LEMMA EndsAway ==
    ASSUME NEW s \in Seq(Told), s # <<>>, NEW d \in Devices
    PROVE  /\ Ends(s, d) => Ends(Tail(s), d) \/ (Silent(Tail(s), 0) /\ Head(s) = Connected(d))
           /\ Silent(s, 0) => /\ Silent(Tail(s), 0)
                              /\ Head(s).kind \notin {"Connected", "Disconnected"}
<1> DEFINE n == Len(s) - 1
           t == Tail(s)
<1>1. n \in Nat /\ Len(s) = n + 1 /\ Len(t) = n /\ Head(s) = s[1]
      /\ \A i \in 1..n : t[i] = s[i + 1]
  OBVIOUS
<1> HIDE DEF n, t
<1>2. ASSUME Ends(s, d) PROVE Ends(t, d) \/ (Silent(t, 0) /\ Head(s) = Connected(d))
  <2>1. PICK i \in 1..n + 1 : s[i] = Connected(d) /\ Silent(s, i)
    BY <1>1, <1>2 DEF Ends
  <2>2. \A j \in i + 1..n + 1 : s[j].kind \notin {"Connected", "Disconnected"}
    BY <1>1, <2>1 DEF Silent
  <2>3. Silent(t, i - 1)
    BY <1>1, <2>2 DEF Silent
  <2>4. CASE i = 1
    BY <1>1, <2>1, <2>3, <2>4
  <2>5. CASE i # 1
    <3>1. i - 1 \in 1..n /\ t[i - 1] = s[i]
      BY <1>1, <2>5
    <3> QED BY <1>1, <2>1, <2>3, <3>1 DEF Ends
  <2> QED BY <2>4, <2>5
<1>3. ASSUME Silent(s, 0)
      PROVE  Silent(t, 0) /\ Head(s).kind \notin {"Connected", "Disconnected"}
  <2>1. \A j \in 1..n + 1 : s[j].kind \notin {"Connected", "Disconnected"}
    BY <1>1, <1>3 DEF Silent
  <2> QED BY <1>1, <2>1 DEF Silent
<1> QED BY <1>2, <1>3 DEF t

LEMMA ListedOn ==
    ASSUME NEW s \in Seq(Told), NEW e \in Told, NEW ds \in SUBSET Devices
    PROVE  /\ e = Receivers(ds) =>
                  \E i \in 1..Len(Append(s, e)) :
                      Append(s, e)[i] = Receivers(ds) /\ Unlisted(Append(s, e), i)
           /\ e.kind # "Receivers" =>
                  /\ (\E i \in 1..Len(s) : s[i] = Receivers(ds) /\ Unlisted(s, i)) =>
                         \E i \in 1..Len(Append(s, e)) :
                             Append(s, e)[i] = Receivers(ds) /\ Unlisted(Append(s, e), i)
                  /\ Unlisted(s, 0) => Unlisted(Append(s, e), 0)
<1> DEFINE n == Len(s)
           t == Append(s, e)
<1>1. n \in Nat /\ Len(t) = n + 1 /\ t[n + 1] = e /\ \A i \in 1..n : t[i] = s[i]
  OBVIOUS
<1> HIDE DEF n, t
<1>2. ASSUME e = Receivers(ds)
      PROVE  \E i \in 1..Len(t) : t[i] = Receivers(ds) /\ Unlisted(t, i)
  <2>1. n + 1 \in 1..Len(t) /\ Unlisted(t, n + 1)
    BY <1>1 DEF Unlisted
  <2> QED BY <1>1, <1>2, <2>1
<1>3. ASSUME e.kind # "Receivers", \E i \in 1..n : s[i] = Receivers(ds) /\ Unlisted(s, i)
      PROVE  \E i \in 1..Len(t) : t[i] = Receivers(ds) /\ Unlisted(t, i)
  <2>1. PICK i \in 1..n : s[i] = Receivers(ds) /\ Unlisted(s, i)
    BY <1>3
  <2>2. \A j \in i + 1..n : s[j].kind # "Receivers"
    BY <2>1 DEF Unlisted, n
  <2>3. i \in 1..Len(t) /\ t[i] = Receivers(ds)
    BY <1>1, <2>1
  <2>4. Unlisted(t, i)
    BY <1>1, <1>3, <2>2 DEF Unlisted
  <2> QED BY <2>3, <2>4
<1>4. ASSUME e.kind # "Receivers", Unlisted(s, 0) PROVE Unlisted(t, 0)
  <2>1. \A j \in 1..n : s[j].kind # "Receivers"
    BY <1>4 DEF Unlisted, n
  <2> QED BY <1>1, <1>4, <2>1 DEF Unlisted
<1> QED BY <1>2, <1>3, <1>4 DEF t, n

-----------------------------------------------------------------------------
(* Commands that join a channel or leave it.                               *)

LEMMA FollowsOn ==
    ASSUME NEW S, NEW q \in Seq(S), NEW e \in S, NEW x
    PROVE  /\ \A i \in 1..Len(q) + 1 :
                  /\ Follows(Append(q, e), i, x) <=> Follows(q, i, x)
                  /\ NoSelect(Append(q, e), 1, i - 1) <=> NoSelect(q, 1, i - 1)
           /\ e.op = "Select" =>
                  /\ x = e.device => Follows(Append(q, e), Len(q) + 2, x)
                  /\ ~NoSelect(Append(q, e), 1, Len(q) + 1)
           /\ e.op # "Select" =>
                  /\ Follows(q, Len(q) + 1, x) => Follows(Append(q, e), Len(q) + 2, x)
                  /\ NoSelect(Append(q, e), 1, Len(q) + 1) <=> NoSelect(q, 1, Len(q))
<1> DEFINE n == Len(q)
           t == Append(q, e)
<1>1. n \in Nat /\ Len(t) = n + 1 /\ t[n + 1] = e /\ \A i \in 1..n : t[i] = q[i]
  OBVIOUS
<1> HIDE DEF n, t
<1>2. ASSUME NEW i \in 1..n + 1, NEW j \in Nat \ {0}
      PROVE  NoSelect(t, j, i - 1) <=> NoSelect(q, j, i - 1)
  <2>1. \A k \in j..i - 1 : t[k] = q[k]
    BY <1>1
  <2> QED BY <2>1 DEF NoSelect
<1>3. ASSUME NEW i \in 1..n + 1
      PROVE  /\ Follows(t, i, x) <=> Follows(q, i, x)
             /\ NoSelect(t, 1, i - 1) <=> NoSelect(q, 1, i - 1)
  <2>1. ASSUME NEW j \in 1..i - 1
        PROVE  t[j] = q[j] /\ (NoSelect(t, j + 1, i - 1) <=> NoSelect(q, j + 1, i - 1))
    BY <1>1, <1>2
  <2>2. NoSelect(t, 1, i - 1) <=> NoSelect(q, 1, i - 1)
    BY <1>2
  <2> QED BY <2>1, <2>2 DEF Follows
<1>4. ASSUME e.op = "Select"
      PROVE  /\ x = e.device => Follows(t, n + 2, x)
             /\ ~NoSelect(t, 1, n + 1)
  <2>1. ASSUME NEW j \in 1..n + 1, NoSelect(t, j + 1, n + 1) PROVE j = n + 1
    <3>1. j # n + 1 => n + 1 \in j + 1..n + 1
      BY <1>1
    <3> QED BY <1>1, <1>4, <2>1, <3>1 DEF NoSelect
  <2>2. (n + 2) - 1 = n + 1 /\ n + 1 \in 1..n + 1
    BY <1>1
  <2>3. ~NoSelect(t, 1, n + 1)
    BY <1>1, <1>4, <2>2 DEF NoSelect
  <2> QED BY <1>1, <2>1, <2>2, <2>3 DEF Follows
<1>5. ASSUME e.op # "Select"
      PROVE  /\ Follows(q, n + 1, x) => Follows(t, n + 2, x)
             /\ NoSelect(t, 1, n + 1) <=> NoSelect(q, 1, n)
  <2>1. ASSUME NEW j \in 1..n + 1 PROVE NoSelect(t, j, n + 1) <=> NoSelect(q, j, n)
    <3>1. ASSUME NoSelect(t, j, n + 1) PROVE NoSelect(q, j, n)
      <4>1. ASSUME NEW k \in j..n PROVE q[k].op # "Select"
        <5>1. k \in j..n + 1 /\ t[k] = q[k] BY <1>1
        <5> QED BY <3>1, <5>1 DEF NoSelect
      <4> QED BY <4>1 DEF NoSelect
    <3>2. ASSUME NoSelect(q, j, n) PROVE NoSelect(t, j, n + 1)
      <4>1. ASSUME NEW k \in j..n + 1 PROVE t[k].op # "Select"
        <5>1. k = n + 1 \/ (k \in j..n /\ t[k] = q[k]) BY <1>1
        <5> QED BY <1>1, <1>5, <3>2, <5>1 DEF NoSelect
      <4> QED BY <4>1 DEF NoSelect
    <3> QED BY <3>1, <3>2
  <2>2. (n + 2) - 1 = n + 1 /\ (n + 1) - 1 = n /\ 1 \in 1..n + 1
    BY <1>1
  <2>3. ASSUME Follows(q, n + 1, x), NEW j \in 1..n + 1, t[j].op = "Select",
               NoSelect(t, j + 1, n + 1)
        PROVE  x = t[j].device
    <3>1. j # n + 1
      BY <1>1, <1>5, <2>3
    <3>2. j \in 1..n /\ j + 1 \in 1..n + 1 /\ t[j] = q[j]
      BY <1>1, <3>1
    <3>3. NoSelect(q, j + 1, n)
      BY <2>1, <2>3, <3>2
    <3> QED BY <2>2, <2>3, <3>2, <3>3 DEF Follows
  <2>4. NoSelect(t, 1, n + 1) <=> NoSelect(q, 1, n)
    BY <2>1, <2>2
  <2>5. Follows(q, n + 1, x) => Follows(t, n + 2, x)
    BY <2>2, <2>3 DEF Follows
  <2> QED BY <2>4, <2>5
<1> QED BY <1>3, <1>4, <1>5 DEF t, n

LEMMA NoSelectAway ==
    ASSUME NEW S, NEW q \in Seq(S), q # <<>>, Head(q).op # "Select",
           NoSelect(Tail(q), 1, Len(Tail(q)))
    PROVE  NoSelect(q, 1, Len(q))
<1> DEFINE n == Len(q) - 1
           t == Tail(q)
<1>1. n \in Nat /\ Len(q) = n + 1 /\ Len(t) = n /\ Head(q) = q[1]
      /\ \A k \in 1..n : t[k] = q[k + 1]
  OBVIOUS
<1> HIDE DEF n
<1>2. \A k \in 1..n : t[k].op # "Select"
  BY <1>1 DEF NoSelect
<1> HIDE DEF t
<1>3. ASSUME NEW k \in 1..n + 1 PROVE q[k].op # "Select"
  <2>1. k = 1 \/ (k - 1 \in 1..n /\ q[k] = t[k - 1])
    BY <1>1
  <2> QED BY <1>1, <1>2, <2>1
<1> QED BY <1>1, <1>3 DEF NoSelect

LEMMA FollowsAway ==
    ASSUME NEW S, NEW q \in Seq(S), q # <<>>, NEW x, NEW i \in 1..Len(q),
           Follows(q, i + 1, x)
    PROVE  /\ Follows(Tail(q), i, x)
           /\ NoSelect(Tail(q), 1, i - 1) =>
                  IF Head(q).op = "Select" THEN x = Head(q).device ELSE NoSelect(q, 1, i)
<1> DEFINE n == Len(q) - 1
           t == Tail(q)
<1>1. n \in Nat /\ Len(q) = n + 1 /\ Len(t) = n /\ Head(q) = q[1]
      /\ \A k \in 1..n : t[k] = q[k + 1]
  OBVIOUS
<1> HIDE DEF n, t
<1>2. ASSUME NEW j \in 1..i, NoSelect(t, j, i - 1) PROVE NoSelect(q, j + 1, i)
  <2>1. ASSUME NEW k \in j + 1..i PROVE q[k].op # "Select"
    <3>1. k - 1 \in j..i - 1 /\ q[k] = t[k - 1]
      BY <1>1
    <3> QED BY <1>2, <3>1 DEF NoSelect
  <2> QED BY <2>1 DEF NoSelect
<1>3. Follows(t, i, x)
  <2>1. ASSUME NEW j \in 1..i - 1, t[j].op = "Select", NoSelect(t, j + 1, i - 1)
        PROVE  x = t[j].device
    <3>1. j + 1 \in 1..i /\ t[j] = q[j + 1] /\ (i + 1) - 1 = i
      BY <1>1
    <3>2. NoSelect(q, (j + 1) + 1, i)
      BY <1>2, <2>1, <3>1
    <3> QED BY <2>1, <3>1, <3>2 DEF Follows
  <2> QED BY <2>1 DEF Follows
<1>4. ASSUME NoSelect(t, 1, i - 1)
      PROVE  IF Head(q).op = "Select" THEN x = Head(q).device ELSE NoSelect(q, 1, i)
  <2>1. 1 \in 1..i /\ (i + 1) - 1 = i
    BY <1>1
  <2>2. NoSelect(q, 1 + 1, i)
    BY <1>2, <1>4, <2>1
  <2>3. CASE Head(q).op = "Select"
    BY <1>1, <2>1, <2>2, <2>3 DEF Follows
  <2>4. CASE Head(q).op # "Select"
    <3>1. ASSUME NEW k \in 1..i PROVE q[k].op # "Select"
      <4>1. k = 1 \/ k \in 1 + 1..i
        BY <1>1
      <4> QED BY <1>1, <2>2, <2>4, <4>1 DEF NoSelect
    <3> QED BY <2>4, <3>1 DEF NoSelect
  <2> QED BY <2>3, <2>4
<1> QED BY <1>3, <1>4 DEF t

-----------------------------------------------------------------------------
(* The steps.  First what each of the connection task's puts in facts.     *)

LEMMA Messages ==
    /\ Failure \in Fact /\ MediaStatus \in Fact
    /\ \A d \in Devices : Connected(d) \in Fact /\ Disconnected(d) \in Fact
    /\ \A ds \in SUBSET Devices : Receivers(ds) \in Told
    /\ Fact \subseteq Told /\ Seq(Fact) \subseteq Seq(Told)
    /\ \A e \in Fact : e.kind # "Receivers"
<1>1. /\ Failure \in Fact /\ MediaStatus \in Fact
      /\ \A d \in Devices : Connected(d) \in Fact /\ Disconnected(d) \in Fact
      /\ \A ds \in SUBSET Devices : Receivers(ds) \in Told
      /\ \A e \in Fact : e.kind # "Receivers"
  BY DEF Failure, MediaStatus, Connected, Disconnected, Receivers, Fact, Told
<1>2. Fact \subseteq Told
  BY DEF Told
<1>3. ASSUME NEW s \in Seq(Fact) PROVE s \in Seq(Told)
  BY <1>2
<1> QED BY <1>1, <1>2, <1>3

LEMMA Shows ==
    ASSUME NEW c
    PROVE  /\ Showing(c, Failure) = None
           /\ \A d : Showing(c, Connected(d)) = d /\ Showing(c, Disconnected(d)) = None
           /\ Showing(c, MediaStatus) = c
           /\ Failure.kind = "Error" /\ MediaStatus.kind = "MediaStatus"
           /\ \A d : Connected(d).kind = "Connected" /\ Disconnected(d).kind = "Disconnected"
           /\ \A ds : Showing(c, Receivers(ds)) = c /\ Receivers(ds).kind = "Receivers"
BY DEF Showing, Failure, Connected, Disconnected, MediaStatus, Receivers

LEMMA Joined ==
    ASSUME NEW S, NEW s \in Seq(S), NEW a \in S, NEW b \in S
    PROVE  /\ s \o <<>> = s /\ s \o <<a>> = Append(s, a)
           /\ s \o (<<>> \o <<b>>) = Append(s, b)
           /\ s \o (<<a>> \o <<>>) = Append(s, a)
           /\ s \o (<<a>> \o <<b>>) = Append(Append(s, a), b)
<1>1. <<>> \o <<b>> = <<b>> /\ <<a>> \o <<>> = <<a>>
  OBVIOUS
<1>2. s \o <<>> = s /\ s \o <<a>> = Append(s, a) /\ s \o <<b>> = Append(s, b)
  OBVIOUS
<1>3. s \o (<<a>> \o <<b>>) = Append(Append(s, a), b)
  <2>1. <<a>> \in Seq(S) /\ <<b>> \in Seq(S) /\ Append(s, a) \in Seq(S)
    OBVIOUS
  <2>2. s \o (<<a>> \o <<b>>) = (s \o <<a>>) \o <<b>>
    BY <2>1, ConcatAssociative
  <2>3. \A t \in Seq(S) : t \o <<b>> = Append(t, b)
    OBVIOUS
  <2> QED BY <1>2, <2>1, <2>2, <2>3
<1> QED BY <1>1, <1>2, <1>3

\* What CastSelect reports when it is done.
Outcome == IF link' = None THEN Failure ELSE Connected(link')

LEMMA CastReports ==
    ASSUME DashTypes, Linked
    PROVE  /\ CastSelect =>
                  /\ link' \in Devices \cup {None} /\ Outcome \in Fact
                  /\ facts' = IF link = None THEN Append(facts, Outcome)
                              ELSE Append(Append(facts, Disconnected(link)), Outcome)
           /\ CastLose =>
                  facts' = IF wanted' = None THEN Append(Append(facts, Disconnected(link)), Failure)
                           ELSE Append(facts, Disconnected(link))
           /\ CastReconnect => link' \in Devices /\ facts' = Append(facts, Connected(link'))
           /\ CastGiveUp => facts' = Append(facts, Failure)
           /\ CastStatus => facts' = Append(facts, MediaStatus)
           /\ CastLoad \/ CastLaunched => facts' = facts
<1>1. facts \in Seq(Fact) /\ link \in Devices \cup {None} /\ wanted \in Devices \cup {None}
  BY DEF DashTypes, Linked
<1>2. link # None => Disconnected(link) \in Fact
  BY <1>1, Messages
<1>3. ASSUME CastSelect
      PROVE  /\ link' \in Devices \cup {None} /\ Outcome \in Fact
             /\ facts' = IF link = None THEN Append(facts, Outcome)
                         ELSE Append(Append(facts, Disconnected(link)), Outcome)
  <2>1. casts # <<>> /\ Head(casts).op = "Select" /\ Select(Head(casts).device)
    BY <1>3 DEF CastSelect
  <2>2. Head(casts) \in Cast
    BY <2>1 DEF DashTypes
  <2>3. Head(casts).device \in Devices
    BY <2>1, <2>2 DEF Cast
  <2>4. link' \in Devices \cup {None}
    BY <2>1, <2>3 DEF Select
  <2>5. Outcome \in Fact
    BY <2>4, Messages DEF Outcome
  <2>6. facts' = facts \o (TornDown \o <<Outcome>>)
    BY <1>3 DEF CastSelect, Report, Outcome
  <2>7. CASE link = None
    <3>1. TornDown = <<>>
      BY <2>7 DEF TornDown
    <3> QED BY <1>1, <2>4, <2>5, <2>6, <2>7, <3>1, Joined
  <2>8. CASE link # None
    <3>1. TornDown = <<Disconnected(link)>>
      BY <2>8 DEF TornDown
    <3> QED BY <1>1, <1>2, <2>4, <2>5, <2>6, <2>8, <3>1, Joined
  <2> QED BY <2>7, <2>8
<1>4. ASSUME CastLose
      PROVE  facts' = IF wanted' = None THEN Append(Append(facts, Disconnected(link)), Failure)
                      ELSE Append(facts, Disconnected(link))
  <2>1. link # None
    BY <1>4 DEF CastLose, Lose
  <2>2. TornDown = <<Disconnected(link)>>
    BY <2>1 DEF TornDown
  <2>3. facts' = facts \o (<<Disconnected(link)>> \o IF wanted' = None THEN <<Failure>> ELSE <<>>)
    BY <1>4, <2>2 DEF CastLose, Report
  <2>4. CASE wanted' = None
    BY <1>1, <1>2, <2>1, <2>3, <2>4, Joined, Messages
  <2>5. CASE wanted' # None
    BY <1>1, <1>2, <2>1, <2>3, <2>5, Joined, Messages
  <2> QED BY <2>4, <2>5
<1>5. ASSUME CastReconnect PROVE link' \in Devices /\ facts' = Append(facts, Connected(link'))
  <2>1. link' \in Devices
    BY <1>1, <1>5 DEF CastReconnect, Reconnect
  <2> QED BY <1>1, <1>5, <2>1, Joined, Messages DEF CastReconnect, Report
<1>6. CastGiveUp => facts' = Append(facts, Failure)
  BY <1>1, Joined, Messages DEF CastGiveUp, Report
<1>7. CastStatus => facts' = Append(facts, MediaStatus)
  BY <1>1, Joined, Messages DEF CastStatus, Report
<1>8. CastLoad \/ CastLaunched => facts' = facts
  BY <1>1, Joined, Messages DEF CastLoad, CastLaunched, Report
<1> QED BY <1>3, <1>4, <1>5, <1>6, <1>7, <1>8

\* The types.
LEMMA DashTypesStep == DashTypes /\ Linked /\ DashNext => DashTypes' /\ Linked'
<1> SUFFICES ASSUME DashTypes, Linked, DashNext PROVE DashTypes' /\ Linked'
  OBVIOUS
<1>0. \A s \in Seq(Fact), e \in Fact : Append(s, e) \in Seq(Fact)
  OBVIOUS
<1> USE DEF DashTypes
<1>1. CASE HandleEvents
  <2>1. gui' \in Picture
    BY <1>1, DrainedShows DEF HandleEvents
  <2> QED BY <1>1, <2>1 DEF HandleEvents, linkVars, Linked
<1>2. CASE Play
  <2>1. [op |-> "Play", for |-> picked] \in Order
    BY DEF Order
  <2>2. orders' \in Seq(Order)
    BY <1>2, <2>1 DEF Play, Dispatch
  <2> QED BY <1>2, <2>2 DEF Play, Dispatch, linkVars, Linked
<1>3. CASE RetryDiscovery
  <2>1. [op |-> "Rescan"] \in Order
    BY DEF Order
  <2>2. orders' \in Seq(Order)
    BY <1>3, <2>1 DEF RetryDiscovery, Dispatch
  <2>3. gui' \in Picture
    BY <1>3 DEF RetryDiscovery, Picture
  <2> QED BY <1>3, <2>2, <2>3 DEF RetryDiscovery, Dispatch, linkVars, Linked
<1>4. ASSUME NEW d \in Devices, SelectReceiver(d) PROVE DashTypes' /\ Linked'
  <2>1. [op |-> "Select", device |-> d] \in Order
    BY DEF Order
  <2>2. orders' \in Seq(Order)
    BY <1>4, <2>1 DEF SelectReceiver, Dispatch
  <2>3. gui' \in Picture
    BY <1>4 DEF SelectReceiver, Picture
  <2> QED BY <1>4, <2>2, <2>3 DEF SelectReceiver, Dispatch, linkVars, Linked
<1>5. CASE HandleOrder
  <2>1. Head(orders) \in Order /\ orders' \in Seq(Order)
    BY <1>5 DEF HandleOrder
  <2>2. Head(orders).op = "Select" => Head(orders) \in Cast
    BY <2>1 DEF Order, Cast
  <2>3. Head(orders).op = "Play" => [op |-> "Load", for |-> Head(orders).for] \in Cast
    BY <2>1 DEF Order, Cast
  <2>4. casts' \in Seq(Cast)
    <3>1. \A q \in Seq(Cast), e \in Cast : Append(q, e) \in Seq(Cast)
      OBVIOUS
    <3> QED BY <1>5, <2>2, <2>3, <3>1 DEF HandleOrder
  <2> QED BY <1>5, <2>1, <2>4 DEF HandleOrder, linkVars, Linked
<1>6. CASE ForwardFact
  <2>1. Head(facts) \in Fact /\ facts' \in Seq(Fact)
    BY <1>6 DEF ForwardFact
  <2>2. inbox' \in Seq(Told)
    BY <1>6, <2>1, Messages DEF ForwardFact
  <2> QED BY <1>6, <2>1, <2>2 DEF ForwardFact, linkVars, Linked
<1>7. CASE CastSelect
  <2>1. facts' \in Seq(Fact)
    <3>1. CASE link = None
      <4>1. Outcome \in Fact /\ facts' = Append(facts, Outcome)
        BY <1>7, <3>1, CastReports
      <4> QED BY <1>0, <4>1
    <3>2. CASE link # None
      <4>1. Disconnected(link) \in Fact
        BY <3>2, Messages DEF Linked
      <4>2. Outcome \in Fact /\ facts' = Append(Append(facts, Disconnected(link)), Outcome)
        BY <1>7, <3>2, CastReports
      <4> QED BY <1>0, <4>1, <4>2
    <3> QED BY <3>1, <3>2
  <2>2. casts' \in Seq(Cast)
    BY <1>7 DEF CastSelect
  <2>3. Linked'
    <3>1. link' \in Devices \cup {None}
      BY <1>7, CastReports
    <3> QED BY <1>7, <3>1 DEF CastSelect, Select, Linked
  <2> QED BY <1>7, <2>1, <2>2, <2>3 DEF CastSelect, Report
<1>8. CASE CastLoad
  <2>1. casts' \in Seq(Cast)
    BY <1>8 DEF CastLoad
  <2> QED BY <1>8, <2>1, CastReports DEF CastLoad, Report, linkVars, Linked
<1>9. CASE CastLose
  <2>1. Linked' /\ link # None
    BY <1>9 DEF CastLose, Lose, Linked
  <2>2. Disconnected(link) \in Fact
    BY <2>1, Messages DEF Linked
  <2>3. facts' \in Seq(Fact)
    <3>1. CASE wanted' = None
      <4>1. facts' = Append(Append(facts, Disconnected(link)), Failure)
        BY <1>9, <3>1, CastReports
      <4> QED BY <1>0, <2>2, <4>1, Messages
    <3>2. CASE wanted' # None
      <4>1. facts' = Append(facts, Disconnected(link))
        BY <1>9, <3>2, CastReports
      <4> QED BY <1>0, <2>2, <4>1
    <3> QED BY <3>1, <3>2
  <2> QED BY <1>9, <2>1, <2>3 DEF CastLose, Report
<1>10. CASE CastReconnect
  <2>1. Linked'
    BY <1>10 DEF CastReconnect, Reconnect, Linked
  <2>2. facts' \in Seq(Fact)
    <3>1. link' \in Devices /\ facts' = Append(facts, Connected(link'))
      BY <1>10, CastReports
    <3> QED BY <1>0, <3>1, Messages
  <2> QED BY <1>10, <2>1, <2>2 DEF CastReconnect, Report
<1>11. CASE CastGiveUp
  <2>1. Linked'
    BY <1>11 DEF CastGiveUp, GiveUp, Linked
  <2>2. facts' \in Seq(Fact)
    <3>1. facts' = Append(facts, Failure)
      BY <1>11, CastReports
    <3> QED BY <1>0, <3>1, Messages
  <2> QED BY <1>11, <2>1, <2>2 DEF CastGiveUp, Report
<1>12. CASE CastLaunched
  <2>1. Linked'
    BY <1>12 DEF CastLaunched, Launched, Linked
  <2> QED BY <1>12, <2>1, CastReports DEF CastLaunched, Report
<1>13. CASE CastStatus
  <2>1. facts' \in Seq(Fact)
    <3>1. facts' = Append(facts, MediaStatus)
      BY <1>13, CastReports
    <3> QED BY <1>0, <3>1, Messages
  <2> QED BY <1>13, <2>1 DEF CastStatus, Report, linkVars, Linked
<1>14. ASSUME NEW ds \in SUBSET Devices, Publish(ds) PROVE DashTypes' /\ Linked'
  <2>1. inbox' \in Seq(Told)
    BY <1>14, Messages DEF Publish
  <2> QED BY <1>14, <2>1 DEF Publish, linkVars, Linked
<1> QED BY <1>1, <1>2, <1>3, <1>4, <1>5, <1>6, <1>7, <1>8, <1>9, <1>10, <1>11, <1>12, <1>13, <1>14
        DEF DashNext

\* The events on their way lead to the session there is.
LEMMA SessionStep ==
    DashTypes /\ Linked /\ SessionShown /\ DashNext => SessionShown'
<1> SUFFICES ASSUME DashTypes, Linked, SessionShown, DashNext PROVE SessionShown'
  OBVIOUS
<1>1. /\ gui \in Picture /\ inbox \in Seq(Told) /\ facts \in Seq(Told) /\ facts \in Seq(Fact)
      /\ link \in Devices \cup {None} /\ gui.connection \in Devices \cup {None}
  BY Messages DEF DashTypes, Linked, Picture
<1>2. PICK m \in Devices \cup {None} : Leads(gui.connection, inbox, m) /\ Leads(m, facts, link)
  BY DEF SessionShown
<1>3. gui.playing => gui.connection # None
  BY DEF SessionShown
<1>4. ASSUME gui'.connection = gui.connection, gui'.playing = gui.playing, inbox' = inbox,
             Leads(m, facts', link')
      PROVE  SessionShown'
  BY <1>2, <1>3, <1>4 DEF SessionShown
<1>5. CASE HandleEvents
  <2>1. gui' = Drained(gui, inbox) /\ inbox' = <<>> /\ facts' = facts /\ link' = link
    BY <1>5 DEF HandleEvents, linkVars
  <2>2. gui'.connection = m /\ (gui'.playing => m # None)
    <3>1. \A d \in Devices \cup {None} :
              Leads(gui.connection, inbox, d) /\ (gui.playing => gui.connection # None)
                  => /\ Drained(gui, inbox).connection = d
                     /\ Drained(gui, inbox).playing => d # None
      BY <1>1, DrainedShows, Zenon
    <3> QED BY <1>2, <1>3, <2>1, <3>1, Zenon
  <2>3. Leads(m, inbox', m)
    BY <2>1, LeadsNowhere
  <2> QED BY <1>2, <2>1, <2>2, <2>3 DEF SessionShown
<1>6. CASE Play \/ RetryDiscovery \/ HandleOrder \/ \E d \in Devices : SelectReceiver(d)
  <2>1. inbox' = inbox /\ facts' = facts /\ link' = link
    BY <1>6 DEF Play, RetryDiscovery, SelectReceiver, HandleOrder, Dispatch, linkVars
  <2>2. gui'.connection = gui.connection /\ gui'.playing = gui.playing
    <3>1. gui' = gui \/ (\E x : gui' = [gui EXCEPT !.discovery = x])
                    \/ (\E x : gui' = [gui EXCEPT !.selected = x])
      BY <1>6 DEF Play, RetryDiscovery, SelectReceiver, HandleOrder
    <3> QED BY <1>1, <3>1 DEF Picture
  <2> QED BY <1>2, <1>4, <2>1, <2>2
<1>7. CASE ForwardFact
  <2> DEFINE e == Head(facts)
             r == Showing(m, e)
  <2>1. /\ facts # <<>> /\ facts' = Tail(facts) /\ inbox' = Append(inbox, e)
        /\ gui' = gui /\ link' = link
    BY <1>7 DEF ForwardFact, linkVars
  <2>2. e \in Told
    BY <1>1, <2>1
  <2>3. /\ r \in Devices \cup {None} /\ Leads(r, Tail(facts), link)
        /\ e.kind = "MediaStatus" => m # None
    BY <1>1, <1>2, <2>1, LeadsAway
  <2>4. Leads(gui.connection, Append(inbox, e), r)
    <3> HIDE DEF e
    <3> QED BY <1>1, <1>2, <2>2, <2>3, LeadsOn
  <2> QED BY <1>3, <2>1, <2>3, <2>4 DEF SessionShown
<1>8. CASE CastSelect
  <2>1. gui' = gui /\ inbox' = inbox
    BY <1>8 DEF CastSelect, Report
  <2>2. link' \in Devices \cup {None} /\ Outcome \in Told /\ Outcome.kind # "MediaStatus"
    BY <1>8, CastReports, Messages, Shows DEF Outcome
  <2>3. \A c : Showing(c, Outcome) = link'
    BY Shows DEF Outcome
  <2>4. CASE link = None
    <3>1. facts' = Append(facts, Outcome)
      BY <1>8, <2>4, CastReports
    <3>2. Leads(m, Append(facts, Outcome), Showing(link, Outcome))
      BY <1>1, <1>2, <2>2, LeadsOn
    <3> QED BY <1>4, <2>1, <2>3, <3>1, <3>2
  <2>5. CASE link # None
    <3> DEFINE s == Append(facts, Disconnected(link))
    <3>1. facts' = Append(s, Outcome)
      BY <1>8, <2>5, CastReports
    <3>2. Disconnected(link) \in Told /\ Disconnected(link).kind # "MediaStatus"
      BY <1>1, <2>5, Messages, Shows
    <3>3. s \in Seq(Told)
      BY <1>1, <3>2
    <3>4. Leads(m, s, Showing(link, Disconnected(link)))
      BY <1>1, <1>2, <3>2, LeadsOn
    <3>5. Leads(m, s, None)
      BY <3>4, Shows
    <3>6. Leads(m, Append(s, Outcome), Showing(None, Outcome))
      <4> HIDE DEF s
      <4> QED BY <2>2, <3>3, <3>5, LeadsOn
    <3> QED BY <1>4, <2>1, <2>3, <3>1, <3>6
  <2> QED BY <2>4, <2>5
<1>9. CASE CastLoad \/ CastLaunched
  <2>1. gui' = gui /\ inbox' = inbox /\ link' = link
    BY <1>9 DEF CastLoad, CastLaunched, Launched, Report, linkVars
  <2>2. facts' = facts
    BY <1>9, CastReports
  <2> QED BY <1>2, <1>4, <2>1, <2>2
<1>10. CASE CastLose
  <2>1. gui' = gui /\ inbox' = inbox /\ link # None /\ link' = None
    BY <1>10 DEF CastLose, Lose, Report
  <2> DEFINE s == Append(facts, Disconnected(link))
  <2>2. Disconnected(link) \in Told /\ Disconnected(link).kind # "MediaStatus"
    BY <1>1, <2>1, Messages, Shows
  <2>3. s \in Seq(Told)
    BY <1>1, <2>2
  <2>4. Leads(m, s, Showing(link, Disconnected(link)))
    BY <1>1, <1>2, <2>2, LeadsOn
  <2>5. Leads(m, s, None)
    BY <2>4, Shows
  <2>6. CASE wanted' = None
    <3>1. facts' = Append(s, Failure)
      BY <1>10, <2>6, CastReports
    <3>2. Failure \in Told /\ Failure.kind # "MediaStatus" /\ Showing(None, Failure) = None
      BY Messages, Shows
    <3>3. Leads(m, Append(s, Failure), Showing(None, Failure))
      <4> HIDE DEF s
      <4> QED BY <2>3, <2>5, <3>2, LeadsOn
    <3> QED BY <1>4, <2>1, <3>1, <3>2, <3>3
  <2>7. CASE wanted' # None
    <3>1. facts' = s
      BY <1>10, <2>7, CastReports
    <3> QED BY <1>4, <2>1, <2>5, <3>1
  <2> QED BY <2>6, <2>7
<1>11. CASE CastReconnect
  <2>1. gui' = gui /\ inbox' = inbox
    BY <1>11 DEF CastReconnect, Report
  <2>2. link' \in Devices /\ facts' = Append(facts, Connected(link'))
    BY <1>11, CastReports
  <2>3. /\ Connected(link') \in Told /\ Connected(link').kind # "MediaStatus"
        /\ Showing(link, Connected(link')) = link'
    BY <2>2, Messages, Shows
  <2>4. Leads(m, Append(facts, Connected(link')), Showing(link, Connected(link')))
    BY <1>1, <1>2, <2>3, LeadsOn
  <2> QED BY <1>4, <2>1, <2>2, <2>3, <2>4
<1>12. CASE CastGiveUp
  <2>1. gui' = gui /\ inbox' = inbox /\ link = None /\ link' = None
    BY <1>12 DEF CastGiveUp, GiveUp, Report
  <2>2. facts' = Append(facts, Failure)
    BY <1>12, CastReports
  <2>3. Failure \in Told /\ Failure.kind # "MediaStatus" /\ Showing(link, Failure) = None
    BY Messages, Shows
  <2>4. Leads(m, Append(facts, Failure), Showing(link, Failure))
    BY <1>1, <1>2, <2>3, LeadsOn
  <2> QED BY <1>4, <2>1, <2>2, <2>3, <2>4
<1>13. CASE CastStatus
  <2>1. gui' = gui /\ inbox' = inbox /\ link' = link /\ link # None
    BY <1>13 DEF CastStatus, Report, linkVars, Linked
  <2>2. facts' = Append(facts, MediaStatus)
    BY <1>13, CastReports
  <2>3. MediaStatus \in Told /\ Showing(link, MediaStatus) = link
    BY Messages, Shows
  <2>4. Leads(m, Append(facts, MediaStatus), Showing(link, MediaStatus))
    BY <1>1, <1>2, <2>1, <2>3, LeadsOn
  <2> QED BY <1>4, <2>1, <2>2, <2>3, <2>4
<1>14. ASSUME NEW ds \in SUBSET Devices, Publish(ds) PROVE SessionShown'
  <2>1. gui' = gui /\ inbox' = Append(inbox, Receivers(ds)) /\ facts' = facts /\ link' = link
    BY <1>14 DEF Publish, linkVars
  <2>2. /\ Receivers(ds) \in Told /\ Receivers(ds).kind # "MediaStatus"
        /\ Showing(m, Receivers(ds)) = m
    BY Messages, Shows
  <2>3. Leads(gui.connection, Append(inbox, Receivers(ds)), Showing(m, Receivers(ds)))
    BY <1>1, <1>2, <2>2, LeadsOn
  <2> QED BY <1>2, <1>3, <2>1, <2>2, <2>3 DEF SessionShown
<1> QED BY <1>5, <1>6, <1>7, <1>8, <1>9, <1>10, <1>11, <1>12, <1>13, <1>14 DEF DashNext

\* The last list published is shown or on its way.
LEMMA ListStep == DashTypes /\ ListShown /\ DashNext => ListShown'
<1> SUFFICES ASSUME DashTypes, ListShown, DashNext PROVE ListShown'
  OBVIOUS
<1>1. gui \in Picture /\ inbox \in Seq(Told) /\ facts \in Seq(Fact) /\ table \in SUBSET Devices
  BY DEF DashTypes
<1>2. CASE HandleEvents
  <2>1. gui' = Drained(gui, inbox) /\ inbox' = <<>> /\ table' = table
    BY <1>2 DEF HandleEvents
  <2>2. gui'.listed = table
    BY <1>1, <2>1, DrainedShows DEF ListShown
  <2>3. Unlisted(<<>>, 0)
    BY DEF Unlisted
  <2> QED BY <2>1, <2>2, <2>3 DEF ListShown
<1>3. CASE ForwardFact
  <2>1. facts # <<>> /\ inbox' = Append(inbox, Head(facts)) /\ gui' = gui /\ table' = table
    BY <1>3 DEF ForwardFact
  <2>2. Head(facts) \in Told /\ Head(facts).kind # "Receivers"
    BY <1>1, <2>1, Messages
  <2> QED BY <1>1, <2>1, <2>2, ListedOn DEF ListShown
<1>4. ASSUME NEW ds \in SUBSET Devices, Publish(ds) PROVE ListShown'
  <2>1. inbox' = Append(inbox, Receivers(ds)) /\ table' = ds
    BY <1>4 DEF Publish
  <2>2. Receivers(ds) \in Told
    BY Messages
  <2> QED BY <1>1, <2>1, <2>2, ListedOn DEF ListShown
<1>5. CASE Play \/ RetryDiscovery \/ HandleOrder \/ \E d \in Devices : SelectReceiver(d)
  <2>1. inbox' = inbox /\ table' = table
    BY <1>5 DEF Play, RetryDiscovery, SelectReceiver, HandleOrder, Dispatch
  <2>2. gui'.listed = gui.listed
    BY <1>1, <1>5 DEF Play, RetryDiscovery, SelectReceiver, HandleOrder, Picture
  <2> QED BY <2>1, <2>2 DEF ListShown
<1>6. CASE CastSelect \/ CastLoad \/ CastLose \/ CastReconnect \/ CastGiveUp \/ CastLaunched
           \/ CastStatus
  <2>1. inbox' = inbox /\ table' = table /\ gui' = gui
    BY <1>6 DEF CastSelect, CastLoad, CastLose, CastReconnect, CastGiveUp, CastLaunched,
                CastStatus, Report
  <2> QED BY <2>1 DEF ListShown
<1> QED BY <1>2, <1>3, <1>4, <1>5, <1>6 DEF DashNext

\* The receiver in use is selected, or the events on their way select it.
LEMMA SelectionStep ==
    DashTypes /\ Linked /\ SelectionShown /\ DashNext => SelectionShown'
<1> SUFFICES ASSUME DashTypes, Linked, SelectionShown, DashNext, link' # None, NoPick'
             PROVE  \/ Ends(facts', link')
                    \/ Silent(facts', 0) /\ Ends(inbox', link')
                    \/ Silent(facts', 0) /\ Silent(inbox', 0) /\ gui'.selected = link'
  BY DEF SelectionShown
<1>1. /\ gui \in Picture /\ inbox \in Seq(Told) /\ facts \in Seq(Told) /\ facts \in Seq(Fact)
      /\ orders \in Seq(Order) /\ casts \in Seq(Cast) /\ link \in Devices \cup {None}
  BY Messages DEF DashTypes, Linked
<1>2. ASSUME link' = link, NoPick
      PROVE  /\ link' \in Devices
             /\ \/ Ends(facts, link')
                \/ Silent(facts, 0) /\ Ends(inbox, link')
                \/ Silent(facts, 0) /\ Silent(inbox, 0) /\ gui.selected = link'
  BY <1>1, <1>2 DEF SelectionShown
<1>3. CASE HandleEvents
  <2>1. /\ gui' = Drained(gui, inbox) /\ inbox' = <<>> /\ facts' = facts /\ link' = link
        /\ orders' = orders /\ casts' = casts
    BY <1>3 DEF HandleEvents, linkVars
  <2>2. NoPick
    BY <2>1 DEF NoPick
  <2>3. Ends(inbox, link') \/ (Silent(inbox, 0) /\ gui.selected = link') => gui'.selected = link'
    BY <1>1, <1>2, <2>1, <2>2, DrainedShows
  <2>4. Silent(<<>>, 0)
    BY DEF Silent
  <2> QED BY <1>2, <2>1, <2>2, <2>3, <2>4
<1>4. CASE Play \/ RetryDiscovery
  <2>1. PICK e \in Order : orders' = Append(orders, e) /\ e.op # "Select"
    <3>1. [op |-> "Play", for |-> picked] \in Order /\ [op |-> "Rescan"] \in Order
      BY DEF Order, DashTypes
    <3> QED BY <1>4, <3>1 DEF Play, RetryDiscovery, Dispatch
  <2>2. inbox' = inbox /\ facts' = facts /\ link' = link /\ casts' = casts
    BY <1>4 DEF Play, RetryDiscovery, Dispatch, linkVars
  <2>3. gui'.selected = gui.selected
    BY <1>1, <1>4 DEF Play, RetryDiscovery, Picture
  <2>4. Len(orders') = Len(orders) + 1
    BY <1>1, <2>1
  <2>5. NoPick
    BY <1>1, <2>1, <2>2, <2>4, FollowsOn DEF NoPick
  <2> QED BY <1>2, <2>2, <2>3, <2>5
<1>5. ASSUME NEW d \in Devices, SelectReceiver(d) PROVE FALSE
  <2> DEFINE e == [op |-> "Select", device |-> d]
  <2>1. orders' = Append(orders, e) /\ e \in Order /\ e.op = "Select"
    BY <1>5 DEF SelectReceiver, Dispatch, Order
  <2>2. Len(orders') = Len(orders) + 1
    BY <1>1, <2>1
  <2> HIDE DEF e
  <2> QED BY <1>1, <2>1, <2>2, FollowsOn DEF NoPick
<1>6. CASE HandleOrder
  <2>1. /\ orders # <<>> /\ orders' = Tail(orders) /\ Head(orders) \in Order
        /\ gui' = gui /\ inbox' = inbox /\ facts' = facts /\ link' = link
    BY <1>1, <1>6 DEF HandleOrder, linkVars
  <2>2. Head(orders).op # "Select"
    <3>1. SUFFICES ASSUME Head(orders).op = "Select" PROVE FALSE
      OBVIOUS
    <3>2. casts' = Append(casts, Head(orders))
      BY <1>6, <3>1 DEF HandleOrder
    <3>3. Head(orders) \in Cast
      BY <2>1, <3>1 DEF Order, Cast
    <3>4. Len(casts') = Len(casts) + 1
      BY <1>1, <3>2, <3>3
    <3> QED BY <1>1, <3>1, <3>2, <3>3, <3>4, FollowsOn DEF NoPick
  <2>3. NoSelect(orders, 1, Len(orders))
    BY <1>1, <2>1, <2>2, NoSelectAway DEF NoPick
  <2>4. NoSelect(casts, 1, Len(casts))
    <3>1. CASE casts' = casts
      BY <3>1 DEF NoPick
    <3>2. CASE casts' = Append(casts, [op |-> "Load", for |-> Head(orders).for])
      <4> DEFINE e == [op |-> "Load", for |-> Head(orders).for]
      <4>1. Len(casts') = Len(casts) + 1 /\ \A k \in 1..Len(casts) : casts'[k] = casts[k]
        BY <1>1, <3>2
      <4>2. \A k \in 1..Len(casts) + 1 : casts'[k].op # "Select"
        BY <4>1 DEF NoPick, NoSelect
      <4>3. ASSUME NEW k \in 1..Len(casts) PROVE casts[k].op # "Select"
        BY <1>1, <4>1, <4>2
      <4> QED BY <4>3 DEF NoSelect
    <3> QED BY <1>6, <2>2, <3>1, <3>2 DEF HandleOrder
  <2> QED BY <1>2, <2>1, <2>3, <2>4 DEF NoPick
<1>7. CASE ForwardFact
  <2>1. /\ facts # <<>> /\ facts' = Tail(facts) /\ inbox' = Append(inbox, Head(facts))
        /\ gui' = gui /\ link' = link /\ orders' = orders /\ casts' = casts
    BY <1>7 DEF ForwardFact, linkVars
  <2>2. NoPick
    BY <2>1 DEF NoPick
  <2>3. Head(facts) \in Told
    BY <1>1, <2>1
  <2>4. CASE Ends(facts, link')
    <3>1. Ends(facts', link') \/ (Silent(facts', 0) /\ Head(facts) = Connected(link'))
      BY <1>1, <1>2, <2>1, <2>2, <2>4, EndsAway
    <3>2. Head(facts) = Connected(link') => Ends(inbox', link')
      BY <1>1, <1>2, <2>1, <2>2, <2>3, EndsOn
    <3> QED BY <3>1, <3>2
  <2>5. CASE Silent(facts, 0) /\ ~Ends(facts, link')
    <3>1. Silent(facts', 0) /\ Head(facts).kind \notin {"Connected", "Disconnected"}
      BY <1>1, <1>2, <2>1, <2>2, <2>5, EndsAway
    <3>2. /\ Ends(inbox, link') => Ends(inbox', link')
          /\ Silent(inbox, 0) => Silent(inbox', 0)
      BY <1>1, <1>2, <2>1, <2>2, <2>3, <3>1, EndsOn
    <3> QED BY <1>2, <2>1, <2>2, <2>5, <3>1, <3>2
  <2> QED BY <1>2, <2>1, <2>2, <2>4, <2>5
<1>8. CASE CastSelect
  <2>1. link' \in Devices /\ Outcome = Connected(link') /\ Outcome \in Told
    BY <1>8, CastReports, Messages DEF Outcome
  <2>2. CASE link = None
    <3>1. facts' = Append(facts, Outcome)
      BY <1>8, <2>2, CastReports
    <3> QED BY <1>1, <2>1, <3>1, EndsOn
  <2>3. CASE link # None
    <3> DEFINE s == Append(facts, Disconnected(link))
    <3>1. facts' = Append(s, Outcome)
      BY <1>8, <2>3, CastReports
    <3>2. s \in Seq(Told)
      <4>1. Disconnected(link) \in Told
        BY <1>1, <2>3, Messages
      <4> QED BY <1>1, <4>1
    <3> HIDE DEF s
    <3> QED BY <2>1, <3>1, <3>2, EndsOn
  <2> QED BY <2>2, <2>3
<1>9. CASE CastLoad
  <2>1. /\ casts # <<>> /\ Head(casts).op = "Load" /\ casts' = Tail(casts)
        /\ gui' = gui /\ inbox' = inbox /\ link' = link /\ orders' = orders
    BY <1>9 DEF CastLoad, Report, linkVars
  <2>2. facts' = facts
    BY <1>9, CastReports
  <2>3. NoSelect(casts, 1, Len(casts))
    <3>1. Head(casts).op # "Select"
      BY <2>1
    <3> QED BY <1>1, <2>1, <3>1, NoSelectAway DEF NoPick
  <2>4. NoPick
    BY <2>1, <2>3 DEF NoPick
  <2> QED BY <1>2, <2>1, <2>2, <2>4
<1>10. CASE CastLose \/ CastGiveUp
  BY <1>10 DEF CastLose, Lose, CastGiveUp, GiveUp
<1>11. CASE CastReconnect
  <2>1. link' \in Devices /\ facts' = Append(facts, Connected(link'))
    BY <1>11, CastReports
  <2>2. Connected(link') \in Told
    BY <2>1, Messages
  <2> QED BY <1>1, <2>1, <2>2, EndsOn
<1>12. CASE CastLaunched
  <2>1. /\ gui' = gui /\ inbox' = inbox /\ link' = link /\ orders' = orders /\ casts' = casts
    BY <1>12 DEF CastLaunched, Launched, Report
  <2>2. facts' = facts
    BY <1>12, CastReports
  <2> QED BY <1>2, <2>1, <2>2 DEF NoPick
<1>13. CASE CastStatus
  <2>1. /\ gui' = gui /\ inbox' = inbox /\ link' = link /\ orders' = orders /\ casts' = casts
    BY <1>13 DEF CastStatus, Report, linkVars
  <2>2. facts' = Append(facts, MediaStatus)
    BY <1>13, CastReports
  <2>3. MediaStatus \in Told /\ MediaStatus.kind \notin {"Connected", "Disconnected"}
    BY Messages, Shows
  <2>4. NoPick
    BY <2>1 DEF NoPick
  <2>5. link' \in Devices
    BY <1>2, <2>1, <2>4
  <2>6. /\ Ends(facts, link') => Ends(facts', link')
        /\ Silent(facts, 0) => Silent(facts', 0)
    BY <1>1, <2>2, <2>3, <2>5, EndsOn
  <2> QED BY <1>2, <2>1, <2>4, <2>6
<1>14. ASSUME NEW ds \in SUBSET Devices, Publish(ds)
       PROVE  \/ Ends(facts', link')
              \/ Silent(facts', 0) /\ Ends(inbox', link')
              \/ Silent(facts', 0) /\ Silent(inbox', 0) /\ gui'.selected = link'
  <2>1. /\ gui' = gui /\ facts' = facts /\ link' = link /\ orders' = orders /\ casts' = casts
        /\ inbox' = Append(inbox, Receivers(ds))
    BY <1>14 DEF Publish, linkVars
  <2>2. Receivers(ds) \in Told /\ Receivers(ds).kind \notin {"Connected", "Disconnected"}
    BY Messages, Shows
  <2>3. NoPick
    BY <2>1 DEF NoPick
  <2>4. link' \in Devices
    BY <1>2, <2>1, <2>3
  <2>5. /\ Ends(inbox, link') => Ends(inbox', link')
        /\ Silent(inbox, 0) => Silent(inbox', 0)
    BY <1>1, <2>1, <2>2, <2>4, EndsOn
  <2> QED BY <1>2, <2>1, <2>3, <2>5
<1> QED BY <1>3, <1>4, <1>5, <1>6, <1>7, <1>8, <1>9, <1>10, <1>11, <1>12, <1>13, <1>14 DEF DashNext

\* The same for whom a command is meant.
LEMMA MeantOn ==
    ASSUME NEW S, NEW q \in Seq(S), NEW e \in S, NEW w, NEW x
    PROVE  /\ \A i \in 1..Len(q) + 1 : Meant(Append(q, e), w, i, x) <=> Meant(q, w, i, x)
           /\ e.op = "Select" /\ x = e.device => Meant(Append(q, e), w, Len(q) + 2, x)
           /\ e.op # "Select" /\ Meant(q, w, Len(q) + 1, x) =>
                  Meant(Append(q, e), w, Len(q) + 2, x)
<1>1. (Len(q) + 2) - 1 = Len(q) + 1 /\ (Len(q) + 1) - 1 = Len(q)
  OBVIOUS
<1>2. ASSUME NEW i \in 1..Len(q) + 1
      PROVE  Meant(Append(q, e), w, i, x) <=> Meant(q, w, i, x)
  BY FollowsOn DEF Meant
<1>3. ASSUME e.op = "Select", x = e.device PROVE Meant(Append(q, e), w, Len(q) + 2, x)
  BY <1>1, <1>3, FollowsOn DEF Meant
<1>4. ASSUME e.op # "Select", Meant(q, w, Len(q) + 1, x)
      PROVE  Meant(Append(q, e), w, Len(q) + 2, x)
  BY <1>1, <1>4, FollowsOn DEF Meant
<1> QED BY <1>2, <1>3, <1>4

LEMMA MeantAway ==
    ASSUME NEW S, NEW q \in Seq(S), q # <<>>, NEW w, NEW v, NEW x, NEW i \in 1..Len(q),
           Meant(q, w, i + 1, x),
           IF Head(q).op = "Select" THEN v \in {Head(q).device, None} ELSE v = w
    PROVE  Meant(Tail(q), v, i, x)
<1>1. Follows(q, i + 1, x) /\ (NoSelect(q, 1, i) /\ w # None => x = w)
  <2>1. (i + 1) - 1 = i
    OBVIOUS
  <2> QED BY <2>1 DEF Meant
<1>2. /\ Follows(Tail(q), i, x)
      /\ NoSelect(Tail(q), 1, i - 1) =>
             IF Head(q).op = "Select" THEN x = Head(q).device ELSE NoSelect(q, 1, i)
  BY <1>1, FollowsAway
<1> QED BY <1>1, <1>2 DEF Meant

LEMMA ClicksStep ==
    DashTypes /\ Linked /\ ClicksFollow /\ DashNext => ClicksFollow'
<1> SUFFICES ASSUME DashTypes, Linked, ClicksFollow, DashNext PROVE ClicksFollow'
  OBVIOUS
<1>1. /\ orders \in Seq(Order) /\ casts \in Seq(Cast) /\ wanted \in Devices \cup {None}
      /\ Len(orders) \in Nat /\ Len(casts) \in Nat
  BY DEF DashTypes, Linked
<1>2. /\ \A i \in 1..Len(casts) : casts[i].op = "Load" => Meant(casts, wanted, i, casts[i].for)
      /\ \A i \in 1..Len(orders) :
             orders[i].op = "Play" => Asked(orders, casts, wanted, i, orders[i].for)
      /\ Asked(orders, casts, wanted, Len(orders) + 1, picked)
  BY DEF ClicksFollow
\* A selection may be dropped, and nothing else changes.
<1>3. ASSUME orders' = orders, casts' = casts, picked' = picked, wanted' \in {wanted, None}
      PROVE  ClicksFollow'
  <2>1. \A q, i, x : Meant(q, wanted, i, x) => Meant(q, wanted', i, x)
    BY <1>3 DEF Meant
  <2>2. \A o, q, i, x : Asked(o, q, wanted, i, x) => Asked(o, q, wanted', i, x)
    BY <2>1 DEF Asked
  <2> QED BY <1>2, <1>3, <2>1, <2>2 DEF ClicksFollow
\* A click is queued.
<1>4. ASSUME NEW e \in Order, orders' = Append(orders, e), casts' = casts, wanted' = wanted,
             \/ e.op = "Select" /\ picked' = e.device
             \/ e.op # "Select" /\ picked' = picked /\ (e.op = "Play" => e.for = picked)
      PROVE  ClicksFollow'
  <2>1. /\ Len(orders') = Len(orders) + 1 /\ orders'[Len(orders) + 1] = e
        /\ \A i \in 1..Len(orders) : orders'[i] = orders[i]
    BY <1>1, <1>4
  <2>2. ASSUME NEW i \in 1..Len(orders) + 1, NEW x, Asked(orders, casts, wanted, i, x)
        PROVE  Asked(orders', casts, wanted, i, x)
    BY <1>1, <1>4, <2>2, FollowsOn DEF Asked
  <2>3. Asked(orders', casts, wanted, Len(orders) + 2, picked')
    <3>1. (Len(orders) + 2) - 1 = Len(orders) + 1 /\ (Len(orders) + 1) - 1 = Len(orders)
      BY <1>1
    <3>2. CASE e.op = "Select" /\ picked' = e.device
      BY <1>1, <1>4, <3>1, <3>2, FollowsOn DEF Asked
    <3>3. CASE e.op # "Select" /\ picked' = picked
      BY <1>1, <1>2, <1>4, <3>1, <3>3, FollowsOn DEF Asked
    <3> QED BY <1>4, <3>2, <3>3
  <2>4. ASSUME NEW i \in 1..Len(orders'), orders'[i].op = "Play"
        PROVE  Asked(orders', casts, wanted, i, orders'[i].for)
    <3>1. CASE i = Len(orders) + 1
      <4>1. orders'[i].for = picked /\ i \in 1..Len(orders) + 1
        BY <1>1, <1>4, <2>1, <2>4, <3>1
      <4> QED BY <1>2, <2>2, <3>1, <4>1
    <3>2. CASE i \in 1..Len(orders)
      <4>1. i \in 1..Len(orders) + 1 /\ orders'[i] = orders[i]
        BY <1>1, <2>1, <3>2
      <4> QED BY <1>2, <2>2, <2>4, <3>2, <4>1
    <3> QED BY <1>1, <2>1, <3>1, <3>2
  <2>5. Len(orders') + 1 = Len(orders) + 2
    BY <1>1, <2>1
  <2> QED BY <1>2, <1>4, <2>3, <2>4, <2>5 DEF ClicksFollow
<1>5. CASE HandleEvents \/ ForwardFact \/ CastLaunched \/ CastStatus \/ CastReconnect
           \/ \E ds \in SUBSET Devices : Publish(ds)
  BY <1>3, <1>5 DEF HandleEvents, ForwardFact, CastLaunched, Launched, CastStatus, CastReconnect,
                    Reconnect, Publish, Report, linkVars
<1>6. CASE CastLose \/ CastGiveUp
  BY <1>3, <1>6 DEF CastLose, Lose, CastGiveUp, GiveUp, Report
<1>7. CASE Play
  <2> DEFINE e == [op |-> "Play", for |-> picked]
  <2>1. e \in Order /\ e.op = "Play" /\ e.for = picked
    BY DEF Order, DashTypes
  <2>2. orders' = Append(orders, e) /\ casts' = casts /\ wanted' = wanted /\ picked' = picked
    BY <1>7 DEF Play, Dispatch, linkVars
  <2> HIDE DEF e
  <2>3. e.op # "Select"
    BY <2>1
  <2> QED BY <1>4, <2>1, <2>2, <2>3
<1>8. CASE RetryDiscovery
  <2> DEFINE e == [op |-> "Rescan"]
  <2>1. e \in Order /\ e.op # "Select" /\ e.op # "Play"
    BY DEF Order
  <2>2. orders' = Append(orders, e) /\ casts' = casts /\ wanted' = wanted /\ picked' = picked
    BY <1>8 DEF RetryDiscovery, Dispatch, linkVars
  <2> HIDE DEF e
  <2> QED BY <1>4, <2>1, <2>2
<1>9. ASSUME NEW d \in Devices, SelectReceiver(d) PROVE ClicksFollow'
  <2> DEFINE e == [op |-> "Select", device |-> d]
  <2>1. e \in Order /\ e.op = "Select" /\ e.device = d
    BY DEF Order
  <2>2. orders' = Append(orders, e) /\ casts' = casts /\ wanted' = wanted /\ picked' = d
    BY <1>9 DEF SelectReceiver, Dispatch, linkVars
  <2> HIDE DEF e
  <2> QED BY <1>4, <2>1, <2>2
<1>10. CASE HandleOrder
  <2> DEFINE o == Head(orders)
             n == Len(orders) - 1
  <2>1. orders # <<>> /\ orders' = Tail(orders) /\ wanted' = wanted /\ picked' = picked
    BY <1>10 DEF HandleOrder, linkVars
  <2>2. /\ n \in Nat /\ Len(orders) = n + 1 /\ Len(orders') = n /\ o = orders[1] /\ o \in Order
        /\ \A i \in 1..n : i + 1 \in 1..Len(orders) /\ orders'[i] = orders[i + 1]
    BY <1>1, <2>1
  <2> HIDE DEF n, o
  \* Whatever is asked for later.
  <2>3. ASSUME NEW i \in 1..n + 1, NEW x, Asked(orders, casts, wanted, i + 1, x),
               IF o.op = "Select" THEN x = o.device => Meant(casts', wanted, Len(casts') + 1, x)
               ELSE Meant(casts, wanted, Len(casts) + 1, x) =>
                        Meant(casts', wanted, Len(casts') + 1, x)
        PROVE  Asked(orders', casts', wanted, i, x)
    <3>1. Follows(orders, i + 1, x)
      BY <2>3 DEF Asked
    <3>2. /\ Follows(Tail(orders), i, x)
          /\ NoSelect(Tail(orders), 1, i - 1) =>
                 IF o.op = "Select" THEN x = o.device ELSE NoSelect(orders, 1, i)
      BY <1>1, <2>1, <2>2, <3>1, FollowsAway DEF o
    <3>3. (i + 1) - 1 = i
      BY <2>2
    <3> QED BY <2>1, <2>3, <3>2, <3>3 DEF Asked
  <2>4. ASSUME /\ \A i \in 1..Len(casts') :
                      casts'[i].op = "Load" => Meant(casts', wanted, i, casts'[i].for)
               /\ \A x : IF o.op = "Select"
                         THEN x = o.device => Meant(casts', wanted, Len(casts') + 1, x)
                         ELSE Meant(casts, wanted, Len(casts) + 1, x) =>
                                  Meant(casts', wanted, Len(casts') + 1, x)
        PROVE  ClicksFollow'
    <3>1. ASSUME NEW i \in 1..n, orders'[i].op = "Play"
          PROVE  Asked(orders', casts', wanted, i, orders'[i].for)
      <4>1. i \in 1..n + 1 /\ Asked(orders, casts, wanted, i + 1, orders[i + 1].for)
        BY <1>2, <2>2, <3>1
      <4> QED BY <2>2, <2>3, <2>4, <4>1
    <3>2. Asked(orders', casts', wanted, n + 1, picked)
      <4>1. n + 1 \in 1..n + 1 /\ Asked(orders, casts, wanted, (n + 1) + 1, picked)
        BY <1>2, <2>2
      <4> QED BY <2>3, <2>4, <4>1
    <3> QED BY <2>1, <2>2, <2>4, <3>1, <3>2 DEF ClicksFollow
  <2>5. ASSUME NEW e \in Cast, casts' = Append(casts, e),
               e.op = "Load" => Meant(casts, wanted, Len(casts) + 1, e.for)
        PROVE  /\ Len(casts') + 1 = Len(casts) + 2
               /\ \A i \in 1..Len(casts') :
                      casts'[i].op = "Load" => Meant(casts', wanted, i, casts'[i].for)
    <3>1. /\ Len(casts') = Len(casts) + 1 /\ casts'[Len(casts) + 1] = e
          /\ \A i \in 1..Len(casts) : casts'[i] = casts[i]
      BY <1>1, <2>5
    <3>2. ASSUME NEW i \in 1..Len(casts) + 1, casts'[i].op = "Load"
          PROVE  Meant(casts', wanted, i, casts'[i].for)
      <4>1. Meant(casts, wanted, i, casts'[i].for)
        <5>1. CASE i = Len(casts) + 1
          BY <2>5, <3>1, <3>2, <5>1
        <5>2. CASE i \in 1..Len(casts)
          BY <1>2, <3>1, <3>2, <5>2
        <5> QED BY <1>1, <5>1, <5>2
      <4> QED BY <1>1, <2>5, <4>1, MeantOn
    <3> QED BY <1>1, <3>1, <3>2
  <2>6. CASE o.op = "Select"
    <3>1. casts' = Append(casts, o) /\ o \in Cast
      BY <1>10, <2>2, <2>6 DEF HandleOrder, o, Order, Cast
    <3>2. \A x : x = o.device => Meant(casts', wanted, Len(casts) + 2, x)
      BY <1>1, <2>6, <3>1, MeantOn
    <3>3. o.op # "Load"
      BY <2>6
    <3> QED BY <2>4, <2>5, <2>6, <3>1, <3>2, <3>3
  <2>7. CASE o.op = "Play" /\ casts' # casts
    <3> DEFINE e == [op |-> "Load", for |-> o.for]
    <3>1. casts' = Append(casts, e) /\ e \in Cast /\ e.for = o.for /\ e.op = "Load"
      BY <1>10, <2>2, <2>7 DEF HandleOrder, o, Order, Cast
    <3>2. Meant(casts, wanted, Len(casts) + 1, e.for)
      <4>1. 1 \in 1..Len(orders) /\ NoSelect(orders, 1, 1 - 1)
        BY <2>2 DEF NoSelect
      <4> QED BY <1>2, <2>2, <2>7, <3>1, <4>1 DEF Asked
    <3> HIDE DEF e
    <3>3. ASSUME NEW x, Meant(casts, wanted, Len(casts) + 1, x)
          PROVE  Meant(casts', wanted, Len(casts) + 2, x)
      <4>1. e.op # "Select"
        BY <3>1
      <4> QED BY <1>1, <3>1, <3>3, <4>1, MeantOn
    <3>4. o.op # "Select"
      BY <2>7
    <3> QED BY <2>4, <2>5, <3>1, <3>2, <3>3, <3>4
  <2>8. CASE o.op # "Select" /\ casts' = casts
    BY <1>2, <2>4, <2>8
  <2> QED BY <1>10, <2>6, <2>7, <2>8 DEF HandleOrder, o
<1>11. CASE CastSelect \/ CastLoad
  <2> DEFINE n == Len(casts) - 1
  <2>1. casts # <<>> /\ casts' = Tail(casts) /\ orders' = orders /\ picked' = picked
    BY <1>11 DEF CastSelect, CastLoad, Report
  <2>2. /\ n \in Nat /\ Len(casts) = n + 1 /\ Len(casts') = n
        /\ \A i \in 1..n : i + 1 \in 1..Len(casts) /\ casts'[i] = casts[i + 1]
    BY <1>1, <2>1
  <2>3. IF Head(casts).op = "Select" THEN wanted' \in {Head(casts).device, None}
        ELSE wanted' = wanted
    BY <1>11 DEF CastSelect, CastLoad, Select, linkVars
  <2> HIDE DEF n
  <2>4. ASSUME NEW i \in 1..n + 1, NEW x, Meant(casts, wanted, i + 1, x)
        PROVE  Meant(casts', wanted', i, x)
    BY <1>1, <2>1, <2>2, <2>3, <2>4, MeantAway
  <2>5. ASSUME NEW i \in 1..n, casts'[i].op = "Load"
        PROVE  Meant(casts', wanted', i, casts'[i].for)
    <3>1. i \in 1..n + 1 /\ Meant(casts, wanted, i + 1, casts[i + 1].for)
      BY <1>2, <2>2, <2>5
    <3> QED BY <2>2, <2>4, <3>1
  <2>6. ASSUME NEW i, NEW x, Asked(orders, casts, wanted, i, x)
        PROVE  Asked(orders, casts', wanted', i, x)
    <3>1. n + 1 \in 1..n + 1 /\ Len(casts) + 1 = (n + 1) + 1 /\ Len(casts') + 1 = n + 1
      BY <2>2
    <3> QED BY <2>4, <2>6, <3>1 DEF Asked
  <2> QED BY <1>2, <2>1, <2>2, <2>5, <2>6 DEF ClicksFollow
<1> QED BY <1>5, <1>6, <1>7, <1>8, <1>9, <1>10, <1>11 DEF DashNext

-----------------------------------------------------------------------------
(* The picture of sessions, from the start and at every step.              *)

LEMMA DashStarts == DashInit => DashIInv
<1> SUFFICES ASSUME DashInit PROVE DashIInv
  OBVIOUS
<1>1. /\ facts = <<>> /\ orders = <<>> /\ casts = <<>> /\ table = {} /\ picked = None
      /\ wanted = None /\ link = None /\ ready = FALSE
      /\ gui.selected = None /\ gui.connection = None /\ gui.playing = FALSE /\ gui.listed = {}
      /\ gui \in Picture
  BY DEF DashInit, LinkInit, Picture
<1>2. inbox = <<>> \/ inbox = <<Failure>>
  BY DEF DashInit
<1>3. DashTypes
  <2>1. <<>> \in Seq(Fact) /\ <<>> \in Seq(Order) /\ <<>> \in Seq(Cast) /\ <<>> \in Seq(Told)
    OBVIOUS
  <2>2. <<Failure>> \in Seq(Told)
    <3>1. Failure \in Told
      BY Messages
    <3> QED BY <3>1
  <2> QED BY <1>1, <1>2, <2>1, <2>2 DEF DashTypes
<1>4. Linked
  BY <1>1 DEF Linked
<1>5. SessionShown
  <2>1. Leads(None, <<>>, None)
    BY LeadsNowhere
  <2>2. Leads(None, <<Failure>>, None)
    <3>1. Failure \in Told /\ Failure.kind # "MediaStatus" /\ Showing(None, Failure) = None
      BY Messages, Shows
    <3>2. <<>> \in Seq(Told) /\ Append(<<>>, Failure) = <<Failure>>
      OBVIOUS
    <3>3. Leads(None, Append(<<>>, Failure), Showing(None, Failure))
      BY <2>1, <3>1, <3>2, LeadsOn
    <3> QED BY <3>1, <3>2, <3>3
  <2> QED BY <1>1, <1>2, <2>1, <2>2 DEF SessionShown
<1>6. SelectionShown
  BY <1>1 DEF SelectionShown
<1>7. ListShown
  <2>1. Unlisted(inbox, 0)
    BY <1>2 DEF Unlisted, Failure
  <2> QED BY <1>1, <2>1 DEF ListShown
<1>8. ClicksFollow
  <2>1. Len(orders) = 0 /\ Len(casts) = 0
    BY <1>1
  <2>2. \A q, x : Follows(q, 1, x)
    BY DEF Follows
  <2>3. Meant(casts, wanted, 1, picked)
    BY <1>1, <2>2 DEF Meant
  <2>4. Asked(orders, casts, wanted, 1, picked)
    BY <2>1, <2>2, <2>3 DEF Asked
  <2> QED BY <2>1, <2>4 DEF ClicksFollow
<1> QED BY <1>3, <1>4, <1>5, <1>6, <1>7, <1>8 DEF DashIInv

LEMMA DashStep == DashIInv /\ DashNext => DashIInv'
BY DashTypesStep, SessionStep, SelectionStep, ListStep, ClicksStep DEF DashIInv

LEMMA DashStutter == DashIInv /\ UNCHANGED dashVars => DashIInv'
<1> SUFFICES ASSUME DashIInv, UNCHANGED dashVars PROVE DashIInv'
  OBVIOUS
<1>1. UNCHANGED <<wanted, link, ready, gui, orders, casts, facts, inbox, table, picked>>
  BY DEF dashVars, linkVars
<1>2. DashTypes' /\ Linked'
  BY <1>1 DEF DashIInv, DashTypes, Linked
<1>3. SessionShown' /\ ListShown'
  BY <1>1 DEF DashIInv, SessionShown, ListShown
<1>4. SelectionShown'
  BY <1>1 DEF DashIInv, SelectionShown, NoPick
<1>5. ClicksFollow'
  BY <1>1 DEF DashIInv, ClicksFollow
<1> QED BY <1>2, <1>3, <1>4, <1>5 DEF DashIInv

LEMMA DashShows == DashIInv => DashboardInv
<1> SUFFICES ASSUME DashIInv PROVE DashboardInv
  OBVIOUS
<1>1. /\ gui \in Picture /\ gui.connection \in Devices \cup {None}
      /\ link \in Devices \cup {None} /\ casts \in Seq(Cast)
  BY DEF DashIInv, DashTypes, Linked, Picture
<1>2. ViewAgrees
  <2>1. SUFFICES ASSUME facts = <<>>, inbox = <<>>
                 PROVE  /\ gui.connection = link /\ gui.listed = table
                        /\ link # None /\ orders = <<>> /\ casts = <<>> => gui.selected = link
    BY DEF ViewAgrees, Quiet
  <2>2. gui.connection = link
    BY <1>1, <2>1, LeadsNowhere DEF DashIInv, SessionShown
  <2>3. gui.listed = table
    BY <2>1 DEF DashIInv, ListShown
  <2>4. ASSUME link # None, orders = <<>>, casts = <<>> PROVE gui.selected = link
    <3>1. NoPick
      BY <2>4 DEF NoPick, NoSelect
    <3>2. ~Ends(<<>>, link)
      BY DEF Ends
    <3> QED BY <2>1, <2>4, <3>1, <3>2 DEF DashIInv, SelectionShown
  <2> QED BY <2>2, <2>3, <2>4
<1>3. PlaybackIsConnected
  BY DEF DashIInv, SessionShown, PlaybackIsConnected
<1>4. LoadReachesPick
  <2>1. SUFFICES ASSUME casts # <<>>, Head(casts).op = "Load", link # None
                 PROVE  Head(casts).for = link
    BY DEF LoadReachesPick
  <2>2. 1 \in 1..Len(casts) /\ Head(casts) = casts[1]
    BY <1>1, <2>1
  <2>3. Meant(casts, wanted, 1, Head(casts).for)
    BY <2>1, <2>2 DEF DashIInv, ClicksFollow
  <2>4. wanted = link
    BY <2>1 DEF DashIInv, Linked
  <2> QED BY <2>1, <2>3, <2>4 DEF Meant, NoSelect
<1> QED BY <1>2, <1>3, <1>4 DEF DashboardInv

-----------------------------------------------------------------------------
(* The volume.                                                             *)

LEMMA VolumeStarts == Init => TypeOK
<1> SUFFICES ASSUME Init PROVE TypeOK
  OBVIOUS
<1>1. /\ slider = 0 /\ dragging = FALSE /\ box = FALSE /\ pending = NoLevel /\ due = TRUE
      /\ commands = <<>> /\ mirror = [level |-> 0, muted |-> FALSE] /\ requests = <<>>
      /\ receiver \in Setting /\ statuses = <<receiver>> /\ events = <<>>
      /\ chosen = NoLevel /\ moves = 0 /\ mutes = 0 /\ remote = 0
  BY DEF Init
<1>2. mirror \in Setting
  BY <1>1, VolumeAssumption DEF Setting
<1>3. commands \in Seq(AppCommand) /\ requests \in Seq(Setting) /\ events \in Seq(Setting)
      /\ statuses \in Seq(Setting)
  BY <1>1
<1>4. moves \in 0..MaxMoves /\ mutes \in 0..MaxMutes /\ remote \in 0..MaxRemote
  BY <1>1, VolumeAssumption
<1> QED BY <1>1, <1>2, <1>3, <1>4, VolumeAssumption DEF TypeOK

\* What a frame shows and sends.
LEMMA Frames ==
    ASSUME TypeOK
    PROVE  /\ Shown \in Levels /\ Checked \in BOOLEAN
           /\ Held \in Levels \cup {NoLevel} /\ Sent \in Seq(AppCommand)
<1>1. events # <<>> => Last(events) \in Setting
  BY DEF TypeOK, Last
<1>2. Shown \in Levels
  BY <1>1 DEF Shown, TypeOK, Setting
<1>3. Checked \in BOOLEAN
  <2>1. box \in BOOLEAN
    BY DEF TypeOK
  <2>2. events # <<>> => Last(events).muted \in BOOLEAN
    BY <1>1 DEF Setting
  <2> QED BY <2>1, <2>2, Zenon DEF Checked
<1>4. Held \in Levels \cup {NoLevel}
  BY DEF Held, TypeOK
<1>5. Sent \in Seq(AppCommand)
  <2>1. Releases => [op |-> "SetVolume", level |-> pending] \in AppCommand
    BY DEF Releases, TypeOK, AppCommand
  <2>2. commands \in Seq(AppCommand)
    BY DEF TypeOK
  <2> QED BY <2>1, <2>2 DEF Sent
<1> QED BY <1>2, <1>3, <1>4, <1>5

LEMMA VolumeStep == TypeOK /\ [Next]_vars => TypeOK'
<1> SUFFICES ASSUME TypeOK, [Next]_vars PROVE TypeOK'
  OBVIOUS
<1>1. /\ slider \in Levels /\ pending \in Levels \cup {NoLevel} /\ chosen \in Levels \cup {NoLevel}
      /\ commands \in Seq(AppCommand) /\ mirror \in Setting /\ requests \in Seq(Setting)
      /\ receiver \in Setting /\ statuses \in Seq(Setting) /\ events \in Seq(Setting)
      /\ moves \in 0..MaxMoves /\ mutes \in 0..MaxMutes /\ remote \in 0..MaxRemote
      /\ MaxMoves \in Nat /\ MaxMutes \in Nat /\ MaxRemote \in Nat
  BY VolumeAssumption DEF TypeOK
<1>2. dragging \in BOOLEAN /\ box \in BOOLEAN /\ due \in BOOLEAN
  BY DEF TypeOK
<1>3. ASSUME Frame
      PROVE  /\ events' \in Seq(Setting) /\ due' \in BOOLEAN
             /\ UNCHANGED <<mirror, requests, receiver, statuses, remote>>
  BY <1>3 DEF Frame
<1>4. ASSUME NEW v \in Levels, Choose(v)
      PROVE  /\ slider' \in Levels /\ pending' \in Levels /\ chosen' \in Levels
             /\ moves' \in 0..MaxMoves
  BY <1>1, <1>4 DEF Choose, NoteChange
<1>5. ASSUME /\ slider' \in Levels /\ dragging' \in BOOLEAN /\ box' \in BOOLEAN /\ due' \in BOOLEAN
             /\ pending' \in Levels \cup {NoLevel} /\ chosen' \in Levels \cup {NoLevel}
             /\ commands' \in Seq(AppCommand) /\ events' \in Seq(Setting)
             /\ moves' \in 0..MaxMoves /\ mutes' \in 0..MaxMutes
             /\ UNCHANGED <<mirror, requests, receiver, statuses, remote>>
      PROVE  TypeOK'
  BY <1>1, <1>5 DEF TypeOK
<1>6. ASSUME NEW v \in Levels, DragSlider(v) PROVE TypeOK'
  <2>1. Frame /\ Choose(v) /\ dragging' = TRUE /\ box' = Checked /\ commands' = Sent /\ mutes' = mutes
    BY <1>6 DEF DragSlider
  <2> QED BY <1>1, <1>3, <1>4, <1>5, <2>1, Frames
<1>7. ASSUME NEW v \in Levels, ReleaseSlider(v) PROVE TypeOK'
  <2>1. /\ Frame /\ dragging' = FALSE /\ box' = Checked /\ commands' = Sent /\ mutes' = mutes
        /\ \/ Choose(v)
           \/ slider' = v /\ pending' = Held /\ chosen' = chosen /\ moves' = moves
    BY <1>7 DEF ReleaseSlider
  <2> QED BY <1>1, <1>3, <1>4, <1>5, <2>1, Frames
<1>8. ASSUME NEW v \in Levels, ClickSlider(v) PROVE TypeOK'
  <2>1. Frame /\ Choose(v) /\ box' = Checked /\ commands' = Sent
        /\ dragging' = dragging /\ mutes' = mutes
    BY <1>8 DEF ClickSlider
  <2> QED BY <1>1, <1>2, <1>3, <1>4, <1>5, <2>1, Frames
<1>9. CASE IdleFrame
  <2>1. /\ Frame /\ slider' = Shown /\ box' = Checked /\ commands' = Sent /\ pending' = Held
        /\ dragging' = dragging /\ chosen' = chosen /\ moves' = moves /\ mutes' = mutes
    BY <1>9 DEF IdleFrame
  <2> QED BY <1>1, <1>2, <1>3, <1>5, <2>1, Frames
<1>10. CASE ToggleMute
  <2>1. /\ Frame /\ slider' = Shown /\ box' = ~Checked /\ pending' = Held
        /\ dragging' = dragging /\ chosen' = chosen /\ moves' = moves
        /\ commands' = Append(Sent, [op |-> "Mute", muted |-> ~Checked])
        /\ mutes < MaxMutes /\ mutes' = mutes + 1
    BY <1>10 DEF ToggleMute
  <2>2. (~Checked) \in BOOLEAN
    BY Frames, Zenon
  <2>3. [op |-> "Mute", muted |-> ~Checked] \in AppCommand
    BY <2>2 DEF AppCommand
  <2>4. commands' \in Seq(AppCommand)
    BY <2>1, <2>3, Frames
  <2>5. mutes' \in 0..MaxMutes
    BY <1>1, <2>1
  <2> QED BY <1>1, <1>2, <1>3, <1>5, <2>1, <2>2, <2>4, <2>5, Frames
<1>11. CASE Elapse
  <2>1. UNCHANGED <<slider, dragging, box, pending, commands, mirror, requests, receiver, statuses,
                    events, chosen, moves, mutes, remote>> /\ due' = TRUE
    BY <1>11 DEF Elapse, bounds
  <2> QED BY <1>1, <1>2, <1>5, <2>1
<1>12. CASE HandleCommand
  <2>1. /\ commands # <<>> /\ commands' = Tail(commands)
        /\ mirror' = Remember(Head(commands)) /\ requests' = Append(requests, mirror')
        /\ UNCHANGED <<slider, dragging, box, pending, due, receiver, statuses, events, chosen,
                       moves, mutes, remote>>
    BY <1>12 DEF HandleCommand, dashboard, throttle, bounds
  <2>2. Head(commands) \in AppCommand /\ commands' \in Seq(AppCommand)
    BY <1>1, <2>1
  <2>3. mirror' \in Setting
    BY <1>1, <2>1, <2>2 DEF Remember, AppCommand, Setting
  <2>4. requests' \in Seq(Setting)
    BY <1>1, <2>1, <2>3
  <2> QED BY <1>1, <1>2, <2>1, <2>2, <2>3, <2>4 DEF TypeOK
<1>13. CASE ForwardStatus
  <2>1. /\ statuses # <<>> /\ statuses' = Tail(statuses) /\ mirror' = Head(statuses)
        /\ events' = Append(events, Head(statuses))
        /\ UNCHANGED <<slider, dragging, box, pending, due, commands, requests, receiver, chosen,
                       moves, mutes, remote>>
    BY <1>13 DEF ForwardStatus, MirrorStatus, dashboard, throttle, bounds
  <2>2. mirror' \in Setting /\ statuses' \in Seq(Setting) /\ events' \in Seq(Setting)
    BY <1>1, <2>1
  <2> QED BY <1>1, <1>2, <2>1, <2>2 DEF TypeOK
<1>14. CASE ReceiverSets
  <2>1. /\ requests # <<>> /\ requests' = Tail(requests) /\ receiver' = Head(requests)
        /\ statuses' = Append(statuses, receiver')
        /\ UNCHANGED <<slider, dragging, box, pending, due, commands, mirror, events, chosen,
                       moves, mutes, remote>>
    BY <1>14 DEF ReceiverSets, dashboard, throttle, bounds
  <2>2. receiver' \in Setting /\ requests' \in Seq(Setting)
    BY <1>1, <2>1
  <2>3. statuses' \in Seq(Setting)
    BY <1>1, <2>1, <2>2
  <2> QED BY <1>1, <1>2, <2>1, <2>2, <2>3 DEF TypeOK
<1>15. ASSUME NEW s \in Setting, OtherClient(s) PROVE TypeOK'
  <2>1. /\ remote < MaxRemote /\ remote' = remote + 1 /\ receiver' = s
        /\ statuses' = Append(statuses, s)
        /\ UNCHANGED <<slider, dragging, box, pending, due, commands, mirror, requests, events,
                       chosen, moves, mutes>>
    BY <1>15 DEF OtherClient, dashboard, throttle
  <2>2. statuses' \in Seq(Setting) /\ remote' \in 0..MaxRemote
    BY <1>1, <2>1
  <2> QED BY <1>1, <1>2, <2>1, <2>2 DEF TypeOK
<1>16. CASE UNCHANGED vars
  BY <1>1, <1>2, <1>16 DEF TypeOK, vars, dashboard, throttle, bounds
<1> QED BY <1>6, <1>7, <1>8, <1>9, <1>10, <1>11, <1>12, <1>13, <1>14, <1>15, <1>16 DEF Next

-----------------------------------------------------------------------------

\* However late the events are and whatever the user clicks meanwhile: once
\* all is delivered the window shows the session there is, the list there is
\* and the receiver in use; playback is shown only with a connection; and the
\* LOAD of a click on Play never goes to another receiver than the one picked
\* before it (apply_event, handle_command, handle_select_device).
THEOREM DesktopSafe == DesktopSpec => []DesktopInv
<1> DEFINE IInv == TypeOK /\ DashIInv
<1>1. DesktopInit => IInv
  BY VolumeStarts, DashStarts DEF DesktopInit
<1>2. IInv /\ [InVolume(Next) \/ InSessions(DashNext)]_desktopVars => IInv'
  <2> SUFFICES ASSUME TypeOK, DashIInv, [InVolume(Next) \/ InSessions(DashNext)]_desktopVars
               PROVE  TypeOK' /\ DashIInv'
    OBVIOUS
  <2>1. CASE InVolume(Next)
    BY <2>1, VolumeStep, DashStutter DEF InVolume
  <2>2. CASE InSessions(DashNext)
    BY <2>2, VolumeStep, DashStep DEF InSessions
  <2>3. CASE UNCHANGED desktopVars
    BY <2>3, VolumeStep, DashStutter DEF desktopVars
  <2> QED BY <2>1, <2>2, <2>3
<1>3. IInv => DesktopInv
  BY DashShows DEF DesktopInv
<1> QED BY <1>1, <1>2, <1>3, PTL DEF DesktopSpec

=============================================================================
