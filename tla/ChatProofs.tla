------------------------------ MODULE ChatProofs ----------------------------
(***************************************************************************)
(* Theorems about where players are and what they are shown, for every set *)
(* of proxies, players and servers, whatever their metadata, and every     *)
(* bound.                                                                  *)
(***************************************************************************)
EXTENDS Chat, TLAPS

-----------------------------------------------------------------------------
(* Routing.  A write is one of the things that are counted as upsets.       *)

Held == Values \cup {NoMeta}

Conns == [st : ConnStates, server : Servers \cup {NoServer}, target : Servers \cup {NoServer}]

RoutingInv ==
    /\ RoutingTypeOK
    /\ bucket \in [Subjects -> Held]
    /\ view \in [Proxies -> [Subjects -> Held]]
    /\ conn \in [Players -> Conns]
    /\ writes <= upsets

\* At first everyone is offline and every server up.
LEMMA InitRoutingInv == RoutingInit => RoutingInv
<1> SUFFICES ASSUME RoutingInit PROVE RoutingInv
  OBVIOUS
<1>1. /\ \A w \in Subjects : bucket[w] \in Profiles[w]
      /\ \A w \in Subjects : Profiles[w] \subseteq Held
  BY ProfilesAssumption DEF RoutingInit, Held
<1>2. bucket \in [Subjects -> Held]
  BY <1>1 DEF RoutingInit
<1>3. /\ view = [x \in Proxies |-> bucket] /\ running = Proxies /\ alive = Servers
      /\ conn = [p \in Players |-> Offline]
      /\ writes = 0 /\ upsets = 0 /\ proxyStarts = 0
  BY DEF RoutingInit
<1>4. RoutingTypeOK
  BY <1>1, <1>3, HomeAssumption, RoutingBoundsAssumption DEF RoutingTypeOK, ConnStates, Offline, At
<1>5. view \in [Proxies -> [Subjects -> Held]] /\ conn \in [Players -> Conns] /\ writes <= upsets
  BY <1>2, <1>3 DEF Conns, ConnStates, Offline, At
<1>6. QED
  BY <1>2, <1>4, <1>5 DEF RoutingInv

\* What a player's connection may become: it has a server exactly while the player
\* plays, the server is up, and the proxy runs.
Placed(c, p) ==
    /\ c \in Conns
    /\ c.server \in alive \cup {NoServer}
    /\ (c.server # NoServer) <=> c.st \in {"playing", "switching"}
    /\ c.st # "offline" => Home[p] \in running

\* A player who is offline is nowhere.
LEMMA OfflinePlaced == \A p \in Players : Placed(Offline, p)
BY DEF Placed, Conns, ConnStates, Offline, At

\* Every step of a player leaves it at a place.
LEMMA PlayersPlaced ==
    ASSUME RoutingInv, NEW p \in Players, PlayerStep(p)
    PROVE  /\ \E c : Placed(c, p) /\ Move(p, c)
           /\ UNCHANGED <<bucket, view, running, alive, writes, proxyStarts>>
           /\ UNCHANGED upsets \/ Upset
<1> USE DEF worldVars
<1>1. /\ Placed(conn[p], p) /\ alive \subseteq Servers /\ NoServer \notin Servers
      /\ conn[p] \in Conns
  BY SubjectsAssumption DEF RoutingInv, RoutingTypeOK, Placed
<1>2. CASE Login(p)
  <2>1. Placed(At("choosing", NoServer, NoServer), p)
    BY <1>1, <1>2 DEF Login, Placed, Conns, ConnStates, At
  <2>2. QED
    BY <1>2, <2>1 DEF Login
<1>3. ASSUME NEW s \in Servers, Choose(p, s) \/ HandleKicked(p, s)
      PROVE  \E c : Placed(c, p) /\ Move(p, c)
  <2>1. Placed(At("connecting", NoServer, s), p)
    BY <1>1, <1>3 DEF Choose, HandleKicked, Placed, Conns, ConnStates, At
  <2>2. QED
    BY <1>3, <2>1 DEF Choose, HandleKicked
<1>4. CASE NoServerToChoose(p) \/ NoServerToRedirect(p) \/ Quit(p)
  BY <1>4, OfflinePlaced DEF NoServerToChoose, NoServerToRedirect, Quit
<1>5. CASE Connects(p)
  <2>1. Placed(At("playing", conn[p].target, NoServer), p)
    BY <1>1, <1>5 DEF Connects, Placed, Conns, ConnStates, At
  <2>2. QED
    BY <1>5, <2>1 DEF Connects
<1>6. CASE ConnectFails(p)
  <2>1. Placed(At("kicked", NoServer, conn[p].target), p)
    BY <1>1, <1>6 DEF ConnectFails, Placed, Conns, ConnStates, At
  <2>2. QED
    BY <1>6, <2>1 DEF ConnectFails
<1>7. CASE SwitchFails(p)
  <2>1. Placed(At("playing", conn[p].server, NoServer), p)
    BY <1>1, <1>7 DEF SwitchFails, Placed, Conns, ConnStates, At
  <2>2. QED
    BY <1>7, <2>1 DEF SwitchFails
<1>8. CASE ServerKicks(p)
  <2>1. Placed(At("kicked", NoServer, conn[p].server), p)
    BY <1>1, <1>8 DEF ServerKicks, Placed, Conns, ConnStates, At
  <2>2. QED
    BY <1>8, <2>1 DEF ServerKicks
<1>9. ASSUME NEW q \in Players, Join(p, q) PROVE \E c : Placed(c, p) /\ Move(p, c)
  <2>1. PICK s \in Servers : Move(p, At("switching", conn[p].server, s))
    BY <1>9 DEF Join
  <2>2. Placed(At("switching", conn[p].server, s), p)
    BY <1>1, <1>9 DEF Join, Placed, Conns, ConnStates, At
  <2>3. QED
    BY <2>1, <2>2
<1>10. /\ UNCHANGED <<bucket, view, running, alive, writes, proxyStarts>>
       /\ UNCHANGED upsets \/ Upset
  BY DEF PlayerStep, Routed, Login, Choose, HandleKicked, NoServerToChoose, NoServerToRedirect, Connects,
         ConnectFails, SwitchFails, ServerKicks, Quit, Join
<1>11. QED
  BY <1>2, <1>3, <1>4, <1>5, <1>6, <1>7, <1>8, <1>9, <1>10 DEF PlayerStep, Routed

\* Nobody is left at a server that died or at a proxy that stopped.
LEMMA NextRoutingInv == RoutingInv /\ [RoutingNext]_routingVars => RoutingInv'
<1> SUFFICES ASSUME RoutingInv, [RoutingNext]_routingVars PROVE RoutingInv'
  OBVIOUS
<1> USE DEF worldVars
<1>1. /\ bucket \in [Subjects -> Held] /\ \A w \in Subjects : bucket[w] \in Profiles[w]
      /\ view \in [Proxies -> [Subjects -> Held]]
      /\ \A x \in Proxies, w \in Subjects : view[x][w] \in Profiles[w] \cup {NoMeta}
      /\ conn \in [Players -> Conns] /\ \A p \in Players : Placed(conn[p], p)
      /\ running \subseteq Proxies /\ alive \subseteq Servers
  BY DEF RoutingInv, RoutingTypeOK, Placed
<1>2. /\ writes \in 0..MaxUpsets /\ upsets \in 0..MaxUpsets /\ writes <= upsets
      /\ proxyStarts \in 0..MaxProxyStarts /\ MaxUpsets \in Nat /\ MaxProxyStarts \in Nat
  BY RoutingBoundsAssumption DEF RoutingInv, RoutingTypeOK
<1>3. Upset => upsets' = upsets + 1 /\ upsets' \in 0..MaxUpsets
  BY <1>2 DEF Upset
<1>4. ASSUME bucket' \in [Subjects -> Held], \A w \in Subjects : bucket'[w] \in Profiles[w],
             view' \in [Proxies -> [Subjects -> Held]],
             \A x \in Proxies, w \in Subjects : view'[x][w] \in Profiles[w] \cup {NoMeta},
             conn' \in [Players -> Conns], \A p \in Players : Placed(conn[p], p)',
             running' \subseteq Proxies, alive' \subseteq Servers,
             writes' \in 0..MaxUpsets, upsets' \in 0..MaxUpsets, writes' <= upsets',
             proxyStarts' \in 0..MaxProxyStarts
      PROVE  RoutingInv'
  BY <1>4 DEF RoutingInv, RoutingTypeOK, Placed, Conns
<1>5. ASSUME NEW p \in Players, PlayerStep(p) PROVE RoutingInv'
  <2>1. PICK c : Placed(c, p) /\ Move(p, c)
    BY <1>5, PlayersPlaced
  <2>2. /\ UNCHANGED <<bucket, view, running, alive, writes, proxyStarts>>
        /\ UNCHANGED upsets \/ Upset
    BY <1>5, PlayersPlaced
  <2>3. conn' \in [Players -> Conns] /\ conn'[p] = c /\ \A q \in Players \ {p} : conn'[q] = conn[q]
    BY <1>1, <2>1 DEF Move, Placed
  <2>4. \A q \in Players : Placed(conn'[q], q)
    BY <1>1, <2>1, <2>3
  <2>5. \A q \in Players : Placed(conn[q], q)'
    BY <2>2, <2>4 DEF Placed
  <2>6. upsets' \in 0..MaxUpsets /\ writes' <= upsets'
    BY <1>2, <1>3, <2>2
  <2>7. QED
    BY <1>1, <1>2, <1>4, <2>2, <2>3, <2>5, <2>6
<1>6. ASSUME NEW s \in Servers, ServerDies(s) PROVE RoutingInv'
  <2>1. /\ alive' = alive \ {s} /\ Upset
        /\ conn' = [p \in Players |-> IF conn[p].server = s THEN At("kicked", NoServer, s) ELSE conn[p]]
        /\ UNCHANGED <<bucket, view, running, writes, proxyStarts>>
    BY <1>6 DEF ServerDies
  <2>2. At("kicked", NoServer, s) \in Conns /\ s # NoServer
    BY SubjectsAssumption DEF Conns, ConnStates, At
  <2>3. conn' \in [Players -> Conns]
    BY <1>1, <2>1, <2>2
  <2>4. ASSUME NEW p \in Players PROVE Placed(conn[p], p)'
    <3>1. Placed(conn[p], p)
      BY <1>1
    <3>2. CASE conn[p].server = s
      <4>1. conn'[p] = At("kicked", NoServer, s) /\ conn[p].st # "offline"
        BY <2>1, <2>2, <3>1, <3>2 DEF Placed
      <4>2. QED
        BY <2>1, <2>2, <3>1, <4>1 DEF Placed, At
    <3>3. CASE conn[p].server # s
      BY <2>1, <3>1, <3>3 DEF Placed
    <3>4. QED
      BY <3>2, <3>3
  <2>5. upsets' \in 0..MaxUpsets /\ writes' <= upsets'
    BY <1>2, <1>3, <2>1
  <2>6. QED
    BY <1>1, <1>2, <1>4, <2>1, <2>3, <2>4, <2>5
<1>7. ASSUME NEW s \in Servers, ServerStarts(s) PROVE RoutingInv'
  <2>1. /\ alive' = alive \cup {s} /\ Upset
        /\ UNCHANGED <<bucket, view, running, conn, writes, proxyStarts>>
    BY <1>7 DEF ServerStarts
  <2>2. \A p \in Players : Placed(conn[p], p)'
    BY <1>1, <2>1 DEF Placed
  <2>3. upsets' \in 0..MaxUpsets /\ writes' <= upsets'
    BY <1>2, <1>3, <2>1
  <2>4. QED
    BY <1>1, <1>2, <1>4, <2>1, <2>2, <2>3
<1>8. ASSUME NEW w \in Subjects, NEW m \in Profiles[w], Write(w, m) PROVE RoutingInv'
  <2>1. /\ bucket' = [bucket EXCEPT ![w] = m] /\ writes' = writes + 1 /\ Upset
        /\ UNCHANGED <<view, running, alive, conn, proxyStarts>>
    BY <1>8 DEF Write
  <2>2. m \in Held
    BY ProfilesAssumption DEF Held
  <2>3. \A p \in Players : Placed(conn[p], p)'
    BY <1>1, <2>1 DEF Placed
  <2>4. upsets' \in 0..MaxUpsets /\ writes' <= upsets' /\ writes' \in 0..MaxUpsets
    BY <1>2, <1>3, <2>1
  <2>5. bucket' \in [Subjects -> Held] /\ \A v \in Subjects : bucket'[v] \in Profiles[v]
    BY <1>1, <2>1, <2>2
  <2>6. QED
    BY <1>1, <1>2, <1>4, <2>1, <2>3, <2>4, <2>5
<1>9. ASSUME NEW x \in Proxies, NEW w \in Subjects, Refresh(x, w) PROVE RoutingInv'
  <2>1. /\ view' = [view EXCEPT ![x][w] = bucket[w]]
        /\ UNCHANGED <<bucket, running, alive, writes, upsets, proxyStarts, conn>>
    BY <1>9 DEF Refresh
  <2>2. /\ view' \in [Proxies -> [Subjects -> Held]]
        /\ \A y \in Proxies, v \in Subjects : view'[y][v] \in Profiles[v] \cup {NoMeta}
    BY <1>1, <2>1
  <2>3. \A p \in Players : Placed(conn[p], p)'
    BY <1>1, <2>1 DEF Placed
  <2>4. QED
    BY <1>1, <1>2, <1>4, <2>1, <2>2, <2>3
<1>10. ASSUME NEW x \in Proxies, ProxyStops(x) PROVE RoutingInv'
  <2>1. /\ running' = running \ {x} /\ Upset
        /\ view' = [view EXCEPT ![x] = [w \in Subjects |-> NoMeta]]
        /\ conn' = [p \in Players |-> IF p \in ClientsOf[x] THEN Offline ELSE conn[p]]
        /\ UNCHANGED <<bucket, alive, writes, proxyStarts>>
    BY <1>10 DEF ProxyStops
  <2>2. /\ view' \in [Proxies -> [Subjects -> Held]]
        /\ \A y \in Proxies, v \in Subjects : view'[y][v] \in Profiles[v] \cup {NoMeta}
    BY <1>1, <2>1 DEF Held
  <2>3. \A p \in Players : p \notin ClientsOf[x] => Home[p] # x
    BY DEF ClientsOf
  <2>4. Offline \in Conns /\ \A p \in Players : Placed(Offline, p)
    BY OfflinePlaced DEF Placed, Offline, At, Conns, ConnStates
  <2>5. conn' \in [Players -> Conns]
    BY <1>1, <2>1, <2>4
  <2>6. ASSUME NEW p \in Players PROVE Placed(conn[p], p)'
    <3>1. CASE p \in ClientsOf[x]
      <4>1. conn'[p] = Offline /\ Offline.st = "offline" /\ Offline.server = NoServer
        BY <2>1, <3>1 DEF Offline, At
      <4>2. QED
        BY <2>4, <4>1 DEF Placed
    <3>2. CASE p \notin ClientsOf[x]
      BY <1>1, <2>1, <2>3, <3>2 DEF Placed
    <3>3. QED
      BY <3>1, <3>2
  <2>7. upsets' \in 0..MaxUpsets /\ writes' <= upsets'
    BY <1>2, <1>3, <2>1
  <2>8. QED
    BY <1>1, <1>2, <1>4, <2>1, <2>2, <2>5, <2>6, <2>7
<1>11. ASSUME NEW x \in Proxies, ProxyStarts(x) PROVE RoutingInv'
  <2>1. /\ running' = running \cup {x} /\ proxyStarts' \in 0..MaxProxyStarts
        /\ UNCHANGED <<bucket, view, alive, conn, writes, upsets>>
    BY <1>2, <1>11 DEF ProxyStarts
  <2>2. \A p \in Players : Placed(conn[p], p)'
    BY <1>1, <2>1 DEF Placed
  <2>3. QED
    BY <1>1, <1>2, <1>4, <2>1, <2>2
<1>12. CASE UNCHANGED routingVars
  <2>1. \A p \in Players : Placed(conn[p], p)'
    BY <1>1, <1>12 DEF routingVars, Placed
  <2>2. QED
    BY <1>1, <1>2, <1>4, <1>12, <2>1 DEF routingVars
<1>13. QED
  BY <1>5, <1>6, <1>7, <1>8, <1>9, <1>10, <1>11, <1>12 DEF RoutingNext, WorldStep, ProxyStep

-----------------------------------------------------------------------------
(* What waits at a proxy and what its players were shown.                   *)

Shows == [id : Nat, sender : Players]

\* Messages of proxy y wait at x in the order they were written, and at a proxy that
\* does not run none waits.
Waiting(x, y) ==
    /\ x \notin running => inbox[x][y] = <<>>
    /\ \A i \in DOMAIN inbox[x][y] :
          /\ inbox[x][y][i].id <= messages
          /\ inbox[x][y][i].writes <= writes
          /\ Home[inbox[x][y][i].sender] = y
    /\ \A i, j \in DOMAIN inbox[x][y] : i < j => inbox[x][y][i].id < inbox[x][y][j].id

\* A player was shown the messages of each proxy in the order they were written, and
\* before those that wait.
Followed(p) ==
    /\ \A i \in DOMAIN heard[p] : heard[p][i].id \in 1..messages
    /\ \A i, j \in DOMAIN heard[p] :
          i < j /\ Home[heard[p][i].sender] = Home[heard[p][j].sender] => heard[p][i].id < heard[p][j].id
    /\ \A i \in DOMAIN heard[p], y \in Proxies :
          Home[heard[p][i].sender] = y =>
              \A j \in DOMAIN inbox[Home[p]][y] : heard[p][i].id < inbox[Home[p]][y][j].id

ChatTypes ==
    /\ inbox \in [Proxies -> [Proxies -> Seq(Messages)]]
    /\ heard \in [Players -> Seq(Shows)]
    /\ messages \in 0..MaxMessages

ChatInv ==
    /\ ChatTypes
    /\ \A x, y \in Proxies : Waiting(x, y)
    /\ \A p \in Players : Followed(p)

\* At first nothing was written.
LEMMA InitChatInv == ChatInit => ChatInv
BY MessagesAssumption DEF ChatInit, ChatInv, ChatTypes, Waiting, Followed

\* What is left of a sequence when its head is taken.
LEMMA TailOf ==
    ASSUME NEW T, NEW s \in Seq(T), s # <<>>
    PROVE  /\ Tail(s) \in Seq(T) /\ Head(s) \in T /\ Head(s) = s[1] /\ 1 \in DOMAIN s
           /\ Tail(s) # s
           /\ \A i \in DOMAIN Tail(s) : /\ i \in Nat \ {0} /\ i + 1 \in DOMAIN s
                                        /\ Tail(s)[i] = s[i + 1]
OBVIOUS

\* What a sequence is with an element more.
LEMMA AppendOf ==
    ASSUME NEW T, NEW s \in Seq(T), NEW e \in T
    PROVE  /\ Append(s, e) \in Seq(T) /\ Append(s, e) # s
           /\ \A i \in DOMAIN Append(s, e) : /\ i \in Nat
                                             /\ \/ i \in DOMAIN s /\ Append(s, e)[i] = s[i]
                                                \/ i = Len(s) + 1 /\ Append(s, e)[i] = e
           /\ \A i \in DOMAIN s : i \in 1..Len(s)
OBVIOUS

\* The layers of a message are layers.
LEMMA TunedLayers ==
    ASSUME RoutingInv, NEW p \in Players, NEW s \in Servers \cup {NoServer}, NEW key \in Keys
    PROVE  Tuned(p, s, key) \subseteq LayerNames
<1>1. ASSUME NEW w \in SpeaksFor(p, s, key), bucket[w] # NoMeta PROVE Named[bucket[w]][key] \subseteq LayerNames
  <2>1. bucket[w] \in Values
    BY <1>1 DEF SpeaksFor, RoutingInv, Held, Subjects
  <2>2. QED
    BY <2>1 DEF Named
<1>2. QED
  BY <1>1 DEF Tuned

\* The message that a player writes.
LEMMA Published ==
    ASSUME RoutingInv, ChatInv, NEW p \in Players, Publish(p)
    PROVE  \E m \in Messages :
              /\ m.id = messages + 1 /\ m.sender = p /\ m.writes = writes
              /\ m.server \in Servers /\ m.layers = Tuned(p, m.server, PubLayersKey)
              /\ messages' = messages + 1 /\ messages' \in 0..MaxMessages
              /\ \A x, y \in Proxies :
                    inbox'[x][y] = IF x \in running /\ y = Home[p] THEN Append(inbox[x][y], m) ELSE inbox[x][y]
              /\ inbox' \in [Proxies -> [Proxies -> Seq(Messages)]]
              /\ UNCHANGED <<routingVars, heard>>
<1> DEFINE m == [id |-> messages', sender |-> p, server |-> conn[p].server,
                 layers |-> Tuned(p, conn[p].server, PubLayersKey), writes |-> writes]
<1>1. /\ messages' = messages + 1 /\ messages' \in 1..MaxMessages
      /\ UNCHANGED <<routingVars, heard>>
      /\ inbox' = [x \in Proxies |->
              IF x \in running THEN [inbox[x] EXCEPT ![Home[p]] = Append(@, m)] ELSE inbox[x]]
  BY MessagesAssumption DEF Publish, ChatInv, ChatTypes
<1>2. conn[p].server \in Servers
  BY DEF Publish, RoutingInv, RoutingTypeOK
<1>3. Tuned(p, conn[p].server, PubLayersKey) \subseteq LayerNames
  BY <1>2, TunedLayers DEF Keys
<1>4. m \in Messages
  BY <1>1, <1>2, <1>3 DEF Messages, RoutingInv, RoutingTypeOK
<1>5. /\ m.id = messages + 1 /\ m.sender = p /\ m.writes = writes /\ m.server = conn[p].server
      /\ m.layers = Tuned(p, m.server, PubLayersKey)
  BY <1>1
<1> HIDE DEF m
<1>6. inbox \in [Proxies -> [Proxies -> Seq(Messages)]] /\ Home[p] \in Proxies
  BY HomeAssumption DEF ChatInv, ChatTypes
<1>7. \A x, y \in Proxies : Append(inbox[x][y], m) \in Seq(Messages)
  BY <1>4, <1>6, AppendOf
<1>8. /\ \A x, y \in Proxies :
            inbox'[x][y] = IF x \in running /\ y = Home[p] THEN Append(inbox[x][y], m) ELSE inbox[x][y]
      /\ inbox' \in [Proxies -> [Proxies -> Seq(Messages)]]
  BY <1>1, <1>6, <1>7
<1>9. messages' \in 0..MaxMessages
  BY <1>1
<1>10. QED
  BY <1>1, <1>2, <1>4, <1>5, <1>8, <1>9

\* What is left when the first message is taken.
LEMMA TakenFrom ==
    ASSUME ChatInv, NEW x \in Proxies, NEW y \in Proxies, inbox[x][y] # <<>>, Taken(x, y)
    PROVE  /\ inbox' \in [Proxies -> [Proxies -> Seq(Messages)]]
           /\ inbox'[x][y] = Tail(inbox[x][y]) /\ inbox'[x][y] # inbox[x][y]
           /\ \A v, w \in Proxies : v # x \/ w # y => inbox'[v][w] = inbox[v][w]
           /\ Head(inbox[x][y]) \in Messages /\ Head(inbox[x][y]) = inbox[x][y][1]
           /\ 1 \in DOMAIN inbox[x][y]
           /\ \A v, w \in Proxies : \A i \in DOMAIN inbox'[v][w] :
                 \/ i \in DOMAIN inbox[v][w] /\ inbox'[v][w] = inbox[v][w]
                 \/ /\ v = x /\ w = y /\ i \in Nat \ {0} /\ i + 1 \in DOMAIN inbox[v][w]
                    /\ inbox'[v][w][i] = inbox[v][w][i + 1]
<1>1. inbox \in [Proxies -> [Proxies -> Seq(Messages)]] /\ inbox[x][y] \in Seq(Messages)
  BY DEF ChatInv, ChatTypes
<1>2. inbox' = [inbox EXCEPT ![x][y] = Tail(inbox[x][y])] /\ Tail(inbox[x][y]) \in Seq(Messages)
  BY <1>1, TailOf DEF Taken
<1>3. /\ inbox' \in [Proxies -> [Proxies -> Seq(Messages)]]
      /\ inbox'[x][y] = Tail(inbox[x][y])
      /\ \A v, w \in Proxies : v # x \/ w # y => inbox'[v][w] = inbox[v][w]
  BY <1>1, <1>2
<1>4. \A s \in Seq(Messages) : s # <<>> =>
         /\ Head(s) \in Messages /\ Head(s) = s[1] /\ 1 \in DOMAIN s /\ Tail(s) # s
         /\ \A i \in DOMAIN Tail(s) : i \in Nat \ {0} /\ i + 1 \in DOMAIN s /\ Tail(s)[i] = s[i + 1]
  BY TailOf
<1>5. PICK s \in Seq(Messages) :
         /\ s = inbox[x][y]
         /\ Head(s) \in Messages /\ Head(s) = s[1] /\ 1 \in DOMAIN s /\ Tail(s) # s
         /\ \A i \in DOMAIN Tail(s) : i \in Nat \ {0} /\ i + 1 \in DOMAIN s /\ Tail(s)[i] = s[i + 1]
  BY <1>1, <1>4, Zenon
<1>6. inbox'[x][y] = Tail(s) /\ inbox[x][y] = s
  BY <1>3, <1>5
<1>7. ASSUME NEW v \in Proxies, NEW w \in Proxies, NEW i \in DOMAIN inbox'[v][w]
      PROVE  \/ i \in DOMAIN inbox[v][w] /\ inbox'[v][w] = inbox[v][w]
             \/ /\ v = x /\ w = y /\ i \in Nat \ {0} /\ i + 1 \in DOMAIN inbox[v][w]
                /\ inbox'[v][w][i] = inbox[v][w][i + 1]
  <2>1. CASE v = x /\ w = y
    BY <1>5, <1>6, <1>7, <2>1
  <2>2. CASE v # x \/ w # y
    BY <1>3, <1>7, <2>2
  <2>3. QED
    BY <2>1, <2>2
<1>8. QED
  BY <1>3, <1>5, <1>6, <1>7

\* Routing writes no message: those that wait at a proxy that stops are gone, and a
\* session that ends forgets.
LEMMA MovedAround ==
    ASSUME ChatInv, Moves
    PROVE  /\ inbox' \in [Proxies -> [Proxies -> Seq(Messages)]]
           /\ heard' \in [Players -> Seq(Shows)] /\ UNCHANGED messages
           /\ \A x, y \in Proxies : /\ inbox'[x][y] = inbox[x][y] \/ inbox'[x][y] = <<>>
                                    /\ x \notin running' => inbox'[x][y] = <<>>
                                    /\ x \in running' => inbox'[x][y] = inbox[x][y]
           /\ \A p \in Players : heard'[p] = heard[p] \/ heard'[p] = <<>>
<1>1. /\ inbox \in [Proxies -> [Proxies -> Seq(Messages)]] /\ heard \in [Players -> Seq(Shows)]
      /\ heard' = [p \in Players |-> IF conn'[p].st = "offline" THEN <<>> ELSE heard[p]]
      /\ inbox' = [x \in Proxies |-> IF x \in running' THEN inbox[x] ELSE [y \in Proxies |-> <<>>]]
      /\ UNCHANGED messages
  BY DEF Moves, Around, ChatInv, ChatTypes
<1>2. [y \in Proxies |-> <<>>] \in [Proxies -> Seq(Messages)] /\ <<>> \in Seq(Shows)
  OBVIOUS
<1>3. QED
  BY <1>1, <1>2

\* Routing counts what it writes, and a proxy stops only by an upset.
LEMMA WritesCounted ==
    ASSUME RoutingInv, [RoutingNext]_routingVars
    PROVE  /\ UNCHANGED <<bucket, writes>> \/ writes' = writes + 1
           /\ upsets' = upsets => running \subseteq running'
<1> USE DEF worldVars
<1>1. writes \in Nat /\ upsets \in Nat
  BY RoutingBoundsAssumption DEF RoutingInv, RoutingTypeOK
<1>2. ASSUME NEW p \in Players, PlayerStep(p) PROVE UNCHANGED <<bucket, writes, running>>
  BY <1>2, PlayersPlaced
<1>3. CASE WorldStep
  BY <1>3 DEF WorldStep, ServerDies, ServerStarts, Write
<1>4. ASSUME NEW x \in Proxies, ProxyStep(x)
      PROVE  UNCHANGED <<bucket, writes>> /\ (upsets' = upsets => running \subseteq running')
  BY <1>1, <1>4 DEF ProxyStep, ProxyStops, ProxyStarts, Refresh, Upset
<1>5. QED
  BY <1>2, <1>3, <1>4 DEF RoutingNext, routingVars

\* What waits stays in order when the first message is taken.
LEMMA TakenKeepsWaiting ==
    ASSUME ChatInv, NEW x \in Proxies, NEW y \in Proxies, inbox[x][y] # <<>>, Taken(x, y),
           UNCHANGED <<running, writes, messages>>, NEW v \in Proxies, NEW w \in Proxies
    PROVE  Waiting(v, w)'
<1>1. Waiting(v, w)
  BY DEF ChatInv
<1>2. CASE inbox'[v][w] = inbox[v][w]
  BY <1>1, <1>2 DEF Waiting
<1>3. CASE v = x /\ w = y
  <2>1. inbox'[v][w] = Tail(inbox[v][w]) /\ v \in running
    BY <1>1, <1>3, TakenFrom DEF Waiting
  <2>2. \A i \in DOMAIN inbox'[v][w] : /\ i \in Nat \ {0} /\ i + 1 \in DOMAIN inbox[v][w]
                                       /\ inbox'[v][w][i] = inbox[v][w][i + 1]
    BY <1>3, TakenFrom
  <2>3. \A i, j \in DOMAIN inbox'[v][w] : i < j => i + 1 < j + 1
    BY <2>2
  <2>4. QED
    BY <1>1, <2>1, <2>2, <2>3 DEF Waiting
<1>4. QED
  BY <1>2, <1>3, TakenFrom

\* A message in the inbox of a player's proxy is newer than those the player was shown.
LEMMA TakenFollows ==
    ASSUME ChatInv, NEW x \in Proxies, NEW y \in Proxies, inbox[x][y] # <<>>, Taken(x, y),
           UNCHANGED messages, NEW p \in Players,
           \/ heard'[p] = heard[p]
           \/ /\ Home[p] = x
              /\ heard'[p] = Append(heard[p], [id |-> Head(inbox[x][y]).id, sender |-> Head(inbox[x][y]).sender])
    PROVE  Followed(p)'
<1> DEFINE m == Head(inbox[x][y])
           e == [id |-> m.id, sender |-> m.sender]
<1>1. /\ Followed(p) /\ Waiting(x, y) /\ heard[p] \in Seq(Shows) /\ messages \in Nat
      /\ MaxMessages \in Nat
  BY MessagesAssumption DEF ChatInv, ChatTypes
<1>2. /\ m \in Messages /\ m = inbox[x][y][1] /\ 1 \in DOMAIN inbox[x][y]
      /\ \A v, w \in Proxies : \A i \in DOMAIN inbox'[v][w] :
            \/ i \in DOMAIN inbox[v][w] /\ inbox'[v][w] = inbox[v][w]
            \/ /\ v = x /\ w = y /\ i \in Nat \ {0} /\ i + 1 \in DOMAIN inbox[v][w]
               /\ inbox'[v][w][i] = inbox[v][w][i + 1]
  BY TakenFrom
<1>3. /\ e \in Shows /\ e.id = m.id /\ e.sender = m.sender /\ e.id \in 1..messages
      /\ Home[e.sender] = y /\ Home[p] \in Proxies
  BY <1>1, <1>2, HomeAssumption DEF Waiting, Messages, Shows
<1>4. \A i \in DOMAIN inbox[x][y] : i > 1 => inbox[x][y][i].id > e.id
  <2>1. \A k \in Messages : k.id \in Nat
    BY DEF Messages
  <2>2. inbox[x][y] \in Seq(Messages)
    BY DEF ChatInv, ChatTypes
  <2>3. QED
    BY <1>1, <1>2, <1>3, <2>1, <2>2 DEF Waiting
<1> HIDE DEF m, e
<1>5. \A i \in DOMAIN heard[p], w \in Proxies :
         Home[heard[p][i].sender] = w =>
             \A k \in DOMAIN inbox[Home[p]][w] : heard[p][i].id < inbox[Home[p]][w][k].id
  BY <1>1 DEF Followed
<1>6. CASE heard'[p] = heard[p]
  <2>1. ASSUME NEW i \in DOMAIN heard[p], NEW w \in Proxies, Home[heard[p][i].sender] = w,
               NEW j \in DOMAIN inbox'[Home[p]][w]
        PROVE  heard[p][i].id < inbox'[Home[p]][w][j].id
    <3>1. \E k \in DOMAIN inbox[Home[p]][w] : inbox'[Home[p]][w][j] = inbox[Home[p]][w][k]
      BY <1>2, <1>3, <2>1
    <3>2. QED
      BY <1>5, <2>1, <3>1
  <2>2. QED
    BY <1>1, <1>6, <2>1 DEF Followed
<1>7. CASE Home[p] = x /\ heard'[p] = Append(heard[p], e)
  <2>1. \A i \in DOMAIN heard'[p] : /\ i \in Nat
                                    /\ \/ i \in DOMAIN heard[p] /\ heard'[p][i] = heard[p][i]
                                       \/ i = Len(heard[p]) + 1 /\ heard'[p][i] = e
    BY <1>1, <1>3, <1>7, AppendOf
  <2>2. \A i \in DOMAIN heard[p] : i \in 1..Len(heard[p]) /\ heard[p][i] \in Shows
    BY <1>1
  <2>3. ASSUME NEW i \in DOMAIN heard[p], Home[heard[p][i].sender] = y PROVE heard[p][i].id < e.id
    <3>1. \A k \in DOMAIN inbox[x][y] : heard[p][i].id < inbox[x][y][k].id
      BY <1>5, <1>7, <2>3
    <3>2. heard[p][i].id < inbox[x][y][1].id
      BY <1>2, <3>1
    <3>3. QED
      BY <1>2, <1>3, <3>2
  <2>4. ASSUME NEW i \in DOMAIN heard'[p], NEW j \in DOMAIN heard'[p], i < j,
               Home[heard'[p][i].sender] = Home[heard'[p][j].sender]
        PROVE  heard'[p][i].id < heard'[p][j].id
    <3>1. i \in DOMAIN heard[p] /\ heard'[p][i] = heard[p][i]
      BY <1>1, <2>1, <2>2, <2>4
    <3>2. CASE j \in DOMAIN heard[p] /\ heard'[p][j] = heard[p][j]
      BY <1>1, <2>4, <3>1, <3>2 DEF Followed
    <3>3. CASE heard'[p][j] = e
      BY <1>3, <2>3, <2>4, <3>1, <3>3
    <3>4. QED
      BY <2>1, <3>2, <3>3
  <2>5. ASSUME NEW i \in DOMAIN heard'[p], NEW w \in Proxies, Home[heard'[p][i].sender] = w,
               NEW j \in DOMAIN inbox'[Home[p]][w]
        PROVE  heard'[p][i].id < inbox'[Home[p]][w][j].id
    <3>1. PICK k \in DOMAIN inbox[x][w] : /\ inbox'[x][w][j] = inbox[x][w][k]
                                          /\ w = y => k > 1
      <4>1. CASE w = y
        <5>1. inbox'[x][w] # inbox[x][w]
          BY <4>1, TakenFrom
        <5>2. j \in Nat \ {0} /\ j + 1 \in DOMAIN inbox[x][w] /\ inbox'[x][w][j] = inbox[x][w][j + 1]
          BY <1>2, <1>7, <2>5, <5>1
        <5>3. QED
          BY <5>2
      <4>2. CASE w # y
        BY <1>2, <1>7, <2>5, <4>2
      <4>3. QED
        BY <4>1, <4>2
    <3>2. CASE i \in DOMAIN heard[p] /\ heard'[p][i] = heard[p][i]
      BY <1>5, <1>7, <2>5, <3>1, <3>2
    <3>3. CASE heard'[p][i] = e
      BY <1>3, <1>4, <1>7, <2>5, <3>1, <3>3
    <3>4. QED
      BY <2>1, <3>2, <3>3
  <2>6. \A i \in DOMAIN heard'[p] : heard'[p][i].id \in 1..messages
    BY <1>1, <1>3, <2>1 DEF Followed
  <2>7. QED
    BY <2>4, <2>5, <2>6 DEF Followed
<1>8. QED
  BY <1>6, <1>7 DEF e, m

\* A message that NATS drops is the only thing that disturbs routing, and it only
\* counts.
LEMMA ChatKeepsRouting ==
    ASSUME RoutingInv, [ChatNext]_chatVars
    PROVE  /\ RoutingInv'
           /\ UNCHANGED <<bucket, writes>> \/ writes' = writes + 1
<1> USE DEF worldVars
<1>1. CASE [RoutingNext]_routingVars
  BY <1>1, NextRoutingInv, WritesCounted
<1>2. ASSUME NEW x \in Proxies, NEW y \in Proxies, Lose(x, y) PROVE RoutingInv' /\ UNCHANGED <<bucket, writes>>
  <2>1. /\ UNCHANGED <<bucket, running, alive, writes, proxyStarts, view, conn>>
        /\ upsets' = upsets + 1 /\ upsets < MaxUpsets
    BY <1>2 DEF Lose, Upset
  <2>2. upsets' \in 0..MaxUpsets /\ writes <= upsets'
    BY <2>1, RoutingBoundsAssumption DEF RoutingInv, RoutingTypeOK
  <2>3. QED
    BY <2>1, <2>2 DEF RoutingInv, RoutingTypeOK, Conns
<1>3. ASSUME NEW x \in Proxies, NEW y \in Proxies, Deliver(x, y) PROVE UNCHANGED routingVars
  BY <1>3 DEF Deliver
<1>4. ASSUME NEW p \in Players, Publish(p) PROVE UNCHANGED routingVars
  BY <1>4 DEF Publish
<1>5. QED
  BY <1>1, <1>2, <1>3, <1>4 DEF ChatNext, Moves, chatVars

\* A message that arrives is shown to some players of the proxy, and to nobody else.
LEMMA ShownTo ==
    ASSUME ChatInv, NEW x \in Proxies, NEW y \in Proxies, Deliver(x, y)
    PROVE  \E pub : 
             /\ pub = Layers(x, Head(inbox[x][y]).sender, Head(inbox[x][y]).server, PubLayersKey)
             /\ heard' \in [Players -> Seq(Shows)]
             /\ \A p \in Players :
                  LET e == [id |-> Head(inbox[x][y]).id, sender |-> Head(inbox[x][y]).sender] IN
                  /\ p \in Listeners(x, pub) => Home[p] = x /\ heard'[p] = Append(heard[p], e) /\ heard'[p] # heard[p]
                  /\ p \notin Listeners(x, pub) => heard'[p] = heard[p]
<1> DEFINE m == Head(inbox[x][y])
           e == [id |-> m.id, sender |-> m.sender]
           pub == Layers(x, m.sender, m.server, PubLayersKey)
<1>1. inbox[x][y] # <<>> /\ Taken(x, y) /\ Shown(m, Listeners(x, pub))
  BY DEF Deliver
<1>2. e \in Shows
  BY <1>1, TakenFrom, MessagesAssumption DEF Shows, Messages
<1>3. heard' = [p \in Players |-> IF p \in Listeners(x, pub) THEN Append(heard[p], e) ELSE heard[p]]
  BY <1>1 DEF Shown
<1>4. \A p \in Players : p \in Listeners(x, pub) => Home[p] = x
  BY DEF Listeners, Online, ClientsOf
<1> HIDE DEF e, pub, m
<1>5. \A s \in Seq(Shows) : Append(s, e) \in Seq(Shows) /\ Append(s, e) # s
  BY <1>2, AppendOf
<1>6. heard \in [Players -> Seq(Shows)]
  BY DEF ChatInv, ChatTypes
<1>7. heard' \in [Players -> Seq(Shows)]
  BY <1>3, <1>5, <1>6
<1>8. \A p \in Players :
         /\ p \in Listeners(x, pub) => Home[p] = x /\ heard'[p] = Append(heard[p], e) /\ heard'[p] # heard[p]
         /\ p \notin Listeners(x, pub) => heard'[p] = heard[p]
  BY <1>3, <1>4, <1>5, <1>6
<1>9. QED
  BY <1>7, <1>8 DEF e, pub, m

\* A message that is written is newer than all others.
LEMMA PublishKeepsChat ==
    ASSUME RoutingInv, ChatInv, NEW p \in Players, Publish(p)
    PROVE  ChatInv'
<1>1. PICK m \in Messages :
         /\ m.id = messages + 1 /\ m.sender = p /\ m.writes = writes
         /\ messages' = messages + 1 /\ messages' \in 0..MaxMessages
         /\ \A x, y \in Proxies :
               inbox'[x][y] = IF x \in running /\ y = Home[p] THEN Append(inbox[x][y], m) ELSE inbox[x][y]
         /\ inbox' \in [Proxies -> [Proxies -> Seq(Messages)]]
         /\ UNCHANGED <<routingVars, heard>>
  BY Published
<1>2. UNCHANGED <<running, writes, heard>>
  BY <1>1 DEF routingVars, worldVars
<1>3. messages \in Nat /\ inbox \in [Proxies -> [Proxies -> Seq(Messages)]] /\ writes \in Nat
  BY RoutingBoundsAssumption, MessagesAssumption DEF ChatInv, ChatTypes, RoutingInv, RoutingTypeOK
<1>4. \A s \in Seq(Messages) :
         /\ \A i \in DOMAIN s : i \in 1..Len(s) /\ s[i].id \in Nat
         /\ \A i \in DOMAIN Append(s, m) : /\ i \in Nat
                                           /\ \/ i \in DOMAIN s /\ Append(s, m)[i] = s[i]
                                              \/ i = Len(s) + 1 /\ Append(s, m)[i] = m
  <2>1. \A s \in Seq(Messages) :
           /\ \A i \in DOMAIN s : i \in 1..Len(s)
           /\ \A i \in DOMAIN Append(s, m) : /\ i \in Nat
                                             /\ \/ i \in DOMAIN s /\ Append(s, m)[i] = s[i]
                                                \/ i = Len(s) + 1 /\ Append(s, m)[i] = m
    BY AppendOf
  <2>2. \A k \in Messages : k.id \in Nat
    BY DEF Messages
  <2>3. \A s \in Seq(Messages) : \A i \in DOMAIN s : s[i].id \in Nat
    BY <2>2
  <2>4. QED
    BY <2>1, <2>3
<1>5. ASSUME NEW x \in Proxies, NEW y \in Proxies PROVE Waiting(x, y)'
  <2>1. Waiting(x, y)
    BY DEF ChatInv
  <2>2. CASE x \in running /\ y = Home[p]
    <3>1. PICK s \in Seq(Messages) :
            /\ s = inbox[x][y] /\ inbox'[x][y] = Append(s, m)
            /\ \A i \in DOMAIN s : i \in 1..Len(s) /\ s[i].id \in Nat
            /\ \A i \in DOMAIN Append(s, m) : /\ i \in Nat
                                              /\ \/ i \in DOMAIN s /\ Append(s, m)[i] = s[i]
                                                 \/ i = Len(s) + 1 /\ Append(s, m)[i] = m
      <4>1. inbox[x][y] \in Seq(Messages) /\ inbox'[x][y] = Append(inbox[x][y], m)
        BY <1>1, <1>3, <2>2
      <4>2. QED
        BY <1>4, <4>1, Zenon
    <3>2. DEFINE t == Append(s, m)
    <3>3. /\ \A i \in DOMAIN s : s[i].id <= messages /\ s[i].writes <= writes /\ Home[s[i].sender] = y
          /\ \A i, j \in DOMAIN s : i < j => s[i].id < s[j].id
      BY <2>1, <3>1 DEF Waiting
    <3>4. \A i \in DOMAIN t : /\ i \in Nat
                              /\ \/ i \in DOMAIN s /\ t[i] = s[i]
                                 \/ i = Len(s) + 1 /\ t[i] = m
      BY <3>1
    <3> HIDE DEF t
    <3>5. ASSUME NEW i \in DOMAIN t
          PROVE  t[i].id <= messages + 1 /\ t[i].writes <= writes /\ Home[t[i].sender] = y
      <4>1. CASE i \in DOMAIN s /\ t[i] = s[i]
        BY <1>3, <3>1, <3>3, <4>1
      <4>2. CASE t[i] = m
        BY <1>1, <1>3, <2>2, <4>2
      <4>3. QED
        BY <3>4, <4>1, <4>2
    <3>6. ASSUME NEW i \in DOMAIN t, NEW j \in DOMAIN t, i < j PROVE t[i].id < t[j].id
      <4>1. i \in DOMAIN s /\ t[i] = s[i] /\ i \in 1..Len(s)
        <5>1. CASE i = Len(s) + 1
          <6>1. \A k \in DOMAIN t : k <= Len(s) + 1
            BY <3>1, <3>4
          <6>2. QED
            BY <3>1, <3>4, <3>6, <5>1, <6>1
        <5>2. QED
          BY <3>1, <3>4, <5>1
      <4>2. CASE j \in DOMAIN s /\ t[j] = s[j]
        BY <3>3, <3>6, <4>1, <4>2
      <4>3. CASE t[j] = m
        <5>1. s[i].id <= messages /\ s[i].id \in Nat
          BY <3>1, <3>3, <4>1
        <5>2. QED
          BY <1>1, <1>3, <4>1, <4>3, <5>1
      <4>4. QED
        BY <3>4, <4>2, <4>3
    <3>7. inbox'[x][y] = t
      BY <3>1 DEF t
    <3>8. QED
      BY <1>1, <1>2, <2>2, <3>5, <3>6, <3>7 DEF Waiting
  <2>3. CASE ~(x \in running /\ y = Home[p])
    <3>1. inbox'[x][y] = inbox[x][y]
      BY <1>1, <2>3
    <3>2. \A i \in DOMAIN inbox[x][y] : inbox[x][y][i].id <= messages + 1
      <4>1. \A i \in DOMAIN inbox[x][y] : inbox[x][y][i].id \in Nat
        BY <1>3, <1>4
      <4>2. QED
        BY <1>3, <2>1, <4>1 DEF Waiting
    <3>3. QED
      BY <1>1, <1>2, <2>1, <3>1, <3>2 DEF Waiting
  <2>4. QED
    BY <2>2, <2>3
<1>6. ASSUME NEW q \in Players PROVE Followed(q)'
  <2>1. Followed(q) /\ heard[q] \in Seq(Shows)
    BY DEF ChatInv, ChatTypes
  <2>2. \A i \in DOMAIN heard[q] : heard[q][i].id \in 1..messages /\ heard[q][i].id \in 1..messages'
    BY <1>1, <1>3, <2>1 DEF Followed
  <2>3. ASSUME NEW i \in DOMAIN heard[q], NEW y \in Proxies, Home[heard[q][i].sender] = y,
               NEW j \in DOMAIN inbox'[Home[q]][y]
        PROVE  heard[q][i].id < inbox'[Home[q]][y][j].id
    <3>1. Home[q] \in Proxies
      BY HomeAssumption
    <3>2. \/ j \in DOMAIN inbox[Home[q]][y] /\ inbox'[Home[q]][y][j] = inbox[Home[q]][y][j]
          \/ inbox'[Home[q]][y][j] = m
      <4>1. CASE inbox'[Home[q]][y] = inbox[Home[q]][y]
        BY <2>3, <4>1
      <4>2. CASE inbox'[Home[q]][y] = Append(inbox[Home[q]][y], m)
        <5>1. PICK s \in Seq(Messages) :
                /\ s = inbox[Home[q]][y]
                /\ \A k \in DOMAIN Append(s, m) : \/ k \in DOMAIN s /\ Append(s, m)[k] = s[k]
                                                  \/ Append(s, m)[k] = m
          BY <1>3, <1>4, <3>1
        <5>2. QED
          BY <2>3, <4>2, <5>1
      <4>3. QED
        BY <1>1, <3>1, <4>1, <4>2
    <3>3. CASE inbox'[Home[q]][y][j] = m
      BY <1>1, <1>3, <2>2, <3>3
    <3>4. CASE j \in DOMAIN inbox[Home[q]][y] /\ inbox'[Home[q]][y][j] = inbox[Home[q]][y][j]
      BY <2>1, <2>3, <3>4 DEF Followed
    <3>5. QED
      BY <3>2, <3>3, <3>4
  <2>4. QED
    BY <1>2, <2>1, <2>2, <2>3 DEF Followed
<1>7. ChatTypes'
  BY <1>1, <1>2 DEF ChatInv, ChatTypes
<1>8. QED
  BY <1>5, <1>6, <1>7 DEF ChatInv

\* Routing only takes messages and memories away.
LEMMA MovesKeepChat ==
    ASSUME RoutingInv, ChatInv, Moves
    PROVE  ChatInv'
<1>1. /\ inbox' \in [Proxies -> [Proxies -> Seq(Messages)]]
      /\ heard' \in [Players -> Seq(Shows)] /\ UNCHANGED messages
      /\ \A x, y \in Proxies : /\ inbox'[x][y] = inbox[x][y] \/ inbox'[x][y] = <<>>
                               /\ x \notin running' => inbox'[x][y] = <<>>
      /\ \A p \in Players : heard'[p] = heard[p] \/ heard'[p] = <<>>
  BY MovedAround
<1>2. /\ writes \in Nat /\ writes' \in Nat /\ writes <= writes'
      /\ \A k \in Messages : k.writes \in Nat
  <2>1. writes \in Nat /\ \A k \in Messages : k.writes \in Nat
    BY RoutingBoundsAssumption DEF RoutingInv, RoutingTypeOK, Messages
  <2>2. writes' = writes \/ writes' = writes + 1
    BY WritesCounted DEF Moves
  <2>3. QED
    BY <2>1, <2>2
<1>3. ASSUME NEW x \in Proxies, NEW y \in Proxies PROVE Waiting(x, y)'
  <2>1. CASE inbox'[x][y] = <<>>
    BY <2>1 DEF Waiting
  <2>2. CASE inbox'[x][y] = inbox[x][y] /\ inbox'[x][y] # <<>>
    <3>1. Waiting(x, y) /\ x \in running'
      BY <1>1, <2>2 DEF ChatInv
    <3>2. \A i \in DOMAIN inbox[x][y] : inbox[x][y][i].writes <= writes'
      <4>1. \A i \in DOMAIN inbox[x][y] : inbox[x][y][i].writes <= writes
        BY <3>1 DEF Waiting
      <4>2. inbox[x][y] \in Seq(Messages)
        BY DEF ChatInv, ChatTypes
      <4>3. \A i \in DOMAIN inbox[x][y] : inbox[x][y][i] \in Messages
        BY <4>2
      <4>4. QED
        BY <1>2, <4>1, <4>3
    <3>3. QED
      BY <1>1, <2>2, <3>1, <3>2 DEF Waiting
  <2>3. QED
    BY <1>1, <2>1, <2>2
<1>4. ASSUME NEW p \in Players PROVE Followed(p)'
  <2>1. Followed(p) /\ Home[p] \in Proxies
    BY HomeAssumption DEF ChatInv
  <2>2. CASE heard'[p] = <<>>
    BY <2>2 DEF Followed
  <2>3. CASE heard'[p] = heard[p]
    <3>1. ASSUME NEW i \in DOMAIN heard[p], NEW y \in Proxies, Home[heard[p][i].sender] = y,
                 NEW j \in DOMAIN inbox'[Home[p]][y]
          PROVE  heard[p][i].id < inbox'[Home[p]][y][j].id
      <4>1. inbox'[Home[p]][y] = inbox[Home[p]][y]
        BY <1>1, <2>1, <3>1
      <4>2. QED
        BY <2>1, <3>1, <4>1 DEF Followed
    <3>2. QED
      BY <1>1, <2>1, <2>3, <3>1 DEF Followed
  <2>4. QED
    BY <1>1, <2>2, <2>3
<1>5. QED
  BY <1>1, <1>3, <1>4 DEF ChatInv, ChatTypes

\* Every step keeps what waits and what was shown in order.
LEMMA NextChatInv == RoutingInv /\ ChatInv /\ [ChatNext]_chatVars => ChatInv'
<1> SUFFICES ASSUME RoutingInv, ChatInv, [ChatNext]_chatVars PROVE ChatInv'
  OBVIOUS
<1>1. CASE Moves
  BY <1>1, MovesKeepChat
<1>2. ASSUME NEW p \in Players, Publish(p) PROVE ChatInv'
  BY <1>2, PublishKeepsChat
<1>3. ASSUME NEW x \in Proxies, NEW y \in Proxies, Deliver(x, y) PROVE ChatInv'
  <2>1. inbox[x][y] # <<>> /\ Taken(x, y) /\ UNCHANGED <<running, writes, messages>>
    BY <1>3 DEF Deliver, routingVars, worldVars
  <2>2. \A v, w \in Proxies : Waiting(v, w)'
    BY <2>1, TakenKeepsWaiting
  <2>3. /\ heard' \in [Players -> Seq(Shows)]
        /\ \A p \in Players :
              \/ heard'[p] = heard[p]
              \/ /\ Home[p] = x
                 /\ heard'[p] = Append(heard[p], [id |-> Head(inbox[x][y]).id, sender |-> Head(inbox[x][y]).sender])
    BY <1>3, ShownTo
  <2>4. \A p \in Players : Followed(p)'
    BY <2>1, <2>3, TakenFollows
  <2>5. ChatTypes'
    BY <2>1, <2>3, TakenFrom DEF ChatInv, ChatTypes
  <2>6. QED
    BY <2>2, <2>4, <2>5 DEF ChatInv
<1>4. ASSUME NEW x \in Proxies, NEW y \in Proxies, Lose(x, y) PROVE ChatInv'
  <2>1. inbox[x][y] # <<>> /\ Taken(x, y) /\ UNCHANGED <<running, writes, messages, heard>>
    BY <1>4 DEF Lose
  <2>2. \A v, w \in Proxies : Waiting(v, w)'
    BY <2>1, TakenKeepsWaiting
  <2>3. \A p \in Players : Followed(p)'
    BY <2>1, TakenFollows
  <2>4. ChatTypes'
    BY <2>1, TakenFrom DEF ChatInv, ChatTypes
  <2>5. QED
    BY <2>2, <2>3, <2>4 DEF ChatInv
<1>5. CASE UNCHANGED chatVars
  BY <1>5 DEF chatVars, routingVars, worldVars, ChatInv, ChatTypes, Waiting, Followed
<1>6. QED
  BY <1>1, <1>2, <1>3, <1>4, <1>5 DEF ChatNext

\* All of it holds in every state.
LEMMA ChatInvariant == ChatSpec => [](RoutingInv /\ ChatInv)
<1>1. ChatInit => RoutingInv /\ ChatInv
  BY InitRoutingInv, InitChatInv DEF ChatInit
<1>2. RoutingInv /\ ChatInv /\ [ChatNext]_chatVars => (RoutingInv /\ ChatInv)'
  BY ChatKeepsRouting, NextChatInv
<1>3. QED
  BY <1>1, <1>2, PTL DEF ChatSpec

\* Every variable keeps its type, and only proxies that run have messages.
THEOREM ChatTypeCorrect == ChatSpec => []ChatTypeOK
<1>1. RoutingInv /\ ChatInv => ChatTypeOK
  <2> SUFFICES ASSUME RoutingInv, ChatInv PROVE ChatTypeOK
    OBVIOUS
  <2>1. ASSUME NEW x \in Proxies, NEW y \in Proxies, NEW i \in DOMAIN inbox[x][y]
        PROVE  inbox[x][y][i] \in Messages
    <3>1. inbox[x][y] \in Seq(Messages)
      BY DEF ChatInv, ChatTypes
    <3>2. QED
      BY <2>1, <3>1
  <2>2. ASSUME NEW p \in Players, NEW i \in DOMAIN heard[p]
        PROVE  heard[p][i] \in [id : 1..messages, sender : Players]
    <3>1. heard[p] \in Seq(Shows) /\ heard[p][i].id \in 1..messages
      BY <2>2 DEF ChatInv, ChatTypes, Followed
    <3>2. heard[p][i] \in Shows
      BY <2>2, <3>1
    <3>3. QED
      BY <3>1, <3>2 DEF Shows
  <2>3. QED
    BY <2>1, <2>2 DEF ChatTypeOK, RoutingInv, ChatInv, ChatTypes, Waiting
<1>2. QED
  BY <1>1, ChatInvariant, PTL

\* A player is shown each message at most once, and one sender's messages in the order
\* they were written: a sender's messages all come from one proxy, which follows from
\* Followed, where the messages that wait are later than those that were shown.
THEOREM AlwaysHeardInOrder == ChatSpec => []HeardInOrder
<1>1. ChatInv => HeardInOrder
  BY DEF ChatInv, Followed, HeardInOrder
<1>2. QED
  BY <1>1, ChatInvariant, PTL

-----------------------------------------------------------------------------
(* The audience of a message.                                              *)

\* What the lists of layers of a value are, by what the value holds.
LEMMA LayersOfValue ==
    ASSUME NEW v \in Held, NEW key \in Keys
    PROVE  /\ LayersOf[v][key].values \in Seq(LayerNames)
           /\ LayersOf[v][key].found <=> Annotated[v][key]
           /\ ~LayersOf[v][key].found => LayersOf[v][key].values = <<>>
           /\ Annotated[v][key] => v # NoMeta
           /\ v # NoMeta => \A l \in LayerNames : Contains(LayersOf[v][key].values, l) <=> l \in Named[v][key]
<1>1. CASE v = NoMeta
  <2>1. LayersOf[v][key] = [found |-> FALSE, failed |-> FALSE, values |-> <<>>] /\ ~Annotated[v][key]
    BY <1>1 DEF LayersOf, Annotated
  <2>2. QED
    BY <1>1, <2>1
<1>2. CASE v # NoMeta
  <2>1. v \in Values
    BY <1>2 DEF Held
  <2>2. LayersOf[v][key] = GetAnnotationStringSlice(ValueOf[v], key)
    BY <1>2, <2>1 DEF LayersOf
  <2>3. Annotated[v][key] <=> Has(ValueOf[v].annotations, key)
    BY <1>2, <2>1 DEF Annotated
  <2>4. \A l \in LayerNames : l \in Named[v][key] <=>
           /\ Has(ValueOf[v].annotations, key)
           /\ ValueOf[v].annotations[key] \notin Texts
           /\ Contains(ValueOf[v].annotations[key], l)
    BY <2>1 DEF Named
  <2>5. CASE ~Has(ValueOf[v].annotations, key)
    <3>1. LayersOf[v][key].found = FALSE /\ LayersOf[v][key].values = <<>>
      BY <2>2, <2>5 DEF GetAnnotationStringSlice, GetAnnotation
    <3>2. \A l : ~Contains(<<>>, l)
      BY DEF Contains
    <3>3. QED
      BY <1>2, <2>3, <2>4, <2>5, <3>1, <3>2
  <2>6. CASE Has(ValueOf[v].annotations, key) /\ ValueOf[v].annotations[key] \in Texts
    <3>1. LayersOf[v][key].found = TRUE /\ LayersOf[v][key].values = <<>>
      BY <2>2, <2>6 DEF GetAnnotationStringSlice, GetAnnotation
    <3>2. \A l : ~Contains(<<>>, l)
      BY DEF Contains
    <3>3. QED
      BY <1>2, <2>3, <2>4, <2>6, <3>1, <3>2
  <2>7. CASE Has(ValueOf[v].annotations, key) /\ ValueOf[v].annotations[key] \notin Texts
    <3>1. LayersOf[v][key].found = TRUE /\ LayersOf[v][key].values = ValueOf[v].annotations[key]
      BY <2>2, <2>7 DEF GetAnnotationStringSlice, GetAnnotation
    <3>2. ValueOf[v].annotations[key] \in Seq(LayerNames)
      BY <2>1, <2>7, LayersAssumption
    <3>3. QED
      BY <1>2, <2>3, <2>4, <2>7, <3>1, <3>2
  <2>8. QED
    BY <2>5, <2>6, <2>7
<1>3. QED
  BY <1>1, <1>2

\* When the caches of a proxy have settled, the layers it looks up are those the bucket
\* gives.
LEMMA SettledLayers ==
    ASSUME RoutingInv, NEW x \in Proxies, Settled(x),
           NEW p \in Players, NEW s \in Servers \cup {NoServer}, NEW key \in Keys
    PROVE  /\ Layers(x, p, s, key) \in Seq(LayerNames)
           /\ \A l \in LayerNames : Contains(Layers(x, p, s, key), l) <=> l \in Tuned(p, s, key)
<1>1. /\ view[x][p] = bucket[p] /\ bucket[p] \in Held
      /\ s # NoServer => view[x][s] = bucket[s] /\ bucket[s] \in Held
  BY DEF Settled, Subjects, RoutingInv
<1>2. \A l : ~Contains(<<>>, l)
  BY DEF Contains
<1>3. CASE Annotated[bucket[p]][key]
  <2>1. Layers(x, p, s, key) = LayersOf[bucket[p]][key].values
    BY <1>1, <1>3, LayersOfValue DEF Layers
  <2>2. Tuned(p, s, key) = Named[bucket[p]][key]
    BY <1>1, <1>3, LayersOfValue DEF Tuned, SpeaksFor
  <2>3. QED
    BY <1>1, <1>3, <2>1, <2>2, LayersOfValue
<1>4. CASE ~Annotated[bucket[p]][key] /\ s = NoServer
  <2>1. Layers(x, p, s, key) = <<>>
    BY <1>1, <1>4, LayersOfValue DEF Layers
  <2>2. Tuned(p, s, key) = {}
    BY <1>4 DEF Tuned, SpeaksFor
  <2>3. QED
    BY <1>2, <2>1, <2>2
<1>5. CASE ~Annotated[bucket[p]][key] /\ s # NoServer
  <2>1. Layers(x, p, s, key) = LayersOf[bucket[s]][key].values
    BY <1>1, <1>5, LayersOfValue DEF Layers
  <2>2. CASE bucket[s] = NoMeta
    <3>1. Tuned(p, s, key) = {}
      BY <1>5, <2>2 DEF Tuned, SpeaksFor
    <3>2. LayersOf[bucket[s]][key].values = <<>>
      BY <1>1, <1>5, <2>2, LayersOfValue
    <3>3. QED
      BY <1>2, <2>1, <3>1, <3>2
  <2>3. CASE bucket[s] # NoMeta
    <3>1. Tuned(p, s, key) = Named[bucket[s]][key]
      BY <1>5, <2>3 DEF Tuned, SpeaksFor
    <3>2. QED
      BY <1>1, <1>5, <2>1, <2>3, <3>1, LayersOfValue
  <2>4. QED
    BY <2>2, <2>3
<1>6. QED
  BY <1>3, <1>4, <1>5

\* The message waits at some proxy.
Waits(m) == \E x, y \in Proxies : \E i \in DOMAIN inbox[x][y] : inbox[x][y][i] = m

\* A message that waits, written when the bucket was as it is, has the layers that the
\* bucket gives its sender where it was then.
Agrees(m) == m.writes = writes => m.layers = Tuned(m.sender, m.server, PubLayersKey)
AgreeInv == \A m \in Messages : Waits(m) => Agrees(m)

\* A message is published with the layers of its moment; whoever writes to the bucket
\* later is counted.
LEMMA NextAgreeInv == RoutingInv /\ ChatInv /\ AgreeInv /\ [ChatNext]_chatVars => AgreeInv'
<1> SUFFICES ASSUME RoutingInv, ChatInv, AgreeInv, [ChatNext]_chatVars, NEW m \in Messages, Waits(m)'
             PROVE  Agrees(m)'
  BY DEF AgreeInv
<1> USE DEF worldVars
<1>1. UNCHANGED <<bucket, writes>> /\ Agrees(m) => Agrees(m)'
  BY DEF Agrees, Tuned, SpeaksFor
<1>2. Waits(m) => Agrees(m) /\ m.writes <= writes
  BY DEF AgreeInv, Waits, ChatInv, Waiting
<1>3. writes \in Nat /\ m.writes \in Nat
  BY RoutingBoundsAssumption DEF RoutingInv, RoutingTypeOK, Messages
<1>4. CASE Moves
  <2>1. Waits(m)
    <3>1. PICK x \in Proxies, y \in Proxies : \E i \in DOMAIN inbox'[x][y] : inbox'[x][y][i] = m
      BY DEF Waits
    <3>2. inbox'[x][y] = inbox[x][y] \/ inbox'[x][y] = <<>>
      BY <1>4, MovedAround
    <3>3. inbox'[x][y] = inbox[x][y]
      BY <3>1, <3>2
    <3>4. QED
      BY <3>1, <3>3 DEF Waits
  <2>2. UNCHANGED <<bucket, writes>> \/ writes' = writes + 1
    BY <1>4, WritesCounted DEF Moves
  <2>3. CASE UNCHANGED <<bucket, writes>>
    BY <1>1, <1>2, <2>1, <2>3
  <2>4. CASE writes' = writes + 1
    <3>1. m.writes # writes'
      BY <1>2, <1>3, <2>1, <2>4
    <3>2. QED
      BY <3>1 DEF Agrees
  <2>5. QED
    BY <2>2, <2>3, <2>4
<1>5. ASSUME NEW p \in Players, Publish(p) PROVE Agrees(m)'
  <2>1. PICK k \in Messages :
          /\ k.layers = Tuned(k.sender, k.server, PubLayersKey)
          /\ \A x, y \in Proxies :
                inbox'[x][y] = IF x \in running /\ y = Home[p] THEN Append(inbox[x][y], k) ELSE inbox[x][y]
          /\ UNCHANGED routingVars
    <3>1. \E k \in Messages :
             /\ k.sender = p /\ k.layers = Tuned(p, k.server, PubLayersKey)
             /\ \A x, y \in Proxies :
                   inbox'[x][y] = IF x \in running /\ y = Home[p] THEN Append(inbox[x][y], k) ELSE inbox[x][y]
             /\ UNCHANGED routingVars
      BY <1>5, Published
    <3>2. QED
      BY <3>1
  <2>2. UNCHANGED <<bucket, writes>>
    BY <2>1 DEF routingVars
  <2>3. \A s \in Seq(Messages) : \A i \in DOMAIN Append(s, k) :
           \/ i \in DOMAIN s /\ Append(s, k)[i] = s[i]
           \/ Append(s, k)[i] = k
    BY AppendOf
  <2>4. Waits(m) \/ m = k
    <3>1. PICK x \in Proxies, y \in Proxies : \E i \in DOMAIN inbox'[x][y] : inbox'[x][y][i] = m
      BY DEF Waits
    <3>2. inbox[x][y] \in Seq(Messages)
      BY DEF ChatInv, ChatTypes
    <3>3. CASE inbox'[x][y] = inbox[x][y]
      BY <3>1, <3>3 DEF Waits
    <3>4. CASE inbox'[x][y] = Append(inbox[x][y], k)
      BY <2>3, <3>1, <3>2, <3>4 DEF Waits
    <3>5. QED
      BY <2>1, <3>3, <3>4
  <2>5. m = k => Agrees(m)
    BY <2>1 DEF Agrees
  <2>6. QED
    BY <1>1, <1>2, <2>2, <2>4, <2>5
<1>6. ASSUME NEW x \in Proxies, NEW y \in Proxies, Deliver(x, y) \/ Lose(x, y) PROVE Agrees(m)'
  <2>1. inbox[x][y] # <<>> /\ Taken(x, y) /\ UNCHANGED <<bucket, writes>>
    BY <1>6 DEF Deliver, Lose, routingVars
  <2>2. \A v, w \in Proxies : \A i \in DOMAIN inbox'[v][w] :
           \E k \in DOMAIN inbox[v][w] : inbox'[v][w][i] = inbox[v][w][k]
    <3>1. \A v, w \in Proxies : \A i \in DOMAIN inbox'[v][w] :
             \/ i \in DOMAIN inbox[v][w] /\ inbox'[v][w] = inbox[v][w]
             \/ i + 1 \in DOMAIN inbox[v][w] /\ inbox'[v][w][i] = inbox[v][w][i + 1]
      BY <2>1, TakenFrom
    <3>2. QED
      BY <3>1
  <2>3. Waits(m)
    BY <2>2 DEF Waits
  <2>4. QED
    BY <1>1, <1>2, <2>1, <2>3
<1>7. CASE UNCHANGED chatVars
  <2>1. Waits(m) /\ UNCHANGED <<bucket, writes>>
    BY <1>7 DEF chatVars, routingVars, Waits
  <2>2. QED
    BY <1>1, <1>2, <2>1
<1>8. QED
  BY <1>4, <1>5, <1>6, <1>7 DEF ChatNext

\* A message that leaves the head of an inbox without an upset is handed out: routing
\* empties an inbox only by stopping the proxy, and a message that is lost is an upset.
LEMMA ArrivalIsDelivered ==
    ASSUME RoutingInv, ChatInv, [ChatNext]_chatVars,
           NEW x \in Proxies, NEW y \in Proxies, Arrives(x, y)
    PROVE  Deliver(x, y)
<1>1. /\ inbox[x][y] # <<>> /\ upsets' = upsets /\ upsets \in Nat
      /\ inbox[x][y] \in Seq(Messages) /\ inbox'[x][y] # inbox[x][y] /\ inbox'[x][y] = Tail(inbox[x][y])
  BY TakenFrom, RoutingBoundsAssumption DEF Arrives, RoutingInv, RoutingTypeOK, ChatInv, ChatTypes
<1>2. ~Moves
  <2> SUFFICES ASSUME Moves PROVE FALSE
    OBVIOUS
  <2>1. x \in running
    BY <1>1 DEF ChatInv, Waiting
  <2>2. x \in running'
    BY <1>1, <2>1, WritesCounted DEF Moves
  <2>3. QED
    BY <1>1, <2>2, MovedAround
<1>3. ASSUME NEW p \in Players, Publish(p) PROVE FALSE
  <2>1. PICK m \in Messages : inbox'[x][y] = inbox[x][y] \/ inbox'[x][y] = Append(inbox[x][y], m)
    <3>1. \E m \in Messages : inbox'[x][y] = IF x \in running /\ y = Home[p] THEN Append(inbox[x][y], m) ELSE inbox[x][y]
      BY <1>3, Published
    <3>2. QED
      BY <3>1
  <2>2. \A s \in Seq(Messages) : s # <<>> => Append(s, m) # Tail(s)
    OBVIOUS
  <2>3. QED
    BY <1>1, <2>1, <2>2
<1>4. ASSUME NEW v \in Proxies, NEW w \in Proxies, Lose(v, w) PROVE FALSE
  BY <1>1, <1>4 DEF Lose, Upset
<1>5. ASSUME NEW v \in Proxies, NEW w \in Proxies, Deliver(v, w) PROVE v = x /\ w = y
  <2>1. inbox[v][w] # <<>> /\ Taken(v, w)
    BY <1>5 DEF Deliver
  <2>2. x # v \/ y # w => inbox'[x][y] = inbox[x][y]
    BY <2>1, TakenFrom
  <2>3. QED
    BY <1>1, <2>2
<1>6. ~UNCHANGED chatVars
  BY <1>1 DEF chatVars
<1>7. QED
  BY <1>2, <1>3, <1>4, <1>5, <1>6 DEF ChatNext

\* Once no key changed since a message was written and the caches of a proxy have
\* settled, the message is shown to the players of the proxy that are tuned to a layer
\* its sender had then, and to no other.  What the proxy looks up is compared with what
\* the bucket gave the sender at the time (AgreeInv).
THEOREM AudienceAlwaysFollowsSender == ChatSpec => MessagesFollowTheirSender
<1> DEFINE Inv == RoutingInv /\ ChatInv /\ AgreeInv
           Step == \A x, y \in Proxies :
                      Arrives(x, y) /\ Settled(x) /\ Head(inbox[x][y]).writes = writes =>
                         \A p \in Online(x) :
                            heard'[p] # heard[p] <=>
                               Head(inbox[x][y]).layers \cap Tuned(p, conn[p].server, SubLayersKey) # {}
<1>1. ChatInit => Inv
  <2>1. ChatInit => AgreeInv
    BY DEF ChatInit, AgreeInv, Waits
  <2>2. QED
    BY <2>1, InitRoutingInv, InitChatInv DEF ChatInit
<1>2. Inv /\ [ChatNext]_chatVars => Inv'
  BY ChatKeepsRouting, NextChatInv, NextAgreeInv
<1>3. Inv /\ [ChatNext]_chatVars => Step
  <2> SUFFICES ASSUME Inv, [ChatNext]_chatVars, NEW x \in Proxies, NEW y \in Proxies, Arrives(x, y),
                      Settled(x), Head(inbox[x][y]).writes = writes, NEW p \in Online(x)
               PROVE  heard'[p] # heard[p] <=>
                         Head(inbox[x][y]).layers \cap Tuned(p, conn[p].server, SubLayersKey) # {}
    OBVIOUS
  <2>1. PICK m : /\ m = Head(inbox[x][y]) /\ m \in Messages
                 /\ m.layers = Tuned(m.sender, m.server, PubLayersKey)
    <3>1. /\ Head(inbox[x][y]) \in Messages /\ Head(inbox[x][y]) = inbox[x][y][1]
          /\ 1 \in DOMAIN inbox[x][y]
      BY TakenFrom DEF Arrives
    <3>2. Waits(Head(inbox[x][y]))
      BY <3>1 DEF Waits
    <3>3. Agrees(Head(inbox[x][y]))
      BY <3>1, <3>2 DEF AgreeInv
    <3>4. QED
      BY <3>1, <3>3 DEF Agrees
  <2>2. PICK pub : /\ pub = Layers(x, m.sender, m.server, PubLayersKey)
                   /\ \A q \in Players : heard'[q] # heard[q] <=> q \in Listeners(x, pub)
    <3>1. Deliver(x, y)
      BY ArrivalIsDelivered
    <3>2. \E pub :
             /\ pub = Layers(x, Head(inbox[x][y]).sender, Head(inbox[x][y]).server, PubLayersKey)
             /\ \A q \in Players : heard'[q] # heard[q] <=> q \in Listeners(x, pub)
      BY <3>1, ShownTo
    <3>3. QED
      BY <2>1, <3>2
  <2>3. /\ pub \in Seq(LayerNames)
        /\ \A l \in LayerNames : Contains(pub, l) <=> l \in m.layers
        /\ m.layers \subseteq LayerNames
    <3>1. m.sender \in Players /\ m.server \in Servers /\ m.layers \subseteq LayerNames
      BY <2>1 DEF Messages
    <3>2. QED
      BY <2>1, <2>2, <3>1, SettledLayers DEF Keys
  <2>4. p \in Players /\ conn[p].server \in Servers \cup {NoServer}
    BY DEF Online, ClientsOf, RoutingInv, Conns
  <2>5. PICK sub : /\ sub = Layers(x, p, conn[p].server, SubLayersKey)
                   /\ \A l \in LayerNames : Contains(sub, l) <=> l \in Tuned(p, conn[p].server, SubLayersKey)
    BY <2>4, SettledLayers DEF Keys
  <2>6. p \in Listeners(x, pub) <=> \E i \in DOMAIN pub : Contains(sub, pub[i])
    BY <2>5 DEF Listeners
  <2>7. (\E i \in DOMAIN pub : Contains(sub, pub[i])) <=> \E l \in LayerNames : Contains(pub, l) /\ Contains(sub, l)
    <3>1. DOMAIN pub = 1..Len(pub) /\ \A i \in DOMAIN pub : pub[i] \in LayerNames
      BY <2>3
    <3>2. \A l : Contains(pub, l) <=> \E i \in DOMAIN pub : pub[i] = l
      BY <3>1 DEF Contains
    <3>3. QED
      BY <3>1, <3>2
  <2>8. p \in Listeners(x, pub) <=> m.layers \cap Tuned(p, conn[p].server, SubLayersKey) # {}
    BY <2>3, <2>5, <2>6, <2>7
  <2>9. QED
    BY <2>1, <2>2, <2>4, <2>8
<1>4. QED
  BY <1>1, <1>2, <1>3, PTL DEF ChatSpec, MessagesFollowTheirSender
=============================================================================
