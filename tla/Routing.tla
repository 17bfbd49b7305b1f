------------------------------- MODULE Routing ------------------------------
(***************************************************************************)
(* Where players are and where a proxy sends them: servers/events.go and   *)
(* the /join command, on metadata that each proxy's watchers bring it      *)
(* late.  What Gate does between the plugin's handlers (connect, kick,     *)
(* disconnect) is modelled from the events it fires.                       *)
(*                                                                         *)
(* The two watchers are one action here, Refresh: ServerRegistry and       *)
(* PlayerDirectory show that a cached value is one the bucket held, and    *)
(* that the cache catches up.  Every server value has an address, so a     *)
(* proxy has a server registered while it has metadata for it.             *)
(***************************************************************************)
EXTENDS MetadataOps

CONSTANTS
    Proxies, Players, Servers,
    Home,              \* Players -> Proxies, where the client connects
    ValueOf,           \* the metadata each value of the bucket stands for
    Profiles,          \* Players \cup Servers -> the values its key may take
    DefaultSelector,   \* DefaultServerSelector
    LocationKey,       \* "network/location"
    NoMeta, NoServer,
    MaxUpsets,         \* bound: what players, servers and writers do on their own
    MaxProxyStarts     \* bound: starts of a proxy after the first

Subjects == Players \cup Servers
Values == DOMAIN ValueOf
ClientsOf == [x \in Proxies |-> {p \in Players : Home[p] = x}]

\* What the handlers look up, for each value once.
DefaultValues == {v \in Values : MatchesLabels(ValueOf[v], DefaultSelector)}
Location == [v \in Values |-> GetAnnotation(ValueOf[v], LocationKey)]

ASSUME HomeAssumption == Home \in [Players -> Proxies]
ASSUME SubjectsAssumption == Players \cap Servers = {} /\ NoServer \notin Servers
ASSUME ProfilesAssumption == \A w \in Subjects : Profiles[w] \subseteq Values \cup {NoMeta}
ASSUME RoutingBoundsAssumption == MaxUpsets \in Nat /\ MaxProxyStarts \in Nat

VARIABLES
    bucket,     \* Subjects -> the value of its key, or NoMeta
    view,       \* Proxies -> what its caches hold of each subject
    running,    \* the proxies that run
    alive,      \* the servers that accept connections
    conn,       \* Players -> the player's connection
    writes,     \* how often a key was written
    upsets, proxyStarts

worldVars == <<bucket, running, alive, writes, upsets, proxyStarts>>
routingVars == <<worldVars, view, conn>>

\* Fields: the server that CurrentServer returns, and the server a connection
\* is being made to (of a kicked player, the one that kicked).
At(st, server, target) == [st |-> st, server |-> server, target |-> target]
Offline == At("offline", NoServer, NoServer)

\* p.Players(): whoever passed the login.
Online(x) == {p \in ClientsOf[x] : conn[p].st # "offline"}

\* Proxies that have caught up and have no players yet.
RoutingInit ==
    /\ bucket \in {b \in [Subjects -> UNION {Profiles[w] : w \in Subjects}] :
                      \A w \in Subjects : b[w] \in Profiles[w]}
    /\ view = [x \in Proxies |-> bucket]
    /\ running = Proxies
    /\ alive = Servers
    /\ conn = [p \in Players |-> Offline]
    /\ writes = 0 /\ upsets = 0 /\ proxyStarts = 0

Upset == upsets < MaxUpsets /\ upsets' = upsets + 1
Move(p, to) == conn' = [conn EXCEPT ![p] = to]

-----------------------------------------------------------------------------
(* The handlers.                                                           *)

IsRegisteredAt(x, s) == view[x][s] # NoMeta

\* FindServersByLabels(DefaultServerSelector)
Defaults(x) ==
    {s \in Servers : IsRegisteredAt(x, s) /\ view[x][s] \in DefaultValues}

Login(p) ==
    /\ conn[p].st = "offline" /\ Home[p] \in running
    /\ Move(p, At("choosing", NoServer, NoServer))
    /\ UNCHANGED <<worldVars, view>>

\* playerChooseInitialServer: rand.Intn over the default servers.  The choice
\* is a registered server that may not be registered, or up, when Gate connects.
Choose(p, s) ==
    /\ conn[p].st = "choosing"
    /\ s \in Defaults(Home[p])
    /\ Move(p, At("connecting", NoServer, s))
    /\ UNCHANGED <<worldVars, view>>

NoServerToChoose(p) ==
    /\ conn[p].st = "choosing"
    /\ Defaults(Home[p]) = {}
    /\ Move(p, Offline)
    /\ UNCHANGED <<worldVars, view>>

\* Faulty variant: the player is sent back to the server that kicked.
SendBack(p, s) ==
    /\ conn[p].st = "kicked"
    /\ Defaults(Home[p]) # {} /\ s = conn[p].target
    /\ Move(p, At("connecting", NoServer, s))
    /\ UNCHANGED <<worldVars, view>>

\* handleKickedFromServerEvent does not look at the server that kicked: it may
\* choose that one again.
HandleKicked(p, s) ==
    /\ conn[p].st = "kicked"
    /\ s \in Defaults(Home[p])
    /\ Move(p, At("connecting", NoServer, s))
    /\ UNCHANGED <<worldVars, view>>

NoServerToRedirect(p) ==
    /\ conn[p].st = "kicked"
    /\ Defaults(Home[p]) = {}
    /\ Move(p, Offline)
    /\ UNCHANGED <<worldVars, view>>

\* /join q: q's metadata, its location, the server registered under that name;
\* whichever is missing, the player is told so and stays.
Join(p, q) ==
    /\ conn[p].st = "playing"
    /\ LET x == Home[p] IN
       /\ view[x][q] # NoMeta
       /\ LET location == Location[view[x][q]] IN
          /\ location.found
          /\ location.text \in {s \in Servers : IsRegisteredAt(x, s)}
          /\ Move(p, At("switching", conn[p].server, location.text))
    /\ UNCHANGED <<worldVars, view>>

-----------------------------------------------------------------------------
(* Gate.  A connection succeeds at a server that is up.                    *)

Connects(p) ==
    /\ conn[p].st \in {"connecting", "switching"}
    /\ conn[p].target \in alive
    /\ Move(p, At("playing", conn[p].target, NoServer))
    /\ UNCHANGED <<worldVars, view>>

\* The first server, or the one after a kick: Gate fires KickedFromServerEvent.
ConnectFails(p) ==
    /\ conn[p].st = "connecting"
    /\ conn[p].target \notin alive
    /\ Move(p, At("kicked", NoServer, conn[p].target))
    /\ UNCHANGED <<worldVars, view>>

\* Connect returns an error to /join: the player stays where it was.
SwitchFails(p) ==
    /\ conn[p].st = "switching"
    /\ conn[p].target \notin alive
    /\ Move(p, At("playing", conn[p].server, NoServer))
    /\ UNCHANGED <<worldVars, view>>

ServerKicks(p) ==
    /\ conn[p].st \in {"playing", "switching"} /\ Upset
    /\ Move(p, At("kicked", NoServer, conn[p].server))
    /\ UNCHANGED <<bucket, view, running, alive, writes, proxyStarts>>

Quit(p) ==
    /\ conn[p].st # "offline" /\ Upset
    /\ Move(p, Offline)
    /\ UNCHANGED <<bucket, view, running, alive, writes, proxyStarts>>

-----------------------------------------------------------------------------
(* Servers, writers, watchers, proxies.                                    *)

\* A server that dies loses its players, and leaves its key behind.
ServerDies(s) ==
    /\ s \in alive /\ Upset
    /\ alive' = alive \ {s}
    /\ conn' = [p \in Players |-> IF conn[p].server = s THEN At("kicked", NoServer, s) ELSE conn[p]]
    /\ UNCHANGED <<bucket, view, running, writes, proxyStarts>>

ServerStarts(s) ==
    /\ s \notin alive /\ Upset
    /\ alive' = alive \cup {s}
    /\ UNCHANGED <<bucket, view, running, conn, writes, proxyStarts>>

Write(w, m) ==
    /\ m \in Profiles[w] \ {bucket[w]} /\ Upset
    /\ bucket' = [bucket EXCEPT ![w] = m]
    /\ writes' = writes + 1
    /\ UNCHANGED <<view, running, alive, conn, proxyStarts>>

\* The watchers of proxy x reach w's last revision.  The players' watcher is
\* told to ignore deletes.
Refresh(x, w) ==
    /\ x \in running
    /\ view[x][w] # bucket[w]
    /\ ~(w \in Players /\ bucket[w] = NoMeta)
    /\ view' = [view EXCEPT ![x][w] = bucket[w]]
    /\ UNCHANGED <<worldVars, conn>>

\* Gate stops its listeners: the players of the proxy are gone with it.
ProxyStops(x) ==
    /\ x \in running /\ Upset
    /\ running' = running \ {x}
    /\ view' = [view EXCEPT ![x] = [w \in Subjects |-> NoMeta]]
    /\ conn' = [p \in Players |-> IF p \in ClientsOf[x] THEN Offline ELSE conn[p]]
    /\ UNCHANGED <<bucket, alive, writes, proxyStarts>>

\* Plugin.Init starts the watchers and does not wait for them: players may log
\* in before a server is known.
ProxyStarts(x) ==
    /\ x \notin running
    /\ proxyStarts < MaxProxyStarts
    /\ proxyStarts' = proxyStarts + 1
    /\ running' = running \cup {x}
    /\ UNCHANGED <<bucket, view, alive, conn, writes, upsets>>

-----------------------------------------------------------------------------
Routed(p) ==
    \/ \E s \in Servers : Choose(p, s) \/ HandleKicked(p, s)
    \/ NoServerToChoose(p) \/ NoServerToRedirect(p)
    \/ Connects(p) \/ ConnectFails(p) \/ SwitchFails(p)

PlayerStep(p) ==
    \/ Login(p) \/ Routed(p) \/ ServerKicks(p) \/ Quit(p)
    \/ \E q \in Players : Join(p, q)

WorldStep ==
    \/ \E s \in Servers : ServerDies(s) \/ ServerStarts(s)
    \/ \E w \in Subjects : \E m \in Profiles[w] : Write(w, m)

ProxyStep(x) == ProxyStops(x) \/ ProxyStarts(x) \/ \E w \in Subjects : Refresh(x, w)

RoutingNext ==
    \/ \E p \in Players : PlayerStep(p)
    \/ WorldStep
    \/ \E x \in Proxies : ProxyStep(x)

\* Handlers and connections end; rand.Intn leaves no default server out for
\* ever.
RoutingFairness ==
    \A p \in Players :
       /\ WF_conn(Routed(p))
       /\ \A s \in Servers : SF_conn(Choose(p, s) \/ HandleKicked(p, s))

RoutingSpec == RoutingInit /\ [][RoutingNext]_routingVars /\ RoutingFairness

-----------------------------------------------------------------------------
(* Properties.                                                             *)

ConnStates == {"offline", "choosing", "connecting", "playing", "switching", "kicked"}

\* The values each variable takes; a player has a server exactly while it
\* plays on one, and that server is up and the player's proxy runs.
RoutingTypeOK ==
    /\ \A w \in Subjects : bucket[w] \in Profiles[w]
    /\ \A x \in Proxies, w \in Subjects : view[x][w] \in Profiles[w] \cup {NoMeta}
    /\ running \subseteq Proxies /\ alive \subseteq Servers
    /\ \A p \in Players :
          /\ conn[p].st \in ConnStates
          /\ conn[p].server \in alive \cup {NoServer}
          /\ (conn[p].server # NoServer) <=> conn[p].st \in {"playing", "switching"}
          /\ conn[p].st # "offline" => Home[p] \in running
    /\ writes \in 0..MaxUpsets /\ upsets \in 0..MaxUpsets /\ proxyStarts \in 0..MaxProxyStarts

\* A player who logged in or was kicked ends on a server or is disconnected,
\* as long as the proxy knows of a default server that is up: with dead servers
\* still registered, it is kicked and chosen for again until it gets there.
UsableDefault(x) == Defaults(x) \cap alive # {}

KickedPlayersLand ==
    \A p \in Players :
        conn[p].st \in {"choosing", "kicked", "connecting"} ~>
            conn[p].st \in {"playing", "offline"} \/ ~UsableDefault(Home[p])
=============================================================================
