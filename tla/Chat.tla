-------------------------------- MODULE Chat --------------------------------
(***************************************************************************)
(* Chat across the proxies (plugins/network/chat).  A message is published *)
(* on one NATS subject, and every proxy hands it to those of its players   *)
(* whose layers meet the sender's.  The layers are looked up when the      *)
(* message arrives, in the caches of the proxy it arrives at.              *)
(*                                                                         *)
(* NATS keeps the order of a publisher's messages for a subscriber, not    *)
(* that of different publishers, and delivers each at most once.           *)
(***************************************************************************)
EXTENDS Routing

CONSTANTS
    PubLayersKey, SubLayersKey,   \* the chat/*-layers annotations
    LayerNames,                   \* the layers the values name
    MaxMessages                   \* bound: messages

ASSUME MessagesAssumption == MaxMessages \in Nat

Keys == {PubLayersKey, SubLayersKey}

\* The lists of layers are of these layers.
ASSUME LayersAssumption ==
    /\ NoMeta \notin Values
    /\ \A v \in Values, key \in Keys :
          Has(ValueOf[v].annotations, key) =>
              ValueOf[v].annotations[key] \in Texts \cup Seq(LayerNames)

VARIABLES
    inbox,     \* inbox[x][y]: sent by proxy y and not yet handled by x
    heard,     \* Players -> the messages shown in the session, in order
    messages   \* how many were published

chatVars == <<routingVars, inbox, heard, messages>>

\* GetAnnotationStringSlice returns found and no values for a text that is no
\* list; the error is logged.
LayersOf ==
    [v \in Values \cup {NoMeta} |-> [key \in Keys |->
        IF v = NoMeta THEN [found |-> FALSE, failed |-> FALSE, values |-> <<>>]
                      ELSE GetAnnotationStringSlice(ValueOf[v], key)]]

\* The player's own annotation; the server's only when the player has none.
Layers(x, p, s, key) ==
    LET own == LayersOf[view[x][p]][key] IN
    IF own.found \/ s = NoServer THEN own.values ELSE LayersOf[view[x][s]][key].values

ChatInit ==
    /\ RoutingInit
    /\ inbox = [x \in Proxies |-> [y \in Proxies |-> <<>>]]
    /\ heard = [p \in Players |-> <<>>]
    /\ messages = 0

-----------------------------------------------------------------------------
(* What the layers should be, by the bucket: a player's own list when its  *)
(* key has the annotation, the server's otherwise, and nothing of a text   *)
(* that is no list.                                                        *)

Annotated == [v \in Values \cup {NoMeta} |->
                 [key \in Keys |-> v # NoMeta /\ Has(ValueOf[v].annotations, key)]]
Named == [v \in Values |-> [key \in Keys |->
             {l \in LayerNames : /\ Has(ValueOf[v].annotations, key)
                                 /\ ValueOf[v].annotations[key] \notin Texts
                                 /\ Contains(ValueOf[v].annotations[key], l)}]]

SpeaksFor(p, s, key) == IF Annotated[bucket[p]][key] THEN {p} ELSE {s} \ {NoServer}
Tuned(p, s, key) == UNION {Named[bucket[w]][key] : w \in {w \in SpeaksFor(p, s, key) : bucket[w] # NoMeta}}

-----------------------------------------------------------------------------
\* Faulty variant: the sender's proxy shows the message at once.
PublishAndEcho(p) ==
    /\ conn[p].server # NoServer
    /\ messages < MaxMessages
    /\ messages' = messages + 1
    /\ LET m == [id |-> messages', sender |-> p, server |-> conn[p].server,
                 layers |-> Tuned(p, conn[p].server, PubLayersKey), writes |-> writes]
       IN /\ inbox' = [x \in Proxies |->
              IF x \in running THEN [inbox[x] EXCEPT ![Home[p]] = Append(@, m)] ELSE inbox[x]]
          /\ heard' = [heard EXCEPT ![p] = Append(@, [id |-> m.id, sender |-> p])]
    /\ UNCHANGED routingVars

\* Faulty variant: the messages wait for the proxies that do not run.
PublishToAll(p) ==
    /\ conn[p].server # NoServer
    /\ messages < MaxMessages
    /\ messages' = messages + 1
    /\ LET m == [id |-> messages', sender |-> p, server |-> conn[p].server,
                 layers |-> Tuned(p, conn[p].server, PubLayersKey), writes |-> writes]
       IN inbox' = [x \in Proxies |-> [inbox[x] EXCEPT ![Home[p]] = Append(@, m)]]
    /\ UNCHANGED <<routingVars, heard>>

\* PlayerChatEvent: a player without a server is told so, and nothing is sent.
\* The payload carries the sender and the server it is on; layers and writes
\* are history.
Publish(p) ==
    /\ conn[p].server # NoServer
    /\ messages < MaxMessages
    /\ messages' = messages + 1
    /\ LET m == [id |-> messages', sender |-> p, server |-> conn[p].server,
                 layers |-> Tuned(p, conn[p].server, PubLayersKey), writes |-> writes]
       IN inbox' = [x \in Proxies |->
              IF x \in running THEN [inbox[x] EXCEPT ![Home[p]] = Append(@, m)] ELSE inbox[x]]
    /\ UNCHANGED <<routingVars, heard>>

\* The listeners: of whoever is online here, those with a layer of the message.
Listeners(x, pub) ==
    {p \in Online(x) : LET sub == Layers(x, p, conn[p].server, SubLayersKey) IN
                       \E i \in DOMAIN pub : Contains(sub, pub[i])}

Shown(m, listeners) ==
    heard' = [p \in Players |-> IF p \in listeners THEN Append(heard[p], [id |-> m.id, sender |-> m.sender])
                                                   ELSE heard[p]]

Taken(x, y) == inbox' = [inbox EXCEPT ![x][y] = Tail(@)]

\* Faulty variant: the layers of the server the sender is on by now.
DeliverWhereSenderIs(x, y) ==
    /\ inbox[x][y] # <<>> /\ Taken(x, y)
    /\ LET m == Head(inbox[x][y]) IN
       Shown(m, Listeners(x, Layers(x, m.sender, conn[m.sender].server, PubLayersKey)))
    /\ UNCHANGED <<routingVars, messages>>

\* The subscription's callback, message by message.
Deliver(x, y) ==
    /\ inbox[x][y] # <<>> /\ Taken(x, y)
    /\ LET m == Head(inbox[x][y]) IN
       Shown(m, Listeners(x, Layers(x, m.sender, m.server, PubLayersKey)))
    /\ UNCHANGED <<routingVars, messages>>

\* NATS drops a message on its way.
Lose(x, y) ==
    /\ inbox[x][y] # <<>> /\ Upset /\ Taken(x, y)
    /\ UNCHANGED <<bucket, running, alive, writes, proxyStarts, view, conn, heard, messages>>

-----------------------------------------------------------------------------
\* Routing goes on around the messages.  A session that ends forgets what it
\* was shown, and a proxy that stops loses what it had not handled.
Around ==
    /\ heard' = [p \in Players |-> IF conn'[p].st = "offline" THEN <<>> ELSE heard[p]]
    /\ inbox' = [x \in Proxies |-> IF x \in running' THEN inbox[x] ELSE [y \in Proxies |-> <<>>]]
    /\ UNCHANGED messages

Moves == RoutingNext /\ Around

ChatNext ==
    \/ Moves
    \/ \E p \in Players : Publish(p)
    \/ \E x, y \in Proxies : Deliver(x, y) \/ Lose(x, y)

ChatSpec == ChatInit /\ [][ChatNext]_chatVars

-----------------------------------------------------------------------------
(* Properties.                                                             *)

Messages == [id : 1..MaxMessages, sender : Players, server : Servers,
             layers : SUBSET LayerNames, writes : 0..MaxUpsets]

\* The values each variable takes; only proxies that run have messages.
ChatTypeOK ==
    /\ RoutingTypeOK
    /\ \A x, y \in Proxies :
          /\ \A i \in DOMAIN inbox[x][y] :
                inbox[x][y][i] \in Messages /\ Home[inbox[x][y][i].sender] = y
          /\ x \notin running => inbox[x][y] = <<>>
    /\ \A p \in Players : \A i \in DOMAIN heard[p] : heard[p][i] \in [id : 1..messages, sender : Players]
    /\ messages \in 0..MaxMessages

\* A player is shown each message at most once, and one sender's messages in
\* the order they were written, whatever proxy they came through, moves,
\* losses and restarts in between.
HeardInOrder ==
    \A p \in Players : \A i, j \in DOMAIN heard[p] :
        i < j /\ heard[p][i].sender = heard[p][j].sender => heard[p][i].id < heard[p][j].id

\* The audience of a message is decided by where its sender was when it was
\* written and where each listener is when it arrives: once no key changed
\* since and the caches of the proxy have settled, a player is shown it exactly
\* when a layer the sender had then is one the player is tuned to.
Settled(x) == \A w \in Subjects : view[x][w] = bucket[w]
Arrives(x, y) == inbox[x][y] # <<>> /\ Taken(x, y) /\ upsets' = upsets

MessagesFollowTheirSender ==
    [][\A x, y \in Proxies :
          Arrives(x, y) /\ Settled(x) /\ Head(inbox[x][y]).writes = writes =>
             \A p \in Online(x) :
                heard'[p] # heard[p] <=>
                   Head(inbox[x][y]).layers \cap Tuned(p, conn[p].server, SubLayersKey) # {}]_chatVars
=============================================================================
