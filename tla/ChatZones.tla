------------------------------ MODULE ChatZones -----------------------------
(***************************************************************************)
(* The chat zones a player listens to: what TrackServerConnection          *)
(* (players/events.go) writes into the player's metadata when the player   *)
(* changes servers, next to what /metadata and foreign writers put there.  *)
(*                                                                         *)
(* The handler is subscribed nowhere in the proxy's start-up.  The way of  *)
(* the value through the bucket is PlayerDirectory's; here every update    *)
(* has reached the cache before the next one.                              *)
(***************************************************************************)
EXTENDS MetadataOps

CONSTANTS
    GameServers, Zones,
    NoZone,          \* a server without the zone label
    NotKnown,        \* a server without metadata
    Nowhere, NotCached,
    ZonesKey,        \* chatListenZonesAnnotation
    PlaceKey,        \* "network/location"
    TypedValues,     \* what a command may write
    MaxMoves         \* bound: steps

ASSUME MaxMovesAssumption == MaxMoves \in Nat

\* What lists of zones name, what annotations hold, and the values the cache may
\* have of the player.
Listed == Zones \cup UNION {{v[i] : i \in DOMAIN v} : v \in TypedValues \ Texts}
Written == Texts \cup Seq(Listed) \cup GameServers
AnnotationMaps == UNION {[keys -> Written] : keys \in SUBSET {ZonesKey, PlaceKey}}
PlayerValues == [labels : {NilMap, <<>>}, annotations : {NilMap} \cup AnnotationMaps]

\* A text is no list of names, and what stands for nothing is none of the values.
ASSUME ZonesAssumption ==
    /\ ZonesKey # PlaceKey
    /\ NoZone \notin Zones /\ NotKnown \notin Zones /\ Nowhere \notin GameServers
    /\ \A t \in Texts : t \notin Seq(Listed)
    /\ \A v \in TypedValues : v \in Texts \cup Seq(Listed)
    /\ \A keys \in SUBSET {ZonesKey, PlaceKey} : NilMap \notin [keys -> Written]
    /\ NotCached \notin PlayerValues

VARIABLES
    zoneOf,     \* what the servers package knows of each server
    player,     \* the player's metadata in the cache
    at,         \* the server the player is on
    entered,    \* history: the zone of that server when the player came
    tracked,    \* history: each step since the value was made was tracked
    typed,      \* history: the zones were written by a command
    bare,       \* history: another writer's value, not tracked since
    moves

zoneVars == <<zoneOf, player, at, entered, tracked, typed, bare, moves>>

\* UpdateMetadataByUUID makes both maps of a player that is not in the cache.
Fresh == [labels |-> <<>>, annotations |-> <<>>]
Current == IF player = NotCached THEN Fresh ELSE player

ZonesInit ==
    /\ zoneOf \in [GameServers -> Zones \cup {NoZone, NotKnown}]
    /\ player = NotCached
    /\ at = Nowhere /\ entered = NoZone
    /\ tracked = TRUE /\ typed = FALSE /\ bare = FALSE
    /\ moves = 0

Count == moves < MaxMoves /\ moves' = moves + 1

HasZone(z) == z \in Zones

\* Faulty variant: the new zone is added before the old one is removed.
AddedFirst(meta, s) ==
    LET located == SetAnnotation(meta, PlaceKey, s)
        added   == IF HasZone(zoneOf[s]) THEN AddAnnotationStringValue(located, ZonesKey, zoneOf[s]) ELSE located
    IN IF at # Nowhere /\ HasZone(zoneOf[at])
       THEN RemoveAnnotationStringValue(added, ZonesKey, zoneOf[at]) ELSE added

\* The zone of the previous server is looked up as it is known now.
Tracked(meta, s) ==
    LET located == SetAnnotation(meta, PlaceKey, s)
        left    == IF at # Nowhere /\ HasZone(zoneOf[at])
                   THEN RemoveAnnotationStringValue(located, ZonesKey, zoneOf[at]) ELSE located
    IN IF HasZone(zoneOf[s]) THEN AddAnnotationStringValue(left, ZonesKey, zoneOf[s]) ELSE left

\* A server that is not known: nothing is written.
TrackServerConnection(s) ==
    /\ Count
    /\ s # at
    /\ at' = s
    /\ entered' = zoneOf[s]
    /\ player' = IF zoneOf[s] = NotKnown THEN player ELSE Tracked(Current, s)
    /\ tracked' = (tracked /\ zoneOf[s] # NotKnown
                           /\ (at # Nowhere /\ HasZone(entered) => zoneOf[at] = entered))
    /\ bare' = (bare /\ zoneOf[s] = NotKnown)
    /\ UNCHANGED <<zoneOf, typed>>

\* The player leaves.  The cache keeps the value (the watcher is told to ignore
\* deletes) until the proxy restarts.
TrackDisconnect ==
    /\ Count
    /\ at # Nowhere
    /\ at' = Nowhere /\ entered' = NoZone
    /\ \E meta \in {player, NotCached} :
          /\ player' = meta
          /\ tracked' = (meta = NotCached \/ (tracked /\ ~HasZone(entered)))
          /\ typed' = (typed /\ meta # NotCached)
          /\ bare' = (bare /\ meta # NotCached)
    /\ UNCHANGED zoneOf

\* /metadata player ... set annotation key=value writes to the map itself, which
\* must be there.
CommandSets(v) ==
    /\ Count
    /\ player # NotCached /\ player.annotations # NilMap
    /\ player' = [player EXCEPT !.annotations = Assigned(@, ZonesKey, v)]
    /\ typed' = TRUE
    /\ UNCHANGED <<zoneOf, at, entered, tracked, bare>>

\* Another writer puts a value without maps.
ForeignPut ==
    /\ Count
    /\ player' = [labels |-> NilMap, annotations |-> NilMap]
    /\ tracked' = FALSE /\ bare' = TRUE
    /\ UNCHANGED <<zoneOf, at, entered, typed>>

\* A server's metadata is put or deleted.
ServerChanges(s, z) ==
    /\ Count
    /\ z # zoneOf[s]
    /\ zoneOf' = [zoneOf EXCEPT ![s] = z]
    /\ UNCHANGED <<player, at, entered, tracked, typed, bare>>

ZonesNext ==
    \/ \E s \in GameServers :
          \/ TrackServerConnection(s)
          \/ \E z \in Zones \cup {NoZone, NotKnown} : ServerChanges(s, z)
    \/ TrackDisconnect \/ ForeignPut
    \/ \E v \in TypedValues : CommandSets(v)

ZonesSpec == ZonesInit /\ [][ZonesNext]_zoneVars

-----------------------------------------------------------------------------
(* Properties.                                                             *)

ListensTo == GetAnnotationStringSlice(Current, ZonesKey)

\* A player listens to the zone of the server it is on, once, and to no other,
\* as long as every server it came from was still in the zone it had on
\* arrival, was left for another server, and was known.
ZonesFollowServer ==
    tracked /\ ~typed =>
        /\ ~ListensTo.failed /\ Len(ListensTo.values) <= 1
        /\ \A z \in Zones : HasAnnotationStringValue(Current, ZonesKey, z) <=> z = entered

\* A command finds a map to write to, once the proxy has written the player's
\* value itself: writing to a nil map, which another writer's value may have,
\* would end the handler with a panic.
CommandsFindMap == player # NotCached /\ ~bare => player.annotations # NilMap
=============================================================================
