--------------------------- MODULE PlayerDirectory --------------------------
(***************************************************************************)
(* The players package of the proxy (plugins/network/players): a cache of  *)
(* the "players" bucket by UUID, and an index from names to UUIDs, both    *)
(* kept by a watcher goroutine, and an API that changes a player's         *)
(* metadata in the bucket.                                                 *)
(*                                                                         *)
(* metadata.Metadata is a struct of two Go maps: copying it copies         *)
(* references.  So the cache holds objects of a heap, and an API call that *)
(* has read the cache holds the same object.  The object decoded from a    *)
(* bucket entry is named by the entry's revision; the one an API call      *)
(* makes for an unknown player is named by the calling goroutine.          *)
(***************************************************************************)
EXTENDS KVBucket, FiniteSets

CONSTANTS
    Players,      \* UUIDs, the keys of the bucket
    Names,        \* values of the "player/name" annotation
    Notes,        \* other annotations
    Callers,      \* goroutines in a command or an event handler
    NameOf,       \* Players -> Names: the name in the player's game profile
    Renames,      \* names a /metadata command may give
    Foreign,      \* Players -> what the bucket's other writers put
    Tracking,     \* TrackServerConnection and TrackDisconnect are subscribed
    PutsMayFail,  \* a put may be answered by an error
    WatchMayFail, \* WatchAll may be
    ChanCap, MaxRev, MaxRestarts,      \* bounds
    NoName, NoPlayer, NoMeta, Garbage, Location

Metas == [name : Names \cup {NoName}, notes : SUBSET Notes]
Vals == Metas \cup {Garbage, NoMeta}

\* What a modFunc does: name a player, and set annotations.
Changes == [name : Names \cup {NoName}, notes : SUBSET Notes]

ASSUME NamesAssumption == NoName \notin Names /\ NoPlayer \notin Players
ASSUME ValuesAssumption == NoMeta \notin Metas /\ Garbage \notin Metas
ASSUME PlayersAssumption == /\ NameOf \in [Players -> Names]
                            /\ Renames \subseteq Names
                            /\ Foreign \in [Players -> SUBSET (Metas \cup {Garbage})]
                            /\ Location \in Notes
ASSUME SwitchesAssumption == {Tracking, PutsMayFail, WatchMayFail} \subseteq BOOLEAN
ASSUME BoundsAssumption == /\ ChanCap \in Nat \ {0}
                           /\ MaxRev \in Nat
                           /\ MaxRestarts \in Nat
ASSUME ObjectsAssumption == IsFiniteSet(Callers) /\ Callers \cap Nat = {}

VARIABLES
    bucket, cursor, chan,   \* the bucket, what was sent, what was not received
    cached,    \* playersMetadata: player -> object, 0 if absent
    index,     \* nameToUUID: name -> player, NoPlayer if absent
    heap,      \* object -> metadata
    call,      \* Callers -> the API call a goroutine is in
    watching,  \* WatchAll succeeded
    spoiled,   \* history: objects changed by a call whose put failed
    bearers,   \* history: name -> the players it was ever given to
    restarts

watchVars == <<cursor, chan>>
cacheVars == <<cached, index>>
lifeVars == <<watching, restarts>>
historyVars == <<spoiled, bearers>>
vars == <<bucket, cursor, chan, cached, index, heap, call, watching, spoiled, bearers, restarts>>

EmptyMeta == [name |-> NoName, notes |-> {}]
NoCall == [pc |-> "idle", player |-> NoPlayer, change |-> EmptyMeta, ref |-> 0, data |-> EmptyMeta]

Objects == 1..MaxRev \cup Callers

IsCached(p) == cached[p] # 0
MetaOf(p) == heap[cached[p]]

\* The names that commands suggest.
GetPlayersSlice == {n \in Names : index[n] # NoPlayer}

-----------------------------------------------------------------------------
(* InitPlayerSystem, and the proxy dying and starting again.  The bucket   *)
(* was there, or InitializeKVStore makes it.  WatchAll may fail: the       *)
(* goroutine returns, and nothing is ever received.                        *)

Watches == IF WatchMayFail THEN BOOLEAN ELSE {TRUE}

Init ==
    /\ bucket = EmptyBucket(Players, NoMeta)
    /\ cursor = 0
    /\ chan = <<>>
    /\ cached = [p \in Players |-> 0]
    /\ index = [n \in Names |-> NoPlayer]
    /\ heap = [o \in Objects |-> EmptyMeta]
    /\ call = [c \in Callers |-> NoCall]
    /\ watching \in Watches
    /\ spoiled = {}
    /\ bearers = [n \in Names |-> {}]
    /\ restarts = 0

ProxyRestart ==
    /\ restarts < MaxRestarts
    /\ restarts' = restarts + 1
    /\ cursor' = 0
    /\ chan' = <<>>
    /\ cached' = [p \in Players |-> 0]
    /\ index' = [n \in Names |-> NoPlayer]
    /\ heap' = [o \in Objects |-> EmptyMeta]
    /\ call' = [c \in Callers |-> NoCall]
    /\ watching' \in Watches
    /\ spoiled' = {}
    /\ UNCHANGED <<bucket, bearers>>

-----------------------------------------------------------------------------
(* The bucket's other writers, and delivery.  With IgnoreDeletes, nats.go  *)
(* drops a delete marker before it reaches the channel.                    *)

Calling == {c \in Callers : call[c].pc # "idle"}
MayWrite == bucket.seq + Cardinality(Calling) < MaxRev

\* Who bears which names once p is given that of m, if it is metadata.
Bearing(p, m) ==
    [n \in Names |-> IF m \in Metas /\ m.name = n THEN bearers[n] \cup {p} ELSE bearers[n]]

ForeignPut(p, v) ==
    /\ MayWrite
    /\ bucket' = KVPut(bucket, p, v)
    /\ bearers' = Bearing(p, v)
    /\ UNCHANGED <<watchVars, cacheVars, heap, call, lifeVars, spoiled>>

ForeignDelete(p) ==
    /\ MayWrite
    /\ bucket' = KVDelete(bucket, p, NoMeta)
    /\ UNCHANGED <<watchVars, cacheVars, heap, call, lifeVars, historyVars>>

\* Faulty variant: nothing blocks the sender when the channel is full.
DeliverUnbounded(p) ==
    /\ watching
    /\ IsNext(bucket, cursor, p)
    /\ HasValue(bucket, p)
    /\ chan' = Append(chan, EntryOf(bucket, p))
    /\ cursor' = bucket.last[p].rev
    /\ UNCHANGED <<bucket, cacheVars, heap, call, lifeVars, historyVars>>

\* Faulty variant: keys that changed are sent in any order, and the cursor
\* counts them.
DeliverUnordered(p) ==
    /\ watching
    /\ Len(chan) < ChanCap
    /\ bucket.last[p].rev > cursor
    /\ HasValue(bucket, p)
    /\ chan' = Append(chan, EntryOf(bucket, p))
    /\ cursor' = cursor + 1
    /\ UNCHANGED <<bucket, cacheVars, heap, call, lifeVars, historyVars>>

Deliver(p) ==
    /\ watching
    /\ Len(chan) < ChanCap
    /\ IsNext(bucket, cursor, p)
    /\ HasValue(bucket, p)
    /\ chan' = Append(chan, EntryOf(bucket, p))
    /\ cursor' = bucket.last[p].rev
    /\ UNCHANGED <<bucket, cacheVars, heap, call, lifeVars, historyVars>>

\* Faulty variant: a delete empties the cache and not the index.
UncacheDeleted(p) ==
    /\ watching
    /\ IsNext(bucket, cursor, p)
    /\ ~HasValue(bucket, p)
    /\ cursor' = bucket.last[p].rev
    /\ cached' = [cached EXCEPT ![p] = 0]
    /\ UNCHANGED <<bucket, chan, index, heap, call, lifeVars, historyVars>>

DropDelete(p) ==
    /\ watching
    /\ IsNext(bucket, cursor, p)
    /\ ~HasValue(bucket, p)
    /\ cursor' = bucket.last[p].rev
    /\ UNCHANGED <<bucket, chan, cacheVars, heap, call, lifeVars, historyVars>>

-----------------------------------------------------------------------------
(* WatchKVStore and updateLocalCache, which runs under playerMu.           *)

\* The index without the name the cache has for p, if it differs from name.
Unnamed(p, name) ==
    IF IsCached(p) /\ MetaOf(p).name \notin {NoName, name}
    THEN [index EXCEPT ![MetaOf(p).name] = NoPlayer]
    ELSE index

Named(idx, p, name) == IF name = NoName THEN idx ELSE [idx EXCEPT ![name] = p]

\* Faulty variant: the old name stays in the index.
UpdateWithoutUnindexing ==
    LET e == Head(chan) IN
    /\ chan # <<>>
    /\ e.val \in Metas
    /\ chan' = Tail(chan)
    /\ heap' = [heap EXCEPT ![e.rev] = e.val]
    /\ cached' = [cached EXCEPT ![e.key] = e.rev]
    /\ index' = Named(index, e.key, e.val.name)
    /\ UNCHANGED <<bucket, cursor, call, lifeVars, historyVars>>

\* Faulty variant: a player the cache has already is left as it is.
UpdateOnlyNew ==
    LET e == Head(chan) IN
    /\ chan # <<>>
    /\ e.val \in Metas
    /\ chan' = Tail(chan)
    /\ IF IsCached(e.key)
       THEN UNCHANGED <<heap, cacheVars>>
       ELSE /\ heap' = [heap EXCEPT ![e.rev] = e.val]
            /\ cached' = [cached EXCEPT ![e.key] = e.rev]
            /\ index' = Named(index, e.key, e.val.name)
    /\ UNCHANGED <<bucket, cursor, call, lifeVars, historyVars>>

UpdateLocalCache ==
    LET e == Head(chan) IN
    /\ chan # <<>>
    /\ e.val \in Metas
    /\ chan' = Tail(chan)
    /\ heap' = [heap EXCEPT ![e.rev] = e.val]
    /\ cached' = [cached EXCEPT ![e.key] = e.rev]
    /\ index' = Named(Unnamed(e.key, e.val.name), e.key, e.val.name)
    /\ UNCHANGED <<bucket, cursor, call, lifeVars, historyVars>>

SkipGarbage ==
    /\ chan # <<>>
    /\ Head(chan).val \notin Metas
    /\ chan' = Tail(chan)
    /\ UNCHANGED <<bucket, cursor, cacheVars, heap, call, lifeVars, historyVars>>

-----------------------------------------------------------------------------
(* UpdateMetadataByUUID, step by step, in goroutine c.                     *)

Begin(c, p, change) ==
    /\ call[c].pc = "idle"
    /\ MayWrite
    /\ call' = [call EXCEPT ![c] = [NoCall EXCEPT !.pc = "read", !.player = p, !.change = change]]
    /\ bearers' = Bearing(p, change)
    /\ UNCHANGED <<bucket, watchVars, cacheVars, heap, lifeVars, spoiled>>

\* UpdateMetadataByName reads the index without playerMu.
UpdateMetadataByName(c, n, change) == index[n] # NoPlayer /\ Begin(c, index[n], change)

\* /metadata player n set annotation: either a name, or one of the other
\* annotations.  That no player has the name n is an error it ignores.
SetAnnotation(c, n) ==
    \/ \E m \in Renames : UpdateMetadataByName(c, n, [name |-> m, notes |-> {}])
    \/ \E x \in Notes \ {Location} : UpdateMetadataByName(c, n, [name |-> NoName, notes |-> {x}])

\* TrackServerConnection: the player is named, and its location is set.
PlayerConnects(c, p) ==
    Tracking /\ Begin(c, p, [name |-> NameOf[p], notes |-> {Location}])

\* A value without annotations decodes to an object that has no map for them.
LacksMap(p) == IsCached(p) /\ MetaOf(p) = EmptyMeta
IsCommand(c) == Location \notin call[c].change.notes

\* The cached object under RLock, or a new one for an unknown player.
\* SetAnnotation, in a connection's modFunc, makes a map that the cached object
\* does not have: what it changes then is the call's own.
ReadCache(c) ==
    LET p == call[c].player IN
    /\ call[c].pc = "read"
    /\ \E o \in {c, cached[p]} \ {0} :
          /\ o = c => ~IsCached(p) \/ (LacksMap(p) /\ ~IsCommand(c))
          /\ call' = [call EXCEPT ![c].pc = "modify", ![c].ref = o]
    /\ heap' = [heap EXCEPT ![c] = EmptyMeta]
    /\ UNCHANGED <<bucket, watchVars, cacheVars, lifeVars, historyVars>>

Applied(change, m) ==
    [name |-> IF change.name = NoName THEN m.name ELSE change.name,
     notes |-> m.notes \cup change.notes]

\* modFunc writes to the maps of the object it was given, with no lock held.
Modify(c) ==
    /\ call[c].pc = "modify"
    /\ heap' = [heap EXCEPT ![call[c].ref] = Applied(call[c].change, @)]
    /\ call' = [call EXCEPT ![c].pc = "marshal"]
    /\ UNCHANGED <<bucket, watchVars, cacheVars, lifeVars, historyVars>>

Marshal(c) ==
    /\ call[c].pc = "marshal"
    /\ call' = [call EXCEPT ![c].pc = "put", ![c].data = heap[call[c].ref]]
    /\ UNCHANGED <<bucket, watchVars, cacheVars, heap, lifeVars, historyVars>>

Return(c) == call' = [call EXCEPT ![c] = NoCall]

\* The modFunc of /metadata writes to the map as it is, and panics if there is
\* none: the goroutine has changed nothing.
CommandPanics(c) ==
    /\ call[c].pc = "read"
    /\ LacksMap(call[c].player) /\ IsCommand(c)
    /\ Return(c)
    /\ UNCHANGED <<bucket, watchVars, cacheVars, heap, lifeVars, historyVars>>

\* A put whose acknowledgement is lost is stored all the same.
PutMetadata(c) ==
    /\ call[c].pc = "put"
    /\ bucket' = KVPut(bucket, call[c].player, call[c].data)
    /\ Return(c)
    /\ UNCHANGED <<watchVars, cacheVars, heap, lifeVars, historyVars>>

PutFails(c) ==
    /\ PutsMayFail
    /\ call[c].pc = "put"
    /\ spoiled' = spoiled \cup {call[c].ref}
    /\ Return(c)
    /\ UNCHANGED <<bucket, watchVars, cacheVars, heap, lifeVars, bearers>>

deleteMetadataFromKV(p) == bucket' = KVDelete(bucket, p, NoMeta)

\* The key is deleted, and the caches left to the watcher; an error is only
\* logged.
RemovePlayer(p) ==
    /\ MayWrite
    /\ deleteMetadataFromKV(p)
    /\ UNCHANGED <<watchVars, cacheVars, heap, call, lifeVars, historyVars>>

\* TrackDisconnect.
PlayerDisconnects(p) == Tracking /\ RemovePlayer(p)

-----------------------------------------------------------------------------
ForeignStep(p) == ForeignDelete(p) \/ \E v \in Foreign[p] : ForeignPut(p, v)
DeliveryStep == \E p \in Players : Deliver(p) \/ DropDelete(p)
WatcherStep == UpdateLocalCache \/ SkipGarbage

CallStarts(c) ==
    \/ \E n \in Names : SetAnnotation(c, n)
    \/ \E p \in Players : PlayerConnects(c, p)

CallContinues(c) ==
    \/ ReadCache(c) \/ CommandPanics(c) \/ Modify(c) \/ Marshal(c)
    \/ PutMetadata(c) \/ PutFails(c)

Next ==
    \/ \E p \in Players : ForeignStep(p) \/ PlayerDisconnects(p)
    \/ DeliveryStep
    \/ WatcherStep
    \/ \E c \in Callers : CallStarts(c) \/ CallContinues(c)
    \/ ProxyRestart

\* The bucket sends, the watcher loops, and every call returns.
Fairness ==
    /\ WF_vars(DeliveryStep)
    /\ WF_vars(WatcherStep)
    /\ \A c \in Callers : WF_vars(CallContinues(c))

Spec == Init /\ [][Next]_vars
FairSpec == Spec /\ Fairness

-----------------------------------------------------------------------------
(* Properties.                                                             *)

\* The values each variable takes; the revision of a cached object is one that
\* was sent.
TypeOK ==
    /\ bucket \in Buckets(Players, Vals)
    /\ cursor \in 0..bucket.seq
    /\ chan \in Seq(Entries(Players, Vals)) /\ Len(chan) <= ChanCap
    /\ cached \in [Players -> 0..cursor]
    /\ index \in [Names -> Players \cup {NoPlayer}]
    /\ heap \in [Objects -> Metas]
    /\ call \in [Callers -> [pc : {"idle", "read", "modify", "marshal", "put"},
                             player : Players \cup {NoPlayer}, change : Changes,
                             ref : Objects \cup {0}, data : Metas]]
    /\ watching \in BOOLEAN
    /\ spoiled \subseteq Objects
    /\ bearers \in [Names -> SUBSET Players]
    /\ restarts \in 0..MaxRestarts

\* A name in the index leads to metadata: GetMetadataByName, and through it
\* /metadata, never finds half of a player that was suggested.
IndexLeadsToMetadata == \A n \in GetPlayersSlice : IsCached(index[n])

\* Other writers give a player the name of its game profile, or none.
OwnNamesOnly ==
    \A p \in Players : \A v \in Foreign[p] : v \in Metas => v.name \in {NoName, NameOf[p]}

\* No call changes the name a player has: none renames, and a connection gives
\* the name that other writers give.
CallsKeepNames == Renames = {} /\ (Tracking => OwnNamesOnly)

\* A name in the index leads to a player of that name, and not to one who gave
\* it up, as long as no call gives a player another name.
IndexIsTruthful ==
    CallsKeepNames => \A n \in Names : index[n] # NoPlayer => MetaOf(index[n]).name = n

Drained ==
    /\ chan = <<>>
    /\ AllSent(bucket, cursor)
    /\ Calling = {}

\* Once the watcher has caught up, the cache holds what the bucket holds for
\* every player in it, although calls change cached objects before they put
\* them and two calls may share an object; unless the put of a call that changed
\* the cached object failed.
CacheMatchesBucket ==
    Drained =>
        \A p \in Players : HasValue(bucket, p) /\ bucket.last[p].val \in Metas =>
            IsCached(p) /\ (cached[p] \notin spoiled => MetaOf(p) = bucket.last[p].val)

\* What the bucket holds for p is metadata that gives it the name n.
IsNamed(p, n) ==
    /\ HasValue(bucket, p)
    /\ bucket.last[p].val \in Metas
    /\ bucket.last[p].val.name = n

\* Once the watcher has caught up, a name that no other player was ever given
\* leads to the player who has it in the bucket: names that change hands, calls
\* that change cached objects, failed puts and restarts take away no name but
\* those that were shared.
OwnNamesAreFound ==
    Drained =>
        \A p \in Players, n \in Names : IsNamed(p, n) /\ bearers[n] \subseteq {p} => index[n] = p

\* "If name changed or player is new, handle nameToUUID map update"
\* (cache.go:32): once the watcher has caught up, a name that one player has in
\* the bucket leads to that player (no other player having it, or being gone).
NamedPlayersAreFound ==
    Drained =>
        \A p \in Players, n \in Names :
            /\ IsNamed(p, n)
            /\ \A q \in Players \ {p} : bucket.last[q].op # "del" /\ ~IsNamed(q, n)
            => index[n] = p

\* The same comment, of the name a player had: once the watcher has caught up,
\* no name leads to a player who has another one in the bucket.
OldNamesAreForgotten ==
    Drained =>
        \A n \in Names, m \in Names \cup {NoName} :
            index[n] # NoPlayer /\ IsNamed(index[n], m) => m = n

\* "Let the watcher handle cache updates" (api.go:74): once the watcher has
\* caught up, a player removed from the bucket is not in the cache.
RemovedPlayersLeaveCache ==
    Drained => \A p \in Players : bucket.last[p].op = "del" => ~IsCached(p)

\* What is put for a player reaches the cache, unless the player is removed, the
\* value does not parse, or the proxy starts again and cannot watch: no
\* interleaving of calls and deliveries hides it.
PutsReachCache ==
    \A p \in Players :
        (watching /\ bucket.last[p].op = "put" /\ bucket.last[p].val \in Metas) ~>
            (\/ IsCached(p) /\ cached[p] = bucket.last[p].rev
             \/ bucket.last[p].op = "del" \/ bucket.last[p].val = Garbage
             \/ ~watching)

\* What every follower of a bucket promises (see Replica.tla), of the revisions
\* the cached objects were decoded from.
Copy == INSTANCE Replica WITH
            Keys <- Players, clock <- bucket.seq, seen <- cached,
            written <- [p \in Players |-> bucket.last[p].rev]

FollowsBucket == Copy!Spec
=============================================================================
