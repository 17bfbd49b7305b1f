---------------------------- MODULE MetadataCache ---------------------------
(***************************************************************************)
(* The metadata cache of the permissions checker (cache/metadata_cache.go):*)
(* a replica of the keys of a bucket that begin with a prefix, kept by one *)
(* watchForUpdates goroutine.  The player cache and the server cache are   *)
(* two instances that share nothing but the bucket's connection.           *)
(*                                                                         *)
(* After the values a bucket held when the watch began, nats.go sends a    *)
(* marker, a nil entry, which it finds by counting messages; the loop ends *)
(* at the marker.                                                          *)
(***************************************************************************)
EXTENDS KVBucket, FiniteSets

CONSTANTS
    Keys,        \* keys of the bucket that begin with the prefix
    Metas,       \* values that parse as a JSON object
    Garbage,     \* a value that does not
    MaxRev,      \* bound: revisions written to the bucket
    MaxStarts,   \* bound: starts of the service
    ChanCap,     \* bound: entries sent and not yet received
    MayStall,    \* the initial values may take longer than the client waits
    NoMeta, NoKey

ASSUME ValuesAssumption == Garbage \notin Metas /\ NoMeta \notin Metas \cup {Garbage}
ASSUME KeysAssumption == IsFiniteSet(Keys) /\ NoKey \notin Keys
ASSUME BoundsAssumption == /\ MaxRev \in Nat
                           /\ MaxStarts \in Nat
                           /\ ChanCap \in Nat \ {0, 1}
                           /\ MayStall \in BOOLEAN

VARIABLES
    bucket,
    cursor, chan,                       \* last revision sent, entries sent
    initDone, initPending, received,    \* the client's count of initial values
    loop,                               \* down, watching or ended
    cache,                              \* key -> metadata
    applied,     \* history: last revision of each key the loop took
    since,       \* history: the bucket's last revision when the watch began
    stalled,     \* history: the marker was sent by the timer
    starts

sentVars  == <<cursor, chan>>
initVars  == <<initDone, initPending, received>>
cacheVars == <<cache, applied>>
lifeVars  == <<loop, since, stalled, starts>>
vars == <<bucket, cursor, chan, initDone, initPending, received, loop, cache,
          applied, since, stalled, starts>>

Vals == Metas \cup {Garbage, NoMeta}

Marker == [key |-> NoKey, rev |-> 0, op |-> "none", val |-> NoMeta]

\* Messages the consumer has still to deliver: the last one of each key.
Pending(c) == {k \in Keys : bucket.last[k].rev > c}

Init ==
    /\ bucket = EmptyBucket(Keys, NoMeta)
    /\ cursor = 0 /\ chan = <<>>
    /\ initDone = FALSE /\ initPending = 0 /\ received = 0
    /\ loop = "down"
    /\ cache = [k \in Keys |-> NoMeta]
    /\ applied = [k \in Keys |-> 0]
    /\ since = 0 /\ stalled = FALSE /\ starts = 0

-----------------------------------------------------------------------------
(* The bucket's writers.                                                   *)

Put(k, v) ==
    /\ bucket.seq < MaxRev
    /\ bucket' = KVPut(bucket, k, v)
    /\ UNCHANGED <<sentVars, initVars, cacheVars, lifeVars>>

Delete(k) ==
    /\ bucket.seq < MaxRev
    /\ bucket' = KVDelete(bucket, k, NoMeta)
    /\ UNCHANGED <<sentVars, initVars, cacheVars, lifeVars>>

-----------------------------------------------------------------------------
(* The service, and kv.Watch: an empty bucket gets its marker at once.     *)

Start ==
    /\ loop = "down"
    /\ starts < MaxStarts
    /\ starts' = starts + 1
    /\ loop' = "watching"
    /\ since' = bucket.seq
    /\ initDone' = (Pending(0) = {})
    /\ chan' = IF Pending(0) = {} THEN <<Marker>> ELSE <<>>
    /\ UNCHANGED <<bucket, cursor, initPending, received, cacheVars, stalled>>

\* A signal or a crash; what the process held is gone.
Stop ==
    /\ loop # "down"
    /\ starts < MaxStarts
    /\ loop' = "down"
    /\ cursor' = 0 /\ chan' = <<>>
    /\ initDone' = FALSE /\ initPending' = 0 /\ received' = 0
    /\ cache' = [k \in Keys |-> NoMeta]
    /\ applied' = [k \in Keys |-> 0]
    /\ since' = 0 /\ stalled' = FALSE
    /\ UNCHANGED <<bucket, starts>>

-----------------------------------------------------------------------------
(* nats.go's callback: an entry, and the marker after the last initial one.*)

\* Faulty variant: the message that fixes the count is not counted.
IsLastInitialEarly(n, pending, delta) == n >= pending \/ delta = 0

\* The n-th message, of which the first found pending more, leaves delta.
IsLastInitial(n, pending, delta) == n > pending \/ delta = 0

\* Faulty variant: keys that changed are sent in any order, and the cursor
\* counts them.
DeliverUnordered(k) ==
    LET delta == Cardinality(Pending(bucket.last[k].rev)) IN
    /\ loop = "watching"
    /\ Len(chan) + 1 < ChanCap
    /\ bucket.last[k].rev > cursor
    /\ cursor' = cursor + 1
    /\ chan' = Append(chan, EntryOf(bucket, k)) \o IF initDone \/ delta # 0 THEN <<>> ELSE <<Marker>>
    /\ initDone' = (initDone \/ delta = 0)
    /\ UNCHANGED <<bucket, initPending, received, cacheVars, lifeVars>>

Deliver(k) ==
    LET delta   == Cardinality(Pending(bucket.last[k].rev))
        pending == IF initPending = 0 THEN delta ELSE initPending
        last    == ~initDone /\ IsLastInitial(received + 1, pending, delta)
    IN
    /\ loop = "watching"
    /\ Len(chan) + 1 < ChanCap
    /\ IsNext(bucket, cursor, k)
    /\ cursor' = bucket.last[k].rev
    /\ chan' = Append(chan, EntryOf(bucket, k)) \o IF last THEN <<Marker>> ELSE <<>>
    /\ initDone' = (initDone \/ last)
    /\ IF initDone
       THEN UNCHANGED <<initPending, received>>
       ELSE received' = received + 1 /\ initPending' = pending
    /\ UNCHANGED <<bucket, cacheVars, lifeVars>>

\* No message came for as long as the client waits.
InitTimeout ==
    /\ MayStall
    /\ loop = "watching"
    /\ ~initDone
    /\ Len(chan) < ChanCap
    /\ initDone' = TRUE
    /\ stalled' = TRUE
    /\ chan' = Append(chan, Marker)
    /\ UNCHANGED <<bucket, cursor, initPending, received, cacheVars, loop, since, starts>>

-----------------------------------------------------------------------------
(* watchForUpdates.  The cache's mutex is held for one update, so a reader *)
(* sees the cache between two of these steps.                              *)

Receive ==
    /\ loop = "watching"
    /\ chan # <<>>
    /\ chan' = Tail(chan)
    /\ UNCHANGED <<bucket, cursor, initVars, since, stalled, starts>>

Took(e) == applied' = [applied EXCEPT ![e.key] = e.rev] /\ UNCHANGED loop

CachePut ==
    /\ Receive
    /\ Head(chan).op = "put" /\ Head(chan).val \in Metas
    /\ cache' = [cache EXCEPT ![Head(chan).key] = Head(chan).val]
    /\ Took(Head(chan))

CacheDelete ==
    /\ Receive
    /\ Head(chan).op = "del"
    /\ cache' = [cache EXCEPT ![Head(chan).key] = NoMeta]
    /\ Took(Head(chan))

\* Faulty variant: a value that does not parse ends the loop.
EndOnGarbage ==
    /\ Receive
    /\ Head(chan).op = "put" /\ Head(chan).val \notin Metas
    /\ loop' = "ended"
    /\ UNCHANGED cacheVars

\* Logged; what was cached for the key stays.
SkipGarbage ==
    /\ Receive
    /\ Head(chan).op = "put" /\ Head(chan).val \notin Metas
    /\ Took(Head(chan))
    /\ UNCHANGED cache

\* The nil entry: the loop returns, and watcher.Stop ends the subscription.
EndLoop ==
    /\ Receive
    /\ Head(chan) = Marker
    /\ loop' = "ended"
    /\ UNCHANGED cacheVars

-----------------------------------------------------------------------------
WriterStep == \E k \in Keys : Delete(k) \/ \E v \in Metas \cup {Garbage} : Put(k, v)
ClientStep == (\E k \in Keys : Deliver(k)) \/ InitTimeout
LoopStep == CachePut \/ CacheDelete \/ SkipGarbage \/ EndLoop

Next == WriterStep \/ Start \/ Stop \/ ClientStep \/ LoopStep

\* The service is started again when it stops, the consumer delivers, and the
\* loop runs.
Fairness ==
    /\ WF_vars(Start)
    /\ WF_vars(\E k \in Keys : Deliver(k))
    /\ WF_vars(LoopStep)

Spec == Init /\ [][Next]_vars
FairSpec == Spec /\ Fairness

-----------------------------------------------------------------------------
(* Properties.                                                             *)

\* The values each variable takes.
TypeOK ==
    /\ bucket \in Buckets(Keys, Vals)
    /\ cursor \in 0..bucket.seq
    /\ chan \in Seq(Entries(Keys, Vals) \cup {Marker}) /\ Len(chan) <= ChanCap
    /\ initDone \in BOOLEAN
    /\ initPending \in 0..Cardinality(Keys)
    /\ received \in 0..(initPending + 1)
    /\ loop \in {"down", "watching", "ended"}
    /\ cache \in [Keys -> Metas \cup {NoMeta}]
    /\ applied \in [Keys -> 0..cursor]
    /\ since \in 0..bucket.seq
    /\ stalled \in BOOLEAN
    /\ starts \in 0..MaxStarts

\* What the loop should have cached for k if it took its last revision.
CachedValue(k) ==
    IF HasValue(bucket, k) /\ bucket.last[k].val \in Metas THEN bucket.last[k].val ELSE NoMeta

\* When the loop ends, the cache holds every value the bucket held when the
\* watch began and still holds, although keys written meanwhile change what is
\* left to deliver and with it the count the marker is found by; unless the
\* client's timer sent the marker.
InitialValuesCached ==
    loop = "ended" /\ ~stalled =>
        \A k \in Keys : bucket.last[k].rev <= since => cache[k] = CachedValue(k)

\* What every follower of a bucket promises: see Replica.tla.
Copy == INSTANCE Replica WITH
            clock <- bucket.seq, seen <- applied,
            written <- [k \in Keys |-> bucket.last[k].rev]

FollowsBucket == Copy!Spec

\* "watchForUpdates is a generic function to watch for changes in NATS KV"
\* (metadata_cache.go:58): what is written reaches the cache while the service
\* runs.
CatchesUp == Copy!CatchUp
=============================================================================
