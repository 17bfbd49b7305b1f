------------------------ MODULE PlayerDirectoryProofs -----------------------
(***************************************************************************)
(* Theorems about the proxy's player directory, for every set of players,  *)
(* names and goroutines, whatever the bucket's other writers put, and      *)
(* every bound.                                                            *)
(***************************************************************************)
EXTENDS PlayerDirectory, KVBucketProofs, FiniteSetTheorems

-----------------------------------------------------------------------------
(* The kinds of steps.                                                     *)

\* A put or a delete by another writer; a disconnection is a delete too.
OtherWrites ==
    /\ MayWrite
    /\ \E p \in Players, op \in {"put", "del"}, v \in Vals :
          /\ bucket' = Written(bucket, p, op, v)
          /\ op = "put" => v \in Foreign[p] /\ bearers' = Bearing(p, v)
          /\ op = "del" => v = NoMeta /\ UNCHANGED bearers
    /\ UNCHANGED <<cursor, chan, cached, index, heap, call, watching, spoiled, restarts>>

\* A call begins, with the change that a command or a connection makes.
Begins(c) ==
    \E p \in Players, change \in Changes :
        /\ Begin(c, p, change)
        /\ \/ change.name \in {NoName} \cup Renames
           \/ Tracking /\ change.name = NameOf[p]

\* Every step is of one of these kinds.
LEMMA DirectorySteps ==
    ASSUME index \in [Names -> Players \cup {NoPlayer}], [Next]_vars
    PROVE  \/ OtherWrites
           \/ \E p \in Players : Deliver(p) \/ DropDelete(p)
           \/ UpdateLocalCache \/ SkipGarbage
           \/ \E c \in Callers : \/ Begins(c) \/ ReadCache(c) \/ CommandPanics(c) \/ Modify(c)
                                 \/ Marshal(c) \/ PutMetadata(c) \/ PutFails(c)
           \/ ProxyRestart
           \/ UNCHANGED vars
<1>1. ASSUME NEW p \in Players, ForeignStep(p) \/ PlayerDisconnects(p) PROVE OtherWrites
  <2>1. NoMeta \in Vals /\ Foreign[p] \subseteq Vals
    BY PlayersAssumption DEF Vals
  <2>2. CASE ForeignDelete(p) \/ PlayerDisconnects(p)
    BY <2>1, <2>2 DEF ForeignDelete, PlayerDisconnects, RemovePlayer, deleteMetadataFromKV,
       KVDelete, OtherWrites, watchVars, cacheVars, lifeVars, historyVars
  <2>3. CASE \E v \in Foreign[p] : ForeignPut(p, v)
    BY <2>1, <2>3 DEF ForeignPut, KVPut, OtherWrites, watchVars, cacheVars, lifeVars, historyVars
  <2>4. QED
    BY <1>1, <2>2, <2>3 DEF ForeignStep
<1>2. ASSUME NEW c \in Callers, CallStarts(c) PROVE Begins(c)
  <2>1. ASSUME NEW n \in Names, SetAnnotation(c, n) PROVE Begins(c)
    <3>1. ASSUME NEW m \in Renames, UpdateMetadataByName(c, n, [name |-> m, notes |-> {}])
          PROVE  Begins(c)
      <4>1. index[n] \in Players /\ [name |-> m, notes |-> {}] \in Changes
        BY <3>1, PlayersAssumption DEF UpdateMetadataByName, Changes
      <4>2. QED
        BY <3>1, <4>1 DEF UpdateMetadataByName, Begins
    <3>2. ASSUME NEW x \in Notes, UpdateMetadataByName(c, n, [name |-> NoName, notes |-> {x}])
          PROVE  Begins(c)
      <4>1. index[n] \in Players /\ [name |-> NoName, notes |-> {x}] \in Changes
        BY <3>2 DEF UpdateMetadataByName, Changes
      <4>2. QED
        BY <3>2, <4>1 DEF UpdateMetadataByName, Begins
    <3>3. QED
      BY <2>1, <3>1, <3>2 DEF SetAnnotation
  <2>2. ASSUME NEW p \in Players, PlayerConnects(c, p) PROVE Begins(c)
    <3>1. [name |-> NameOf[p], notes |-> {Location}] \in Changes
      BY PlayersAssumption DEF Changes
    <3>2. QED
      BY <2>2, <3>1 DEF PlayerConnects, Begins
  <2>3. QED
    BY <1>2, <2>1, <2>2 DEF CallStarts
<1>3. QED
  BY <1>1, <1>2 DEF Next, DeliveryStep, WatcherStep, CallContinues

\* Who was given a name is not forgotten, and whether the proxy watches is decided
\* when it starts.
LEMMA BearersGrow ==
    ASSUME TypeOK, [Next]_vars
    PROVE  /\ watching' \in BOOLEAN /\ bearers' \in [Names -> SUBSET Players]
           /\ \A n \in Names : bearers[n] \subseteq bearers'[n]
<1>1. /\ index \in [Names -> Players \cup {NoPlayer}] /\ bearers \in [Names -> SUBSET Players]
      /\ watching \in BOOLEAN /\ Watches \subseteq BOOLEAN
  BY SwitchesAssumption DEF TypeOK, Watches
<1>2. ASSUME NEW p \in Players, NEW m, bearers' = Bearing(p, m)
      PROVE  /\ bearers' \in [Names -> SUBSET Players]
             /\ \A n \in Names : bearers[n] \subseteq bearers'[n]
  BY <1>1, <1>2 DEF Bearing
<1>3. CASE OtherWrites
  BY <1>1, <1>2, <1>3 DEF OtherWrites
<1>4. ASSUME NEW c \in Callers, Begins(c)
      PROVE  /\ watching' \in BOOLEAN /\ bearers' \in [Names -> SUBSET Players]
             /\ \A n \in Names : bearers[n] \subseteq bearers'[n]
  BY <1>1, <1>2, <1>4 DEF Begins, Begin, lifeVars
<1>5. CASE ProxyRestart
  BY <1>1, <1>5 DEF ProxyRestart
<1>6. CASE UNCHANGED <<watching, bearers>>
  BY <1>1, <1>6
<1>7. QED
  BY <1>1, <1>3, <1>4, <1>5, <1>6, DirectorySteps
     DEF Deliver, DropDelete, UpdateLocalCache, SkipGarbage, ReadCache, CommandPanics, Modify, Marshal,
         PutMetadata, PutFails, lifeVars, historyVars, vars

-----------------------------------------------------------------------------
(* Type correctness.  That a cached object is named by a revision the      *)
(* bucket gave needs the room that every call under way has for its put;   *)
(* that a new object is nobody's yet needs the order of what waits.        *)

\* Entries wait in the order of their revisions, and are newer than every object
\* that is cached or that a call holds.
SentInOrder ==
    /\ WellNumbered(bucket)
    /\ Ordered(bucket, cursor, chan)
    /\ \A i \in DOMAIN chan :
          /\ chan[i].rev > 0
          /\ \A p \in Players : cached[p] < chan[i].rev
          /\ \A c \in Callers : call[c].ref \in Nat => call[c].ref < chan[i].rev

\* A call has a player; from the time it has read the cache it holds an object that
\* was decoded from an entry, or its own.
CallsUnderWay ==
    \A c \in Callers :
        /\ call[c].pc # "idle" => call[c].player \in Players
        /\ call[c].pc \in {"idle", "read"} => call[c].ref = 0
        /\ call[c].pc \notin {"idle", "read"} => call[c].ref \in 1..cursor \cup {c}

RoomToPut == bucket.seq + Cardinality(Calling) <= MaxRev

TypeInv == TypeOK /\ SentInOrder /\ CallsUnderWay /\ RoomToPut

Sent == Entries(Players, Vals)

Calls == [pc : {"idle", "read", "modify", "marshal", "put"},
          player : Players \cup {NoPlayer}, change : Changes,
          ref : Objects \cup {0}, data : Metas]

\* At first nothing is cached and nobody calls.
LEMMA InitTypeInv == Init => TypeInv
<1> SUFFICES ASSUME Init PROVE TypeInv
  OBVIOUS
<1>1. /\ bucket \in Buckets(Players, Vals) /\ bucket.seq = 0
      /\ WellNumbered(bucket) /\ Ordered(bucket, cursor, chan)
  BY EmptyBucketType, EmptyBucketOrder DEF Init, Vals, EmptyBucket
<1>2. /\ EmptyMeta \in Metas /\ EmptyMeta \in Changes
      /\ NoCall \in [pc : {"idle", "read", "modify", "marshal", "put"},
                     player : Players \cup {NoPlayer}, change : Changes,
                     ref : Objects \cup {0}, data : Metas]
  BY DEF EmptyMeta, Metas, Changes, NoCall
<1>3. Calling = {} /\ Cardinality(Calling) = 0
  BY FS_EmptySet DEF Init, NoCall, Calling
<1>4. TypeOK
  <2>1. watching \in BOOLEAN /\ bearers \in [Names -> SUBSET Players]
    BY SwitchesAssumption DEF Init, Watches
  <2>2. QED
    BY <1>1, <1>2, <2>1, BoundsAssumption DEF Init, TypeOK
<1>5. SentInOrder /\ CallsUnderWay /\ RoomToPut
  BY <1>1, <1>3, BoundsAssumption DEF Init, SentInOrder, CallsUnderWay, RoomToPut, NoCall
<1>6. QED
  BY <1>4, <1>5 DEF TypeInv

\* The callers are counted as they come and go.
LEMMA CallingCounted ==
    /\ IsFiniteSet(Calling) /\ Cardinality(Calling) \in Nat
    /\ \A c \in Callers : /\ c \notin Calling => Cardinality(Calling \cup {c}) = Cardinality(Calling) + 1
                          /\ c \in Calling => Cardinality(Calling \ {c}) = Cardinality(Calling) - 1
<1>1. IsFiniteSet(Calling) /\ Calling \subseteq Callers
  BY ObjectsAssumption, FS_Subset DEF Calling
<1>2. QED
  BY <1>1, FS_CardinalityType, FS_AddElement, FS_RemoveElement

\* An entry that is received names a new object.
LEMMA Received ==
    ASSUME TypeInv, chan # <<>>, chan' = Tail(chan)
    PROVE  LET e == Head(chan) IN
           /\ e \in Sent /\ e.key \in Players /\ e.rev \in 1..cursor /\ e.rev \in Objects /\ e.val \in Vals
           /\ Fits(bucket, e)
           /\ chan' \in Seq(Sent) /\ Len(chan') <= ChanCap /\ Ordered(bucket, cursor, chan')
           /\ \A i \in DOMAIN chan' : chan'[i].rev > e.rev /\ Waits(chan, chan'[i])
           /\ \A d : Waits(chan, d) => d = e \/ Waits(chan', d)
           /\ \A p \in Players : cached[p] < e.rev
           /\ \A c \in Callers : call[c].ref # e.rev /\ (call[c].ref \in Nat => call[c].ref < e.rev)
<1> DEFINE e == Head(chan)
<1>1. /\ chan \in Seq(Sent) /\ Len(chan) <= ChanCap /\ ChanCap \in Nat /\ cursor \in Nat
      /\ Ordered(bucket, cursor, chan) /\ cursor <= bucket.seq /\ bucket.seq \in Nat
  BY BoundsAssumption DEF TypeInv, TypeOK, SentInOrder, Sent, Buckets
<1>2. \A d \in Sent : d.rev \in Nat /\ d.key \in Players /\ d.val \in Vals
  BY DEF Sent, Entries
<1>3. /\ e \in Sent /\ chan' \in Seq(Sent) /\ Len(chan') = Len(chan) - 1
      /\ Ordered(bucket, cursor, chan')
      /\ e.rev > 0 => e.rev <= cursor /\ Fits(bucket, e)
      /\ e.rev > 0 => \A i \in DOMAIN chan' : chan'[i].rev > 0 => e.rev < chan'[i].rev
      /\ Waits(chan, e) /\ \A d : Waits(chan, d) => d = e \/ Waits(chan', d)
      /\ \A d : Waits(chan', d) => Waits(chan, d)
  BY <1>1, <1>2, ReceiptKeepsOrder
<1>4. \A d : Waits(chan, d) => /\ d.rev > 0 /\ \A p \in Players : cached[p] < d.rev
                               /\ \A c \in Callers : call[c].ref \in Nat => call[c].ref < d.rev
  BY DEF TypeInv, SentInOrder, Waits
<1>5. \A i \in DOMAIN chan' : Waits(chan', chan'[i])
  BY DEF Waits
<1>6. \A i \in DOMAIN chan' : chan'[i].rev > e.rev /\ Waits(chan, chan'[i])
  BY <1>3, <1>4, <1>5
<1>7. e.rev \in 1..cursor /\ e.key \in Players /\ e.val \in Vals
  BY <1>1, <1>2, <1>3, <1>4
<1>8. e.rev \in Objects
  <2>1. bucket.seq <= MaxRev /\ MaxRev \in Nat
    BY <1>1, CallingCounted, BoundsAssumption DEF TypeInv, RoomToPut
  <2>2. QED
    BY <1>1, <1>7, <2>1 DEF Objects
<1>9. Len(chan') <= ChanCap
  BY <1>1, <1>3, LenProperties
<1>10. \A c \in Callers : call[c].ref # e.rev /\ (call[c].ref \in Nat => call[c].ref < e.rev)
  BY <1>1, <1>3, <1>4, <1>7
<1>11. QED
  BY <1>3, <1>4, <1>6, <1>7, <1>8, <1>9, <1>10

\* No step gives a variable a value out of its range, or disturbs the order.
LEMMA NextTypeInv == TypeInv /\ [Next]_vars => TypeInv'
<1> SUFFICES ASSUME TypeInv, [Next]_vars PROVE TypeInv'
  OBVIOUS
<1> USE DEF watchVars, cacheVars, lifeVars, historyVars
<1>0. watching' \in BOOLEAN /\ bearers' \in [Names -> SUBSET Players]
  BY BearersGrow DEF TypeInv
<1>1. /\ bucket \in Buckets(Players, Vals) /\ bucket.seq \in Nat /\ cursor \in 0..bucket.seq /\ cursor \in Nat
      /\ chan \in Seq(Sent) /\ Len(chan) <= ChanCap
      /\ cached \in [Players -> 0..cursor] /\ index \in [Names -> Players \cup {NoPlayer}]
      /\ heap \in [Objects -> Metas] /\ call \in [Callers -> Calls]
      /\ spoiled \subseteq Objects /\ restarts \in 0..MaxRestarts
      /\ WellNumbered(bucket) /\ Ordered(bucket, cursor, chan)
  BY DEF TypeInv, TypeOK, SentInOrder, Sent, Calls, Buckets
<1>2. /\ Cardinality(Calling) \in Nat /\ MaxRev \in Nat /\ MaxRestarts \in Nat /\ ChanCap \in Nat \ {0}
      /\ bucket.seq <= MaxRev /\ bucket.seq + Cardinality(Calling) <= MaxRev
  BY <1>1, CallingCounted, BoundsAssumption DEF TypeInv, RoomToPut
<1>3. 1..cursor \subseteq Objects /\ Callers \subseteq Objects /\ Callers \cap Nat = {}
  BY <1>1, <1>2, ObjectsAssumption DEF Objects
<1>4. /\ EmptyMeta \in Metas /\ EmptyMeta \in Changes /\ NoCall \in Calls
      /\ NoCall.pc = "idle" /\ NoCall.ref = 0
  BY DEF EmptyMeta, Metas, Changes, NoCall, Calls
<1>5. \A d \in Sent : d.rev \in Nat /\ d.key \in Players
  BY DEF Sent, Entries
<1>6. ASSUME NEW p \in Players, NEW op \in {"put", "del"}, NEW v \in Vals,
             bucket' = Written(bucket, p, op, v)
      PROVE  /\ bucket' \in Buckets(Players, Vals) /\ bucket'.seq = bucket.seq + 1
             /\ WellNumbered(bucket') /\ Ordered(bucket', cursor, chan)
  <2>1. bucket' \in Buckets(Players, Vals)
    BY <1>1, <1>6, WrittenType DEF Ops
  <2>2. WellNumbered(bucket')
    BY <1>1, <1>6, WrittenNumbered
  <2>3. bucket'.seq = bucket.seq + 1
    BY <1>6 DEF Written
  <2>4. Ordered(bucket', cursor, chan)
    BY <1>1, <1>5, <1>6, WriteKeepsOrder
  <2>5. QED
    BY <2>1, <2>2, <2>3, <2>4
<1>7. CASE OtherWrites
  <2>1. /\ bucket' \in Buckets(Players, Vals) /\ bucket'.seq = bucket.seq + 1
        /\ WellNumbered(bucket') /\ Ordered(bucket', cursor, chan)
    BY <1>6, <1>7 DEF OtherWrites
  <2>2. UNCHANGED <<cursor, chan, cached, index, heap, call, spoiled, restarts>>
    BY <1>7 DEF OtherWrites
  <2>3. bucket.seq + Cardinality(Calling) < MaxRev /\ Calling' = Calling
    BY <1>7, <2>2 DEF OtherWrites, MayWrite, Calling
  <2>4. TypeOK'
    BY <1>1, <2>1, <2>2, <1>0 DEF TypeOK, Sent, Calls
  <2>5. SentInOrder' /\ CallsUnderWay'
    BY <2>1, <2>2 DEF TypeInv, SentInOrder, CallsUnderWay
  <2>6. RoomToPut'
    BY <1>1, <1>2, <2>1, <2>3 DEF RoomToPut
  <2>7. QED
    BY <2>4, <2>5, <2>6 DEF TypeInv
<1>8. ASSUME NEW p \in Players, Deliver(p) PROVE TypeInv'
  <2>1. /\ chan' = Append(chan, EntryOf(bucket, p)) /\ cursor' = bucket.last[p].rev
        /\ Len(chan) < ChanCap /\ IsNext(bucket, cursor, p)
        /\ UNCHANGED <<bucket, cached, index, heap, call, spoiled, restarts>>
    BY <1>8 DEF Deliver
  <2>2. EntryOf(bucket, p) \in Sent /\ EntryOf(bucket, p).rev = cursor'
    BY <1>1, <2>1, EntryOfType DEF Sent
  <2>3. cursor' \in 0..bucket.seq /\ cursor < cursor' /\ cursor' \in Nat
    BY <1>1, <2>1, NothingPassedOver
  <2>4. Ordered(bucket, cursor', chan')
    BY <1>1, <1>5, <2>1, <2>2, DeliveryKeepsOrder
  <2>5. /\ chan' \in Seq(Sent) /\ Len(chan') <= ChanCap
        /\ \A i \in DOMAIN chan' : (i \in DOMAIN chan /\ chan'[i] = chan[i]) \/ chan'[i].rev = cursor'
    BY <1>1, <1>2, <2>1, <2>2, AppendProperties, LenProperties
  <2>6. \A c \in Callers : call[c].ref \in 0..cursor \cup {c} /\ (call[c].ref \in Nat => call[c].ref <= cursor)
    BY <1>1, <1>3 DEF TypeInv, CallsUnderWay
  <2>7. \A i \in DOMAIN chan' : /\ chan'[i].rev > 0
                                /\ \A q \in Players : cached[q] < chan'[i].rev
                                /\ \A c \in Callers : call[c].ref \in Nat => call[c].ref < chan'[i].rev
    <3> TAKE i \in DOMAIN chan'
    <3>1. CASE i \in DOMAIN chan /\ chan'[i] = chan[i]
      BY <3>1 DEF TypeInv, SentInOrder
    <3>2. CASE chan'[i].rev = cursor'
      BY <1>1, <2>3, <2>6, <3>2
    <3>3. QED
      BY <2>5, <3>1, <3>2
  <2>8. cached' \in [Players -> 0..cursor']
    BY <1>1, <2>1, <2>3
  <2>9. TypeOK'
    BY <1>1, <2>1, <2>3, <2>5, <2>8, <1>0 DEF TypeOK, Sent, Calls
  <2>10. SentInOrder'
    BY <1>1, <2>1, <2>4, <2>7 DEF SentInOrder
  <2>11. CallsUnderWay' /\ RoomToPut'
    BY <1>1, <2>1, <2>3 DEF TypeInv, CallsUnderWay, RoomToPut, Calling
  <2>12. QED
    BY <2>9, <2>10, <2>11 DEF TypeInv
<1>9. ASSUME NEW p \in Players, DropDelete(p) PROVE TypeInv'
  <2>1. /\ cursor' = bucket.last[p].rev /\ IsNext(bucket, cursor, p)
        /\ UNCHANGED <<bucket, chan, cached, index, heap, call, spoiled, restarts>>
    BY <1>9 DEF DropDelete
  <2>2. cursor' \in 0..bucket.seq /\ cursor < cursor' /\ cursor' \in Nat
    BY <1>1, <2>1, NothingPassedOver
  <2>3. \A i \in DOMAIN chan : chan[i].rev \in Nat
    BY <1>1, <1>5
  <2>4. Ordered(bucket, cursor', chan)
    BY <1>1, <2>2, <2>3 DEF Ordered
  <2>5. cached' \in [Players -> 0..cursor']
    BY <1>1, <2>1, <2>2
  <2>6. TypeOK'
    BY <1>1, <2>1, <2>2, <2>5, <1>0 DEF TypeOK, Sent, Calls
  <2>7. SentInOrder' /\ CallsUnderWay' /\ RoomToPut'
    BY <1>1, <2>1, <2>2, <2>4 DEF TypeInv, SentInOrder, CallsUnderWay, RoomToPut, Calling
  <2>8. QED
    BY <2>6, <2>7 DEF TypeInv
<1>10. CASE UpdateLocalCache
  <2> DEFINE e == Head(chan)
  <2>1. /\ chan # <<>> /\ chan' = Tail(chan) /\ e.val \in Metas
        /\ heap' = [heap EXCEPT ![e.rev] = e.val] /\ cached' = [cached EXCEPT ![e.key] = e.rev]
        /\ index' = Named(Unnamed(e.key, e.val.name), e.key, e.val.name)
        /\ UNCHANGED <<bucket, cursor, call, spoiled, restarts>>
    BY <1>10 DEF UpdateLocalCache
  <2>2. /\ e.key \in Players /\ e.rev \in 1..cursor /\ e.rev \in Objects
        /\ chan' \in Seq(Sent) /\ Len(chan') <= ChanCap /\ Ordered(bucket, cursor, chan')
        /\ \A i \in DOMAIN chan' : chan'[i].rev > e.rev /\ Waits(chan, chan'[i])
    BY <2>1, Received
  <2>3. index' \in [Names -> Players \cup {NoPlayer}]
    <3>1. Unnamed(e.key, e.val.name) \in [Names -> Players \cup {NoPlayer}]
      BY <1>1 DEF Unnamed
    <3>2. QED
      BY <2>1, <2>2, <3>1 DEF Named
  <2>4. cached' \in [Players -> 0..cursor] /\ heap' \in [Objects -> Metas]
    BY <1>1, <2>1, <2>2
  <2>5. \A i \in DOMAIN chan' : /\ chan'[i].rev > 0
                                /\ \A q \in Players : cached'[q] < chan'[i].rev
                                /\ \A c \in Callers : call[c].ref \in Nat => call[c].ref < chan'[i].rev
    BY <1>1, <2>1, <2>2 DEF TypeInv, SentInOrder, Waits
  <2>6. TypeOK'
    BY <1>1, <2>1, <2>2, <2>3, <2>4, <1>0 DEF TypeOK, Sent, Calls
  <2>7. SentInOrder'
    BY <1>1, <2>1, <2>2, <2>5 DEF SentInOrder
  <2>8. CallsUnderWay' /\ RoomToPut'
    BY <2>1 DEF TypeInv, CallsUnderWay, RoomToPut, Calling
  <2>9. QED
    BY <2>6, <2>7, <2>8 DEF TypeInv
<1>11. CASE SkipGarbage
  <2>1. /\ chan # <<>> /\ chan' = Tail(chan)
        /\ UNCHANGED <<bucket, cursor, cached, index, heap, call, spoiled, restarts>>
    BY <1>11 DEF SkipGarbage
  <2>2. /\ chan' \in Seq(Sent) /\ Len(chan') <= ChanCap /\ Ordered(bucket, cursor, chan')
        /\ \A i \in DOMAIN chan' : Waits(chan, chan'[i])
    BY <2>1, Received
  <2>3. SentInOrder'
    BY <2>1, <2>2 DEF TypeInv, SentInOrder, Waits
  <2>4. QED
    BY <1>0, <2>1, <2>2, <2>3 DEF TypeInv, TypeOK, CallsUnderWay, RoomToPut, Calling, Sent, Calls
<1> DEFINE BucketOK == /\ bucket \in Buckets(Players, Vals) /\ bucket.seq \in Nat /\ cursor \in 0..bucket.seq
                       /\ WellNumbered(bucket) /\ Ordered(bucket, cursor, chan)
<1>12. UNCHANGED <<bucket, cursor, chan>> => BucketOK'
  BY <1>1
<1>13. ASSUME NEW c \in Callers, NEW rec \in Calls, call' = [call EXCEPT ![c] = rec],
              rec.pc # "idle" => rec.player \in Players,
              rec.pc \in {"idle", "read"} => rec.ref = 0,
              rec.pc \notin {"idle", "read"} => rec.ref \in 1..cursor \cup {c} /\ rec.ref \in {call[c].ref, c} \cup {cached[p] : p \in Players},
              BucketOK', RoomToPut',
              heap' \in [Objects -> Metas], spoiled' \subseteq Objects,
              UNCHANGED <<cursor, chan, cached, index, restarts>>
       PROVE  TypeInv'
  <2>1. \A d \in Callers \ {c} : call'[d] = call[d]
    BY <1>1, <1>13
  <2>2. call'[c] = rec /\ call' \in [Callers -> Calls]
    BY <1>1, <1>13
  <2>3. CallsUnderWay'
    BY <1>13, <2>1, <2>2 DEF TypeInv, CallsUnderWay
  <2>4. \A i \in DOMAIN chan : chan[i].rev > 0 /\ (rec.ref \in Nat => rec.ref < chan[i].rev)
    <3>1. c \notin Nat
      BY <1>3
    <3>2. ASSUME NEW i \in DOMAIN chan PROVE chan[i].rev > 0 /\ (rec.ref \in Nat => rec.ref < chan[i].rev)
      <4>1. chan[i].rev > 0 /\ chan[i].rev \in Nat
        BY <1>1, <1>5 DEF TypeInv, SentInOrder
      <4>2. CASE rec.ref = 0
        BY <4>1, <4>2
      <4>3. CASE rec.ref # 0
        <5>1. rec.ref \in {call[c].ref, c} \cup {cached[p] : p \in Players}
          BY <1>13, <4>3
        <5>2. QED
          BY <3>1, <4>1, <5>1 DEF TypeInv, SentInOrder
      <4>4. QED
        BY <4>2, <4>3
    <3>3. QED
      BY <3>2
  <2>5. \A i \in DOMAIN chan : \A d \in Callers : call'[d].ref \in Nat => call'[d].ref < chan[i].rev
    BY <2>1, <2>2, <2>4 DEF TypeInv, SentInOrder
  <2>6. SentInOrder'
    BY <1>13, <2>4, <2>5 DEF TypeInv, SentInOrder
  <2>7. TypeOK'
    BY <1>1, <1>13, <2>2, <1>0 DEF TypeOK, Sent, Calls
  <2>8. QED
    BY <1>13, <2>3, <2>6, <2>7 DEF TypeInv
<1> HIDE DEF BucketOK
<1>14. ASSUME NEW c \in Callers, Begins(c) PROVE TypeInv'
  <2>1. PICK p \in Players, change \in Changes : Begin(c, p, change)
    BY <1>14 DEF Begins
  <2> DEFINE rec == [NoCall EXCEPT !.pc = "read", !.player = p, !.change = change]
  <2>2. /\ call' = [call EXCEPT ![c] = rec] /\ call[c].pc = "idle"
        /\ bucket.seq + Cardinality(Calling) < MaxRev
        /\ UNCHANGED <<bucket, cursor, chan, cached, index, heap, spoiled, restarts>>
    BY <2>1 DEF Begin, MayWrite
  <2>3. rec \in Calls /\ rec.pc = "read" /\ rec.player = p /\ rec.ref = 0
    BY <1>4 DEF NoCall, Calls
  <2>4. Calling' = Calling \cup {c} /\ c \notin Calling
    BY <1>1, <2>2, <2>3 DEF Calling
  <2>5. Cardinality(Calling') = Cardinality(Calling) + 1
    BY <2>4, CallingCounted
  <2>6. RoomToPut'
    BY <1>1, <1>2, <2>2, <2>5 DEF RoomToPut
  <2> HIDE DEF rec
  <2>7. QED
    BY <1>1, <1>12, <1>13, <2>2, <2>3, <2>6
<1>15. ASSUME NEW c \in Callers, call[c].pc # "idle", call'[c].pc # "idle",
              \A d \in Callers \ {c} : call'[d] = call[d], UNCHANGED bucket
       PROVE  RoomToPut'
  BY <1>15 DEF TypeInv, RoomToPut, Calling
<1>16. ASSUME NEW c \in Callers, ReadCache(c) PROVE TypeInv'
  <2> DEFINE p == call[c].player
  <2>0. PICK o \in {c, cached[p]} \ {0} : call' = [call EXCEPT ![c].pc = "modify", ![c].ref = o]
    BY <1>16 DEF ReadCache
  <2> DEFINE rec == [call[c] EXCEPT !.pc = "modify", !.ref = o]
  <2>1. /\ call' = [call EXCEPT ![c] = rec] /\ call[c].pc = "read"
        /\ heap' = [heap EXCEPT ![c] = EmptyMeta]
        /\ UNCHANGED <<bucket, cursor, chan, cached, index, spoiled, restarts>>
    BY <1>1, <1>16, <2>0 DEF ReadCache
  <2>2. p \in Players
    BY <2>1 DEF TypeInv, CallsUnderWay
  <2>3. o \in 1..cursor \cup {c} /\ o \in {cached[q] : q \in Players} \cup {c}
    BY <1>1, <2>0, <2>2
  <2>4. rec \in Calls /\ rec.pc = "modify" /\ rec.player = p /\ rec.ref = o
    BY <1>1, <1>3, <2>3 DEF Calls
  <2>5. heap' \in [Objects -> Metas]
    BY <1>1, <1>4, <2>1
  <2>6. RoomToPut'
    BY <1>1, <1>15, <2>1, <2>4
  <2> HIDE DEF p, rec
  <2>7. QED
    BY <1>1, <1>12, <1>13, <2>1, <2>2, <2>3, <2>4, <2>5, <2>6
<1>17. ASSUME NEW c \in Callers, Modify(c) PROVE TypeInv'
  <2> DEFINE rec == [call[c] EXCEPT !.pc = "marshal"]
  <2>1. /\ call' = [call EXCEPT ![c] = rec] /\ call[c].pc = "modify"
        /\ heap' = [heap EXCEPT ![call[c].ref] = Applied(call[c].change, heap[call[c].ref])]
        /\ UNCHANGED <<bucket, cursor, chan, cached, index, spoiled, restarts>>
    BY <1>1, <1>17 DEF Modify
  <2>2. call[c].player \in Players /\ call[c].ref \in 1..cursor \cup {c}
    BY <2>1 DEF TypeInv, CallsUnderWay
  <2>3. rec \in Calls /\ rec.pc = "marshal" /\ rec.player = call[c].player /\ rec.ref = call[c].ref
    BY <1>1 DEF Calls
  <2>4. Applied(call[c].change, heap[call[c].ref]) \in Metas
    BY <1>1, <1>3, <2>2 DEF Calls, Applied, Metas, Changes
  <2>5. heap' \in [Objects -> Metas]
    BY <1>1, <2>1, <2>4
  <2>6. RoomToPut'
    BY <1>1, <1>15, <2>1, <2>3
  <2> HIDE DEF rec
  <2>7. QED
    BY <1>1, <1>12, <1>13, <2>1, <2>2, <2>3, <2>5, <2>6
<1>18. ASSUME NEW c \in Callers, Marshal(c) PROVE TypeInv'
  <2> DEFINE rec == [call[c] EXCEPT !.pc = "put", !.data = heap[call[c].ref]]
  <2>1. /\ call' = [call EXCEPT ![c] = rec] /\ call[c].pc = "marshal"
        /\ UNCHANGED <<bucket, cursor, chan, cached, index, heap, spoiled, restarts>>
    BY <1>1, <1>18 DEF Marshal
  <2>2. call[c].player \in Players /\ call[c].ref \in 1..cursor \cup {c}
    BY <2>1 DEF TypeInv, CallsUnderWay
  <2>3. rec \in Calls /\ rec.pc = "put" /\ rec.player = call[c].player /\ rec.ref = call[c].ref
    BY <1>1, <1>3, <2>2 DEF Calls
  <2>4. RoomToPut'
    BY <1>1, <1>15, <2>1, <2>3
  <2> HIDE DEF rec
  <2>5. QED
    BY <1>1, <1>12, <1>13, <2>1, <2>2, <2>3, <2>4
<1>19. ASSUME NEW c \in Callers, call[c].pc # "idle", Return(c),
              bucket'.seq \in {bucket.seq, bucket.seq + 1}
       PROVE  RoomToPut'
  <2>1. Calling' = Calling \ {c} /\ c \in Calling
    BY <1>1, <1>4, <1>19 DEF Return, Calling
  <2>2. QED
    BY <1>1, <1>2, <1>19, <2>1, CallingCounted DEF RoomToPut
<1>20. ASSUME NEW c \in Callers, PutMetadata(c) PROVE TypeInv'
  <2>1. /\ call[c].pc = "put" /\ Return(c)
        /\ bucket' = Written(bucket, call[c].player, "put", call[c].data)
        /\ UNCHANGED <<cursor, chan, cached, index, heap, spoiled, restarts>>
    BY <1>20 DEF PutMetadata, KVPut
  <2>2. call[c].player \in Players /\ call[c].data \in Vals
    BY <1>1, <2>1 DEF TypeInv, CallsUnderWay, Vals, Calls
  <2>3. /\ bucket' \in Buckets(Players, Vals) /\ bucket'.seq = bucket.seq + 1
        /\ WellNumbered(bucket') /\ Ordered(bucket', cursor, chan)
    BY <1>6, <2>1, <2>2
  <2>4. RoomToPut'
    BY <1>19, <2>1, <2>3
  <2>5. BucketOK'
    BY <1>1, <2>1, <2>3 DEF BucketOK
  <2>6. QED
    BY <1>1, <1>4, <1>13, <2>1, <2>3, <2>4, <2>5 DEF Return
<1>4b. ASSUME NEW c \in Callers, PutFails(c) PROVE TypeInv'
  <2>1. /\ call[c].pc = "put" /\ Return(c) /\ spoiled' = spoiled \cup {call[c].ref}
        /\ UNCHANGED <<bucket, cursor, chan, cached, index, heap, restarts>>
    BY <1>4b DEF PutFails
  <2>2. call[c].ref \in Objects
    BY <1>3, <2>1 DEF TypeInv, CallsUnderWay
  <2>3. RoomToPut'
    BY <1>19, <2>1
  <2>4. QED
    BY <1>1, <1>4, <1>12, <1>13, <2>1, <2>2, <2>3 DEF Return
<1>25. ASSUME NEW c \in Callers, CommandPanics(c) PROVE TypeInv'
  <2>1. /\ call[c].pc = "read" /\ Return(c)
        /\ UNCHANGED <<bucket, cursor, chan, cached, index, heap, spoiled, restarts>>
    BY <1>25 DEF CommandPanics
  <2>2. RoomToPut'
    BY <1>19, <2>1
  <2>3. QED
    BY <1>1, <1>4, <1>12, <1>13, <2>1, <2>2 DEF Return
<1>22. CASE ProxyRestart
  <2>1. /\ cursor' = 0 /\ chan' = <<>> /\ UNCHANGED bucket
        /\ cached' = [p \in Players |-> 0] /\ index' = [n \in Names |-> NoPlayer]
        /\ heap' = [o \in Objects |-> EmptyMeta] /\ call' = [c \in Callers |-> NoCall]
        /\ spoiled' = {} /\ restarts' \in 0..MaxRestarts
    BY <1>1, <1>2, <1>22 DEF ProxyRestart
  <2>2. Ordered(bucket, 0, <<>>)
    BY <1>1, NothingSent
  <2>3. TypeOK'
    BY <1>1, <1>2, <1>4, <2>1, <1>0 DEF TypeOK, Sent, Calls
  <2>4. SentInOrder' /\ CallsUnderWay'
    BY <1>1, <1>4, <2>1, <2>2 DEF SentInOrder, CallsUnderWay
  <2>5. Calling' = {} /\ RoomToPut'
    <3>1. Calling' = {}
      BY <1>4, <2>1 DEF Calling
    <3>2. QED
      BY <1>1, <1>2, <2>1, <3>1, FS_EmptySet DEF RoomToPut
  <2>6. QED
    BY <2>3, <2>4, <2>5 DEF TypeInv
<1>23. CASE UNCHANGED vars
  BY <1>23 DEF vars, TypeInv, TypeOK, SentInOrder, CallsUnderWay, RoomToPut, Calling
<1>24. QED
  BY <1>1, <1>7, <1>8, <1>9, <1>10, <1>11, <1>14, <1>16, <1>17, <1>18, <1>20, <1>4b, <1>22,
     <1>23, <1>25, DirectorySteps

\* Every variable has its type: no interleaving of calls and deliveries names an
\* object by a revision the bucket did not give.
THEOREM DirectoryTypeCorrect == Spec => []TypeOK
BY InitTypeInv, NextTypeInv, PTL DEF Spec, TypeInv

-----------------------------------------------------------------------------
(* The directory as a replica of the bucket, and its index.                *)

\* The cache takes over revisions in the order they were written, never one nobody
\* wrote, and begins again from nothing when the proxy does; deletes it leaves out.
THEOREM DirectoryFollowsBucket == Spec => FollowsBucket
<1> USE DEF Copy!vars
<1>1. Init => Copy!Init
  BY DEF Init, EmptyBucket, Copy!Init
<1>2. ASSUME TypeInv, [Next]_vars PROVE [Copy!Next]_(Copy!vars)
  <2>1. /\ bucket \in Buckets(Players, Vals) /\ index \in [Names -> Players \cup {NoPlayer}]
        /\ cached \in [Players -> 0..cursor]
    BY <1>2 DEF TypeInv, TypeOK
  <2>2. CASE OtherWrites \/ \E c \in Callers : PutMetadata(c)
    <3>1. PICK p \in Players, op \in {"put", "del"}, v \in Vals :
              bucket' = Written(bucket, p, op, v) /\ UNCHANGED cached
      <4>1. CASE OtherWrites
        BY <4>1 DEF OtherWrites
      <4>2. ASSUME NEW c \in Callers, PutMetadata(c)
            PROVE  \E p \in Players, op \in {"put", "del"}, v \in Vals :
                       bucket' = Written(bucket, p, op, v) /\ UNCHANGED cached
        <5>1. call[c].player \in Players /\ call[c].data \in Vals
          BY <1>2, <4>2 DEF PutMetadata, TypeInv, TypeOK, CallsUnderWay, Vals
        <5>2. QED
          BY <4>2, <5>1 DEF PutMetadata, KVPut, cacheVars
      <4>3. QED
        BY <2>2, <4>1, <4>2
    <3>2. Copy!Write(p)
      BY <2>1, <3>1 DEF Written, Buckets, Revisions, Copy!Write
    <3>3. QED
      BY <3>2 DEF Copy!Next
  <2>3. CASE \E p \in Players : Deliver(p) \/ DropDelete(p)
    BY <2>3 DEF Deliver, DropDelete, cacheVars
  <2>4. CASE UpdateLocalCache
    <3> DEFINE e == Head(chan)
    <3>1. /\ chan # <<>> /\ chan' = Tail(chan) /\ UNCHANGED bucket
          /\ cached' = [cached EXCEPT ![e.key] = e.rev]
      BY <2>4 DEF UpdateLocalCache
    <3>2. /\ e.key \in Players /\ e.rev \in 1..cursor /\ Fits(bucket, e)
          /\ \A p \in Players : cached[p] < e.rev
      BY <1>2, <3>1, Received
    <3>3. e.rev \in 1..bucket.last[e.key].rev
      BY <2>1, <3>2 DEF Fits, Buckets, Revisions
    <3>4. Copy!TakeOver(e.key)
      BY <3>1, <3>2, <3>3 DEF Copy!TakeOver
    <3>5. QED
      BY <3>2, <3>4 DEF Copy!Next
  <2>5. CASE SkipGarbage
    BY <2>5 DEF SkipGarbage, cacheVars
  <2>6. ASSUME NEW c \in Callers,
               Begins(c) \/ ReadCache(c) \/ CommandPanics(c) \/ Modify(c) \/ Marshal(c) \/ PutFails(c)
        PROVE  UNCHANGED Copy!vars
    BY <2>6 DEF Begins, Begin, ReadCache, CommandPanics, Modify, Marshal, PutFails, cacheVars
  <2>7. CASE ProxyRestart
    BY <2>7 DEF ProxyRestart, Copy!Next, Copy!Restart
  <2>8. CASE UNCHANGED vars
    BY <2>8 DEF vars
  <2>9. QED
    BY <1>2, <2>1, <2>2, <2>3, <2>4, <2>5, <2>6, <2>7, <2>8, DirectorySteps
<1>3. QED
  BY InitTypeInv, NextTypeInv, <1>1, <1>2, PTL DEF Spec, FollowsBucket, Copy!Spec

\* An update takes the player's old name out of the index and puts the new one in.
LEMMA IndexUpdated ==
    ASSUME TypeInv, UpdateLocalCache
    PROVE  LET e == Head(chan) IN
           /\ e.val.name # NoName => index'[e.val.name] = e.key
           /\ \A n \in Names :
                 /\ index'[n] = e.key => n = e.val.name \/ index[n] = e.key
                 /\ index'[n] \notin {NoPlayer, e.key} => index'[n] = index[n]
                 /\ n # e.val.name /\ IsCached(e.key) /\ MetaOf(e.key).name = n => index'[n] = NoPlayer
                 /\ n # e.val.name /\ (IsCached(e.key) => MetaOf(e.key).name # n) => index'[n] = index[n]
<1> DEFINE e == Head(chan)
<1>1. index' = Named(Unnamed(e.key, e.val.name), e.key, e.val.name) /\ e.val \in Metas
  BY DEF UpdateLocalCache
<1>2. e.key \in Players /\ index \in [Names -> Players \cup {NoPlayer}]
  BY Received DEF UpdateLocalCache, TypeInv, TypeOK
<1>3. e.val.name \in Names \cup {NoName} /\ NoName \notin Names /\ NoPlayer \notin Players
  BY <1>1, NamesAssumption DEF Metas
<1> DEFINE u == Unnamed(e.key, e.val.name)
<1>4. /\ u \in [Names -> Players \cup {NoPlayer}]
      /\ \A n \in Names : u[n] = IF n # e.val.name /\ IsCached(e.key) /\ MetaOf(e.key).name = n
                                 THEN NoPlayer ELSE index[n]
  BY <1>2, <1>3 DEF Unnamed
<1>5. \A n \in Names : index'[n] = IF n = e.val.name THEN e.key ELSE u[n]
  BY <1>1, <1>3, <1>4 DEF Named
<1> HIDE DEF u
<1>6. QED
  BY <1>2, <1>3, <1>4, <1>5

\* A name that is suggested has metadata behind it, at every moment.
THEOREM IndexAlwaysLeadsToMetadata == Spec => []IndexLeadsToMetadata
<1>1. Init => IndexLeadsToMetadata
  BY DEF Init, IndexLeadsToMetadata, GetPlayersSlice
<1>2. ASSUME TypeInv, IndexLeadsToMetadata, [Next]_vars PROVE IndexLeadsToMetadata'
  <2>1. index \in [Names -> Players \cup {NoPlayer}] /\ cached \in [Players -> 0..cursor]
    BY <1>2 DEF TypeInv, TypeOK
  <2>2. CASE UpdateLocalCache
    <3> DEFINE e == Head(chan)
    <3>1. cached' = [cached EXCEPT ![e.key] = e.rev] /\ e.key \in Players /\ e.rev # 0
      BY <1>2, <2>2, Received DEF UpdateLocalCache
    <3>2. \A n \in Names : index'[n] = e.key \/ index'[n] = NoPlayer \/ index'[n] = index[n]
      BY <1>2, <2>2, IndexUpdated
    <3>3. \A p \in Players : IsCached(p) => cached'[p] # 0
      BY <2>1, <3>1 DEF IsCached
    <3>4. QED
      BY <1>2, <2>1, <3>1, <3>2, <3>3 DEF IndexLeadsToMetadata, GetPlayersSlice, IsCached
  <2>3. CASE ProxyRestart
    BY <2>3 DEF ProxyRestart, IndexLeadsToMetadata, GetPlayersSlice
  <2>4. CASE UNCHANGED <<index, cached>>
    BY <1>2, <2>4 DEF IndexLeadsToMetadata, GetPlayersSlice, IsCached
  <2>5. \/ UpdateLocalCache \/ ProxyRestart \/ UNCHANGED <<index, cached>>
    BY <1>2, <2>1, DirectorySteps DEF OtherWrites, Deliver, DropDelete, SkipGarbage, Begins, Begin,
       ReadCache, CommandPanics, Modify, Marshal, PutMetadata, PutFails, cacheVars, vars
  <2>6. QED
    BY <2>2, <2>3, <2>4, <2>5
<1>3. QED
  BY InitTypeInv, NextTypeInv, <1>1, <1>2, PTL DEF Spec

-----------------------------------------------------------------------------
(* Objects.  The maps of a cached object are changed by the calls that hold *)
(* it; that no call changes another player's object rests on each having   *)
(* one holder.                                                             *)

\* Player p's metadata is the object o in the cache, or in a call for p.
Holds(p, o) ==
    \/ cached[p] = o
    \/ \E c \in Callers : call[c].player = p /\ call[c].ref = o

OneHolder == \A o \in Objects : \A p, q \in Players : Holds(p, o) /\ Holds(q, o) => p = q

\* At first nobody holds any.
LEMMA InitOneHolder == Init => OneHolder
<1> SUFFICES ASSUME Init PROVE \A p \in Players : \A o \in Objects : ~Holds(p, o)
  BY DEF OneHolder
<1>1. 0 \notin Objects
  BY ObjectsAssumption DEF Objects
<1>2. QED
  BY <1>1 DEF Init, NoCall, Holds

\* An update takes a new object; a call takes the one that is cached for its
\* player, or its own.
LEMMA NextOneHolder == TypeInv /\ OneHolder /\ [Next]_vars => OneHolder'
<1> SUFFICES ASSUME TypeInv, OneHolder, [Next]_vars PROVE OneHolder'
  OBVIOUS
<1> USE DEF watchVars, cacheVars, lifeVars, historyVars
<1>1. /\ cached \in [Players -> 0..cursor] /\ cursor \in Nat /\ call \in [Callers -> Calls]
      /\ index \in [Names -> Players \cup {NoPlayer}]
  BY DEF TypeInv, TypeOK, Calls, Buckets
<1>2. 0 \notin Objects /\ Callers \cap Nat = {}
  BY ObjectsAssumption DEF Objects
<1>3. ASSUME \A p \in Players : \A o \in Objects : Holds(p, o)' => Holds(p, o) PROVE OneHolder'
  BY <1>3 DEF OneHolder
<1>4. CASE UNCHANGED <<cached, call>>
  BY <1>3, <1>4 DEF Holds
<1>5. CASE UpdateLocalCache
  <2> DEFINE e == Head(chan)
  <2>1. /\ cached' = [cached EXCEPT ![e.key] = e.rev] /\ UNCHANGED call
        /\ chan # <<>> /\ chan' = Tail(chan)
    BY <1>5 DEF UpdateLocalCache
  <2>2. /\ e.key \in Players /\ e.rev \in Nat
        /\ \A p \in Players : cached[p] < e.rev
        /\ \A c \in Callers : call[c].ref # e.rev
    BY <1>1, <2>1, Received
  <2> HIDE DEF e
  <2>3. ASSUME NEW p \in Players, NEW o \in Objects, o = e.rev, Holds(p, o)' PROVE p = e.key
    <3>1. cached[p] < e.rev /\ cached[p] \in Nat
      BY <1>1, <2>2
    <3>2. ~\E c \in Callers : call'[c].player = p /\ call'[c].ref = o
      BY <2>1, <2>2, <2>3
    <3>3. cached'[p] = e.rev
      BY <2>3, <3>2 DEF Holds
    <3>4. QED
      BY <1>1, <2>1, <2>2, <3>1, <3>3
  <2>4. ASSUME NEW p \in Players, NEW o \in Objects, o # e.rev, Holds(p, o)' PROVE Holds(p, o)
    BY <1>1, <2>1, <2>2, <2>4 DEF Holds
  <2>5. QED
    BY <2>3, <2>4 DEF OneHolder
<1>6. ASSUME NEW c \in Callers, NEW rec, call' = [call EXCEPT ![c] = rec], UNCHANGED cached,
             rec.ref = 0 \/ (rec.ref = call[c].ref /\ rec.player = call[c].player)
      PROVE  OneHolder'
  <2>1. ASSUME NEW p \in Players, NEW o \in Objects, Holds(p, o)' PROVE Holds(p, o)
    <3>1. CASE cached[p] = o
      BY <3>1 DEF Holds
    <3>2. CASE \E d \in Callers : call'[d].player = p /\ call'[d].ref = o
      BY <1>1, <1>2, <1>6, <3>2 DEF Holds
    <3>3. QED
      BY <1>6, <2>1, <3>1, <3>2 DEF Holds
  <2>2. QED
    BY <1>3, <2>1
<1>7. ASSUME NEW c \in Callers, Begins(c) PROVE OneHolder'
  <2>1. PICK p \in Players, change \in Changes :
            /\ call' = [call EXCEPT ![c] = [NoCall EXCEPT !.pc = "read", !.player = p, !.change = change]]
            /\ UNCHANGED cached
    BY <1>7 DEF Begins, Begin
  <2> DEFINE rec == [NoCall EXCEPT !.pc = "read", !.player = p, !.change = change]
  <2>2. rec.ref = 0
    BY DEF NoCall
  <2> HIDE DEF rec
  <2>3. QED
    BY <1>6, <2>1, <2>2 DEF rec
<1>8. ASSUME NEW c \in Callers, ReadCache(c) PROVE OneHolder'
  <2> DEFINE p == call[c].player
  <2>0. PICK o \in {c, cached[p]} : call' = [call EXCEPT ![c].pc = "modify", ![c].ref = o]
    BY <1>8 DEF ReadCache
  <2>1. /\ call' = [call EXCEPT ![c].pc = "modify", ![c].ref = o] /\ UNCHANGED cached
        /\ p \in Players
    BY <1>8, <2>0 DEF ReadCache, TypeInv, CallsUnderWay
  <2>2. /\ call'[c].player = p /\ call'[c].ref = o
        /\ \A d \in Callers \ {c} : call'[d] = call[d]
    BY <1>1, <2>1 DEF Calls
  <2>3. ASSUME NEW q \in Players, NEW x \in Objects, Holds(q, x)' PROVE Holds(q, x) \/ (q = p /\ x = o)
    BY <2>1, <2>2, <2>3 DEF Holds
  <2>4. ASSUME NEW q \in Players, Holds(q, o), o \in Objects PROVE q = p
    <3>1. CASE o = cached[p]
      <4>1. Holds(p, o)
        BY <3>1 DEF Holds
      <4>2. QED
        BY <2>1, <2>4, <4>1 DEF OneHolder
    <3>2. CASE o = c
      <4>1. o = c /\ c \notin Nat
        BY <1>2, <3>2
      <4>2. cached[q] # c
        BY <1>1, <4>1
      <4>3. \A d \in Callers : call[d].ref = c => d = c
        BY <1>1, <1>2, <4>1 DEF TypeInv, CallsUnderWay
      <4>4. QED
        BY <2>4, <4>1, <4>2, <4>3 DEF Holds
    <3>3. QED
      BY <2>0, <3>1, <3>2
  <2> HIDE DEF p
  <2>5. QED
    BY <2>3, <2>4 DEF OneHolder
<1>9. ASSUME NEW c \in Callers, Modify(c) \/ Marshal(c) PROVE OneHolder'
  <2>1. /\ call' = [call EXCEPT ![c] = call'[c]] /\ UNCHANGED cached
        /\ call'[c].ref = call[c].ref /\ call'[c].player = call[c].player
    BY <1>1, <1>9 DEF Modify, Marshal, Calls
  <2>2. QED
    BY <1>6, <2>1
<1>10. ASSUME NEW c \in Callers, CommandPanics(c) \/ PutMetadata(c) \/ PutFails(c) PROVE OneHolder'
  <2>1. call' = [call EXCEPT ![c] = NoCall] /\ UNCHANGED cached /\ NoCall.ref = 0
    BY <1>10 DEF CommandPanics, PutMetadata, PutFails, Return, NoCall
  <2>2. QED
    BY <1>6, <2>1
<1>11. CASE ProxyRestart
  BY <1>2, <1>3, <1>11 DEF ProxyRestart, NoCall, Holds
<1>12. QED
  BY <1>1, <1>4, <1>5, <1>7, <1>8, <1>9, <1>10, <1>11, DirectorySteps
     DEF OtherWrites, Deliver, DropDelete, SkipGarbage, vars

-----------------------------------------------------------------------------
(* What the cache shows.  A call changes the cached object before it puts   *)
(* it: until the put is answered the cache is ahead of the bucket.          *)

HoldsMeta(p) == HasValue(bucket, p) /\ bucket.last[p].val \in Metas

\* The last revision of p is not lost: it is not sent yet, or waits, or was taken.
Accounted(p) ==
    \/ bucket.last[p].rev > cursor
    \/ Waits(chan, EntryOf(bucket, p))
    \/ cached[p] = bucket.last[p].rev

\* A call has changed the object o and not put it yet.
Changing(o) == \E c \in Callers : call[c].ref = o /\ call[c].pc \in {"marshal", "put"}

\* The object decoded from p's last revision is as it was put, or in a call's hands,
\* or in those of one whose put failed.
Shown(p) ==
    cached[p] = bucket.last[p].rev =>
        \/ MetaOf(p) = bucket.last[p].val
        \/ cached[p] \in spoiled
        \/ Changing(cached[p])

CopyInv == \A p \in Players : HoldsMeta(p) => Accounted(p) /\ Shown(p)

\* At first the bucket holds nothing.
LEMMA InitCopyInv == Init => CopyInv
BY DEF Init, EmptyBucket, CopyInv, HoldsMeta, HasValue

\* The cached objects are objects; that of a value is named by its revision.
LEMMA CachedObjects ==
    ASSUME TypeInv
    PROVE  /\ 1..cursor \subseteq Objects /\ 0 \notin Objects /\ Callers \cap Nat = {}
           /\ \A p \in Players : /\ cached[p] \in 0..cursor /\ bucket.last[p].rev \in Nat
                                 /\ HoldsMeta(p) => bucket.last[p].rev > 0
<1>1. /\ bucket \in Buckets(Players, Vals) /\ bucket.seq \in Nat /\ cursor \in 0..bucket.seq
      /\ cached \in [Players -> 0..cursor] /\ WellNumbered(bucket)
  BY DEF TypeInv, TypeOK, SentInOrder, Buckets
<1>2. bucket.seq <= MaxRev /\ MaxRev \in Nat
  BY <1>1, CallingCounted, BoundsAssumption DEF TypeInv, RoomToPut
<1>3. 1..cursor \subseteq Objects /\ 0 \notin Objects /\ Callers \cap Nat = {}
  BY <1>1, <1>2, ObjectsAssumption DEF Objects
<1>4. \A p \in Players : bucket.last[p].rev \in Nat /\ (HoldsMeta(p) => bucket.last[p].rev > 0)
  BY <1>1 DEF HoldsMeta, HasValue, WellNumbered, Buckets, Revisions
<1>5. QED
  BY <1>1, <1>3, <1>4

\* A write takes its player's turn to be sent, and leaves the others alone.
LEMMA WritesCopied ==
    ASSUME TypeInv, OneHolder, CopyInv,
           NEW p \in Players, NEW op \in {"put", "del"}, NEW v \in Vals,
           bucket' = Written(bucket, p, op, v), UNCHANGED <<cursor, chan, cached, heap, spoiled>>,
           \A o \in Objects : Changing(o) => Changing(o)' \/ Holds(p, o)
    PROVE  CopyInv'
<1>1. /\ bucket \in Buckets(Players, Vals) /\ bucket.seq \in Nat /\ cursor \in 0..bucket.seq
      /\ cached \in [Players -> 0..cursor]
  BY DEF TypeInv, TypeOK, Buckets
<1>2. /\ bucket'.last[p].rev = bucket.seq + 1
      /\ \A q \in Players \ {p} : bucket'.last[q] = bucket.last[q]
  BY <1>1 DEF Written, Buckets
<1>3. Accounted(p)' /\ Shown(p)'
  BY <1>1, <1>2 DEF Accounted, Shown
<1>4. ASSUME NEW q \in Players, q # p, HoldsMeta(q)' PROVE Accounted(q)' /\ Shown(q)'
  <2>1. /\ HoldsMeta(q) /\ bucket'.last[q] = bucket.last[q] /\ EntryOf(bucket', q) = EntryOf(bucket, q)
    BY <1>2, <1>4 DEF HoldsMeta, HasValue, EntryOf
  <2>2. Accounted(q)'
    BY <2>1 DEF CopyInv, Accounted
  <2>3. ASSUME cached[q] = bucket.last[q].rev, Changing(cached[q]) PROVE Changing(cached[q])'
    <3>1. cached[q] \in Objects /\ Holds(q, cached[q])
      BY <1>1, <2>1, <2>3, CachedObjects DEF Holds
    <3>2. ~Holds(p, cached[q])
      BY <1>4, <3>1 DEF OneHolder
    <3>3. \A o \in Objects : Changing(o) /\ ~Holds(p, o) => Changing(o)'
      OBVIOUS
    <3>4. PICK o \in Objects : o = cached[q]
      BY <3>1
    <3>5. Changing(o)' /\ o = cached'[q]
      BY <2>3, <3>2, <3>3, <3>4
    <3>6. QED
      BY <3>4, <3>5 DEF Changing
  <2>4. Shown(q)'
    <3>1. SUFFICES ASSUME cached[q] = bucket.last[q].rev
                   PROVE  \/ heap[cached[q]] = bucket.last[q].val
                          \/ cached[q] \in spoiled
                          \/ Changing(cached[q])'
      BY <2>1 DEF Shown, MetaOf
    <3>2. QED
      BY <2>1, <2>3, <3>1 DEF CopyInv, Shown, MetaOf
  <2>5. QED
    BY <2>2, <2>4
<1>5. QED
  BY <1>3, <1>4 DEF CopyInv

\* What moves the cursor passes over no player's value.
LEMMA DeliveriesCopied ==
    ASSUME TypeInv, CopyInv, NEW p \in Players, Deliver(p) \/ DropDelete(p)
    PROVE  CopyInv'
<1> USE DEF cacheVars, lifeVars, historyVars
<1>1. /\ bucket \in Buckets(Players, Vals) /\ chan \in Seq(Sent) /\ cursor \in Nat /\ WellNumbered(bucket)
  BY DEF TypeInv, TypeOK, SentInOrder, Sent, Buckets
<1>2. /\ IsNext(bucket, cursor, p) /\ cursor' = bucket.last[p].rev
      /\ UNCHANGED <<bucket, cached, heap, call, spoiled>>
      /\ \/ chan' = Append(chan, EntryOf(bucket, p))
         \/ UNCHANGED chan /\ ~HasValue(bucket, p)
  BY DEF Deliver, DropDelete
<1>3. \A q \in Players : bucket.last[q].rev <= cursor' => q = p \/ bucket.last[q].rev <= cursor
  BY <1>1, <1>2, NothingPassedOver
<1>4. EntryOf(bucket, p) \in Sent /\ \A q \in Players : bucket.last[q].rev \in Nat
  BY <1>1, EntryOfType, CachedObjects DEF Sent
<1>5. \A d : Waits(Append(chan, EntryOf(bucket, p)), d) <=> Waits(chan, d) \/ d = EntryOf(bucket, p)
  BY <1>1, <1>4, AppendWaits
<1>6. \A d : Waits(chan, d) => Waits(chan', d)
  BY <1>2, <1>5
<1>7. HasValue(bucket, p) => Waits(chan', EntryOf(bucket, p))
  BY <1>2, <1>5
<1>8. ASSUME NEW q \in Players, HoldsMeta(q)' PROVE Accounted(q)' /\ Shown(q)'
  <2>1. HoldsMeta(q) /\ Shown(q)'
    BY <1>2, <1>8 DEF HoldsMeta, CopyInv, Shown, Changing, MetaOf
  <2>2. Accounted(q)'
    BY <1>1, <1>2, <1>3, <1>4, <1>6, <1>7, <2>1 DEF CopyInv, Accounted, HoldsMeta
  <2>3. QED
    BY <2>1, <2>2
<1>9. QED
  BY <1>8 DEF CopyInv

\* A player's last revision, when it is received, is what the cache holds; an earlier
\* one is not taken for it.
LEMMA ReceiptsCopied ==
    ASSUME TypeInv, CopyInv, UpdateLocalCache \/ SkipGarbage
    PROVE  CopyInv'
<1> USE DEF cacheVars, lifeVars, historyVars
<1> DEFINE e == Head(chan)
<1>1. /\ chan # <<>> /\ chan' = Tail(chan) /\ UNCHANGED <<bucket, cursor, call, spoiled>>
      /\ \/ /\ e.val \in Metas
            /\ heap' = [heap EXCEPT ![e.rev] = e.val] /\ cached' = [cached EXCEPT ![e.key] = e.rev]
         \/ e.val \notin Metas /\ UNCHANGED <<cached, heap>>
  BY DEF UpdateLocalCache, SkipGarbage
<1>2. /\ e.key \in Players /\ e.rev \in 1..cursor /\ e.rev \in Objects /\ e.rev \in Nat /\ Fits(bucket, e)
      /\ \A d : Waits(chan, d) => d = e \/ Waits(chan', d)
      /\ \A p \in Players : cached[p] < e.rev
  BY <1>1, Received DEF TypeInv, TypeOK, Buckets
<1>3. /\ cached \in [Players -> 0..cursor] /\ heap \in [Objects -> Metas] /\ cursor \in Nat
      /\ \A p \in Players : bucket.last[p].rev \in Nat
  BY CachedObjects DEF TypeInv, TypeOK, Buckets
<1>4. ASSUME NEW p \in Players, HoldsMeta(p)' PROVE Accounted(p)' /\ Shown(p)'
  <2>1. HoldsMeta(p) /\ EntryOf(bucket, p).val \in Metas
    BY <1>1, <1>4 DEF HoldsMeta, EntryOf
  <2>2. CASE e = EntryOf(bucket, p)
    <3>1. /\ p = e.key /\ e.val \in Metas /\ e.rev = bucket.last[p].rev /\ e.val = bucket.last[p].val
      BY <2>1, <2>2 DEF EntryOf
    <3>2. cached'[p] = bucket.last[p].rev /\ heap'[cached'[p]] = bucket.last[p].val
      BY <1>1, <1>2, <1>3, <3>1
    <3>3. QED
      BY <1>1, <3>2 DEF Accounted, Shown, MetaOf
  <2>3. CASE e # EntryOf(bucket, p)
    <3>1. p = e.key => e.rev # bucket.last[p].rev /\ cached[p] # bucket.last[p].rev
      BY <1>2, <1>3, <2>3 DEF Fits
    <3>2. CASE cached'[p] = cached[p]
      <4>1. cached[p] = bucket.last[p].rev => heap'[cached[p]] = heap[cached[p]]
        <5>1. bucket.last[p].rev > 0 /\ 1..cursor \subseteq Objects
          BY <2>1, CachedObjects
        <5>2. cached[p] # e.rev
          BY <1>2, <1>3
        <5>3. QED
          BY <1>1, <1>3, <5>1, <5>2
      <4>2. Shown(p)'
        BY <1>1, <2>1, <3>2, <4>1 DEF CopyInv, Shown, Changing, MetaOf
      <4>3. Accounted(p)'
        BY <1>1, <1>2, <2>1, <2>3, <3>2 DEF CopyInv, Accounted
      <4>4. QED
        BY <4>2, <4>3
    <3>3. CASE cached'[p] # cached[p]
      <4>1. p = e.key /\ cached'[p] = e.rev
        BY <1>1, <1>2, <1>3, <3>3
      <4>2. Shown(p)'
        BY <1>1, <3>1, <4>1 DEF Shown
      <4>3. Accounted(p)'
        BY <1>1, <1>2, <2>1, <2>3, <3>1, <4>1 DEF CopyInv, Accounted
      <4>4. QED
        BY <4>2, <4>3
    <3>4. QED
      BY <3>2, <3>3
  <2>4. QED
    BY <2>2, <2>3
<1>5. QED
  BY <1>4 DEF CopyInv

\* What a call does to the objects of the others is nothing, and what it does to its
\* own is put or marked.
LEMMA CallsCopied ==
    ASSUME TypeInv, OneHolder, CopyInv, NEW c \in Callers,
           Begins(c) \/ ReadCache(c) \/ CommandPanics(c) \/ Modify(c) \/ Marshal(c) \/ PutFails(c)
    PROVE  CopyInv'
<1> USE DEF watchVars, cacheVars, lifeVars, historyVars
<1>1. /\ heap \in [Objects -> Metas] /\ call \in [Callers -> Calls]
      /\ UNCHANGED <<bucket, cursor, chan, cached>>
  BY DEF TypeInv, TypeOK, Calls, Begins, Begin, ReadCache, CommandPanics, Modify, Marshal, PutFails
<1>2. \A d \in Callers \ {c} : call'[d] = call[d]
  BY <1>1 DEF Begins, Begin, ReadCache, CommandPanics, Modify, Marshal, PutFails, Return
<1>3. ASSUME NEW p \in Players, HoldsMeta(p)', cached[p] = bucket.last[p].rev,
             heap[cached[p]] = bucket.last[p].val \/ cached[p] \in spoiled \/ Changing(cached[p])
      PROVE  heap'[cached[p]] = bucket.last[p].val \/ cached[p] \in spoiled' \/ Changing(cached[p])'
  <2>1. cached[p] \in Objects /\ cached[p] \notin Callers
    <3>1. HoldsMeta(p)
      BY <1>1, <1>3 DEF HoldsMeta
    <3>2. QED
      BY <1>3, <3>1, CachedObjects
  <2>2. CASE Begins(c)
    <3>1. UNCHANGED <<heap, spoiled>> /\ call[c].pc = "idle"
      BY <2>2 DEF Begins, Begin
    <3>2. QED
      BY <1>1, <1>2, <1>3, <3>1 DEF Changing
  <2>3. CASE ReadCache(c)
    <3>1. UNCHANGED spoiled /\ call[c].pc = "read" /\ heap'[cached[p]] = heap[cached[p]]
      BY <1>1, <2>1, <2>3 DEF ReadCache
    <3>2. QED
      BY <1>1, <1>2, <1>3, <3>1 DEF Changing
  <2>4. CASE Modify(c)
    <3>1. /\ UNCHANGED spoiled /\ call[c].pc = "modify"
          /\ call'[c].pc = "marshal" /\ call'[c].ref = call[c].ref
          /\ heap' = [heap EXCEPT ![call[c].ref] = Applied(call[c].change, heap[call[c].ref])]
      BY <1>1, <2>4 DEF Modify, Calls
    <3>2. CASE call[c].ref = cached[p]
      BY <1>1, <3>1, <3>2 DEF Changing
    <3>3. CASE call[c].ref # cached[p]
      <4>1. heap'[cached[p]] = heap[cached[p]]
        BY <1>1, <2>1, <3>1, <3>3
      <4>2. QED
        BY <1>1, <1>2, <1>3, <3>1, <4>1 DEF Changing
    <3>4. QED
      BY <3>2, <3>3
  <2>5. CASE Marshal(c)
    <3>1. /\ UNCHANGED <<heap, spoiled>> /\ call'[c].pc = "put" /\ call'[c].ref = call[c].ref
      BY <1>1, <2>5 DEF Marshal, Calls
    <3>2. QED
      BY <1>1, <1>2, <1>3, <3>1 DEF Changing
  <2>6. CASE PutFails(c)
    <3>1. UNCHANGED heap /\ spoiled' = spoiled \cup {call[c].ref}
      BY <2>6 DEF PutFails
    <3>2. QED
      BY <1>1, <1>2, <1>3, <3>1 DEF Changing
  <2>7. CASE CommandPanics(c)
    <3>1. UNCHANGED <<heap, spoiled>> /\ call[c].pc = "read"
      BY <2>7 DEF CommandPanics
    <3>2. QED
      BY <1>1, <1>2, <1>3, <3>1 DEF Changing
  <2>8. QED
    BY <2>2, <2>3, <2>4, <2>5, <2>6, <2>7
<1>4. ASSUME NEW p \in Players, HoldsMeta(p)' PROVE Accounted(p)' /\ Shown(p)'
  <2>1. HoldsMeta(p)
    BY <1>1, <1>4 DEF HoldsMeta
  <2>2. Accounted(p)'
    BY <1>1, <2>1 DEF CopyInv, Accounted
  <2>3. cached[p] = bucket.last[p].rev =>
            heap[cached[p]] = bucket.last[p].val \/ cached[p] \in spoiled \/ Changing(cached[p])
    BY <2>1 DEF CopyInv, Shown, MetaOf
  <2>4. cached'[p] = bucket'.last[p].rev =>
            heap'[cached[p]] = bucket.last[p].val \/ cached[p] \in spoiled' \/ Changing(cached[p])'
    BY <1>1, <1>3, <1>4, <2>3
  <2>5. Shown(p)'
    BY <1>1, <2>4 DEF Shown, MetaOf, Changing
  <2>6. QED
    BY <2>2, <2>5
<1>5. QED
  BY <1>4 DEF CopyInv

\* Every kind of step keeps account of what was put.
LEMMA NextCopyInv == TypeInv /\ OneHolder /\ CopyInv /\ [Next]_vars => CopyInv'
<1> SUFFICES ASSUME TypeInv, OneHolder, CopyInv, [Next]_vars PROVE CopyInv'
  OBVIOUS
<1>1. index \in [Names -> Players \cup {NoPlayer}] /\ call \in [Callers -> Calls]
      /\ bucket \in Buckets(Players, Vals) /\ WellNumbered(bucket)
  BY DEF TypeInv, TypeOK, SentInOrder, Calls
<1>2. CASE OtherWrites
  <2>1. \A o \in Objects : Changing(o)' <=> Changing(o)
    BY <1>2 DEF OtherWrites, Changing
  <2>2. QED
    BY <1>2, <2>1, WritesCopied DEF OtherWrites
<1>3. ASSUME NEW c \in Callers, PutMetadata(c) PROVE CopyInv'
  <2>1. /\ call' = [call EXCEPT ![c] = NoCall]
        /\ bucket' = Written(bucket, call[c].player, "put", call[c].data)
        /\ UNCHANGED <<cursor, chan, cached, heap, spoiled>>
    BY <1>3 DEF PutMetadata, Return, KVPut, watchVars, cacheVars, lifeVars, historyVars
  <2>2. call[c].player \in Players /\ call[c].data \in Vals
    BY <1>1, <1>3 DEF PutMetadata, TypeInv, CallsUnderWay, Calls, Vals
  <2>3. ASSUME NEW o \in Objects, Changing(o) PROVE Changing(o)' \/ Holds(call[c].player, o)
    BY <1>1, <2>1, <2>3 DEF Changing, Holds
  <2>4. QED
    BY <2>1, <2>2, <2>3, WritesCopied
<1>4. CASE ProxyRestart
  <2>1. /\ cursor' = 0 /\ UNCHANGED bucket /\ \A p \in Players : cached'[p] = 0
    BY <1>4 DEF ProxyRestart
  <2>2. \A p \in Players : HoldsMeta(p)' => bucket.last[p].rev > 0
    BY <2>1, CachedObjects DEF HoldsMeta
  <2>3. QED
    BY <2>1, <2>2 DEF CopyInv, Accounted, Shown
<1>5. CASE UNCHANGED vars
  BY <1>5 DEF vars, CopyInv, HoldsMeta, Accounted, Shown, Changing, MetaOf
<1>6. QED
  BY <1>1, <1>2, <1>3, <1>4, <1>5, DeliveriesCopied, ReceiptsCopied, CallsCopied, DirectorySteps

\* Once the watcher has caught up and no call is under way, the cache holds what the
\* bucket holds, whatever the calls did meanwhile to the objects they shared with it.
THEOREM CacheAlwaysMatchesBucket == Spec => []CacheMatchesBucket
<1>1. ASSUME TypeInv, CopyInv PROVE CacheMatchesBucket
  <2> SUFFICES ASSUME Drained, NEW p \in Players, HoldsMeta(p)
               PROVE  IsCached(p) /\ (cached[p] \notin spoiled => MetaOf(p) = bucket.last[p].val)
    BY DEF CacheMatchesBucket, HoldsMeta
  <2>1. DOMAIN bucket.last = Players /\ cursor \in Nat /\ bucket.last[p].rev \in Nat /\ bucket.last[p].rev > 0
    BY <1>1, CachedObjects DEF TypeInv, TypeOK, Buckets
  <2>2. ~(bucket.last[p].rev > cursor)
    BY <2>1 DEF Drained, AllSent
  <2>3. ~Waits(chan, EntryOf(bucket, p))
    BY DEF Drained, Waits
  <2>4. \A o : ~Changing(o)
    BY DEF Drained, Calling, Changing
  <2>5. QED
    BY <1>1, <2>1, <2>2, <2>3, <2>4 DEF CopyInv, Accounted, Shown, IsCached
<1>2. QED
  BY InitTypeInv, NextTypeInv, InitOneHolder, NextOneHolder, InitCopyInv, NextCopyInv, <1>1, PTL DEF Spec

-----------------------------------------------------------------------------
(* Names.  All that anything holds for a player has a name the player was  *)
(* given before, or none.                                                  *)

\* The value m, if it is metadata, gives p no name but one that b says it bears.
Own(b, p, m) == m \in Metas /\ m.name # NoName => p \in b[m.name]

OwnOf(b) ==
    /\ \A p \in Players : /\ Own(b, p, bucket.last[p].val)
                          /\ IsCached(p) => Own(b, p, MetaOf(p))
    /\ \A i \in DOMAIN chan : Own(b, chan[i].key, chan[i].val)
    /\ \A c \in Callers : call[c].pc # "idle" =>
          /\ Own(b, call[c].player, call[c].change)
          /\ Own(b, call[c].player, call[c].data)
          /\ call[c].ref # 0 => Own(b, call[c].player, heap[call[c].ref])

OwnInv == OwnOf(bearers)

\* An empty bucket names nobody.
LEMMA InitOwnInv == Init => OwnInv
<1> SUFFICES ASSUME Init PROVE OwnInv
  OBVIOUS
<1>1. /\ \A p \in Players : bucket.last[p].val = NoMeta /\ cached[p] = 0
      /\ chan = <<>> /\ \A c \in Callers : call[c].pc = "idle"
  BY DEF Init, EmptyBucket, NoCall
<1>2. NoMeta \notin Metas
  BY ValuesAssumption
<1>3. QED
  BY <1>1, <1>2 DEF OwnInv, OwnOf, Own, IsCached

\* Nothing gives a player a name it was not given: seen from the players who bear
\* each name after the step.
LEMMA NextOwnOf ==
    ASSUME NEW b, b = bearers', TypeInv, OneHolder, OwnOf(b), [Next]_vars
    PROVE  OwnOf(b)'
<1> USE DEF watchVars, cacheVars, lifeVars, historyVars
<1>1. /\ bucket \in Buckets(Players, Vals) /\ chan \in Seq(Sent) /\ cached \in [Players -> 0..cursor]
      /\ heap \in [Objects -> Metas] /\ call \in [Callers -> Calls]
      /\ index \in [Names -> Players \cup {NoPlayer}]
  BY DEF TypeInv, TypeOK, Calls, Sent
<1>2. /\ 1..cursor \subseteq Objects /\ 0 \notin Objects /\ Callers \cap Nat = {} /\ Callers \subseteq Objects
      /\ \A p \in Players : cached[p] \in Nat /\ (IsCached(p) => cached[p] \in Objects)
  BY <1>1, CachedObjects DEF IsCached, Objects
<1>3. \A c \in Callers : call[c].pc # "idle" => call[c].player \in Players /\ call[c].ref \in Objects \cup {0}
  BY <1>1 DEF TypeInv, CallsUnderWay, Calls
<1>4. ASSUME NEW p \in Players, NEW op \in {"put", "del"}, NEW v \in Vals, Own(b, p, v),
             bucket' = Written(bucket, p, op, v)
      PROVE  \A q \in Players : Own(b, q, bucket'.last[q].val)
  <2>1. bucket'.last[p].val = v /\ \A q \in Players \ {p} : bucket'.last[q] = bucket.last[q]
    BY <1>1, <1>4 DEF Written, Buckets
  <2>2. QED
    BY <1>4, <2>1 DEF OwnOf
<1>4b. ASSUME NEW p \in Players, NEW m, b = Bearing(p, m) PROVE Own(b, p, m)
  BY <1>4b DEF Own, Bearing, Metas
<1>5. CASE OtherWrites
  <2>1. PICK p \in Players, op \in {"put", "del"}, v \in Vals :
            /\ bucket' = Written(bucket, p, op, v)
            /\ op = "put" => b = Bearing(p, v)
            /\ op = "del" => v = NoMeta
    BY <1>5 DEF OtherWrites
  <2>2. Own(b, p, v)
    BY <1>4b, <2>1, ValuesAssumption DEF Own
  <2>3. \A q \in Players : Own(b, q, bucket'.last[q].val)
    BY <1>4, <2>1, <2>2
  <2>4. UNCHANGED <<chan, cached, heap, call>>
    BY <1>5 DEF OtherWrites
  <2>5. QED
    BY <2>3, <2>4 DEF OwnOf, IsCached, MetaOf
<1>6. ASSUME NEW p \in Players, Deliver(p) PROVE OwnOf(b)'
  <2>1. chan' = Append(chan, EntryOf(bucket, p)) /\ UNCHANGED <<bucket, cached, heap, call>>
    BY <1>6 DEF Deliver
  <2>2. EntryOf(bucket, p) \in Sent
    BY <1>1, EntryOfType DEF Sent
  <2>3. \A i \in DOMAIN chan' : (i \in DOMAIN chan /\ chan'[i] = chan[i]) \/ chan'[i] = EntryOf(bucket, p)
    BY <1>1, <2>1, <2>2, AppendProperties, LenProperties
  <2>4. \A i \in DOMAIN chan' : Own(b, chan'[i].key, chan'[i].val)
    BY <2>3 DEF OwnOf, EntryOf
  <2>5. QED
    BY <2>1, <2>4 DEF OwnOf, IsCached, MetaOf
<1>7. ASSUME NEW p \in Players, DropDelete(p) PROVE OwnOf(b)'
  BY <1>7 DEF DropDelete, OwnOf, IsCached, MetaOf
<1>8. CASE UpdateLocalCache \/ SkipGarbage
  <2> DEFINE e == Head(chan)
  <2>1. /\ chan # <<>> /\ chan' = Tail(chan) /\ UNCHANGED <<bucket, call>>
        /\ \/ heap' = [heap EXCEPT ![e.rev] = e.val] /\ cached' = [cached EXCEPT ![e.key] = e.rev]
           \/ UNCHANGED <<cached, heap>>
    BY <1>8 DEF UpdateLocalCache, SkipGarbage
  <2>2. /\ e.key \in Players /\ e.rev \in Objects /\ e.rev \in 1..cursor
        /\ \A i \in DOMAIN chan' : Waits(chan, chan'[i])
        /\ \A p \in Players : cached[p] < e.rev
        /\ \A c \in Callers : call[c].ref # e.rev
    BY <2>1, Received
  <2>3. Own(b, e.key, e.val)
    BY <1>1, <2>1, ReceiptKeepsOrder, HeadTailProperties, LenProperties, EmptySeq DEF OwnOf
  <2>4. \A i \in DOMAIN chan' : Own(b, chan'[i].key, chan'[i].val)
    BY <2>2 DEF OwnOf, Waits
  <2>5. ASSUME NEW p \in Players, cached'[p] # 0 PROVE Own(b, p, heap'[cached'[p]])
    <3>1. CASE UNCHANGED <<cached, heap>>
      BY <2>5, <3>1 DEF OwnOf, IsCached, MetaOf
    <3>2. CASE heap' = [heap EXCEPT ![e.rev] = e.val] /\ cached' = [cached EXCEPT ![e.key] = e.rev]
      <4>1. CASE p = e.key
        BY <1>1, <2>2, <2>3, <3>2, <4>1
      <4>2. CASE p # e.key
        <5>1. cached'[p] = cached[p] /\ cached[p] # e.rev /\ cached[p] \in Objects
          BY <1>1, <1>2, <2>2, <2>5, <3>2, <4>2 DEF IsCached
        <5>2. QED
          BY <1>1, <2>5, <3>2, <5>1 DEF OwnOf, IsCached, MetaOf
      <4>3. QED
        BY <4>1, <4>2
    <3>3. QED
      BY <2>1, <3>1, <3>2
  <2>6. ASSUME NEW c \in Callers, call[c].pc # "idle", call[c].ref # 0 PROVE Own(b, call[c].player, heap'[call[c].ref])
    <3>1. heap'[call[c].ref] = heap[call[c].ref]
      BY <1>1, <1>3, <2>1, <2>2, <2>6
    <3>2. QED
      BY <2>6, <3>1 DEF OwnOf
  <2>7. QED
    BY <2>1, <2>4, <2>5, <2>6 DEF OwnOf, IsCached, MetaOf
<1>9. ASSUME NEW c \in Callers, NEW rec \in Calls, call' = [call EXCEPT ![c] = rec],
             rec.pc # "idle" =>
                /\ Own(b, rec.player, rec.change) /\ Own(b, rec.player, rec.data)
                /\ rec.ref # 0 => Own(b, rec.player, heap'[rec.ref]),
             \A p \in Players, o \in Objects : Holds(p, o) /\ Own(b, p, heap[o]) /\ heap'[o] # heap[o] => Own(b, p, heap'[o]),
             \A p \in Players : Own(b, p, bucket'.last[p].val),
             UNCHANGED <<chan, cached>>
      PROVE  OwnOf(b)'
  <2>1. call'[c] = rec /\ \A d \in Callers \ {c} : call'[d] = call[d]
    BY <1>1, <1>9
  <2>2. ASSUME NEW p \in Players, NEW o \in Objects, Holds(p, o), Own(b, p, heap[o]) PROVE Own(b, p, heap'[o])
    BY <1>9, <2>2
  <2>3. ASSUME NEW p \in Players, IsCached(p) PROVE Own(b, p, heap'[cached[p]])
    BY <1>2, <2>2, <2>3 DEF OwnOf, MetaOf, Holds
  <2>4. ASSUME NEW d \in Callers \ {c}, call[d].pc # "idle", call[d].ref # 0 PROVE Own(b, call[d].player, heap'[call[d].ref])
    BY <1>3, <2>2, <2>4 DEF OwnOf, Holds
  <2>5. QED
    BY <1>9, <2>1, <2>3, <2>4 DEF OwnOf, IsCached, MetaOf
<1>10. \A p \in Players : Own(b, p, bucket.last[p].val) /\ Own(b, p, EmptyMeta)
  BY DEF OwnOf, Own, EmptyMeta
<1>11. EmptyMeta \in Metas /\ EmptyMeta \in Changes /\ NoCall \in Calls
  BY DEF EmptyMeta, Metas, Changes, NoCall, Calls
<1>12. ASSUME NEW c \in Callers, Begins(c) PROVE OwnOf(b)'
  <2>1. PICK p \in Players, change \in Changes : Begin(c, p, change)
    BY <1>12 DEF Begins
  <2> DEFINE rec == [NoCall EXCEPT !.pc = "read", !.player = p, !.change = change]
  <2>2. /\ call' = [call EXCEPT ![c] = rec] /\ UNCHANGED <<bucket, chan, cached, heap>>
    BY <2>1 DEF Begin
  <2>3. rec \in Calls /\ rec.player = p /\ rec.change = change /\ rec.ref = 0 /\ rec.data = EmptyMeta
    BY <1>11 DEF NoCall, Calls
  <2>4. Own(b, p, change)
    BY <1>4b, <2>1 DEF Begin
  <2> HIDE DEF rec
  <2>5. QED
    BY <1>9, <1>10, <2>2, <2>3, <2>4
<1>13. ASSUME NEW c \in Callers, ReadCache(c) PROVE OwnOf(b)'
  <2> DEFINE p == call[c].player
  <2>0. PICK o \in {c, cached[p]} \ {0} : call' = [call EXCEPT ![c].pc = "modify", ![c].ref = o]
    BY <1>13 DEF ReadCache
  <2> DEFINE rec == [call[c] EXCEPT !.pc = "modify", !.ref = o]
  <2>1. /\ call' = [call EXCEPT ![c] = rec] /\ call[c].pc = "read"
        /\ heap' = [heap EXCEPT ![c] = EmptyMeta]
        /\ UNCHANGED <<bucket, chan, cached>>
    BY <1>1, <1>13, <2>0 DEF ReadCache
  <2>2. p \in Players /\ o \in Objects /\ (o # c => o = cached[p] /\ IsCached(p))
    BY <1>2, <1>3, <2>0, <2>1 DEF IsCached
  <2>3. /\ rec \in Calls /\ rec.player = p /\ rec.change = call[c].change
        /\ rec.data = call[c].data /\ rec.ref = o
    BY <1>1, <2>2 DEF Calls
  <2>4. heap'[c] = EmptyMeta /\ \A x \in Objects \ {c} : heap'[x] = heap[x]
    BY <1>1, <1>2, <2>1
  <2>5. Own(b, p, heap'[o])
    <3>1. CASE o # c
      BY <2>2, <2>4, <3>1 DEF OwnOf, MetaOf
    <3>2. CASE o = c
      BY <1>10, <2>2, <2>4, <3>2
    <3>3. QED
      BY <3>1, <3>2
  <2>6. Own(b, p, call[c].change) /\ Own(b, p, call[c].data)
    BY <2>1 DEF OwnOf
  <2>7. \A q \in Players, x \in Objects : heap'[x] # heap[x] => Own(b, q, heap'[x])
    BY <1>10, <2>4
  <2> HIDE DEF p, rec
  <2>8. QED
    BY <1>9, <1>10, <2>1, <2>3, <2>5, <2>6, <2>7
<1>14. ASSUME NEW c \in Callers, Modify(c) PROVE OwnOf(b)'
  <2> DEFINE p == call[c].player
             o == call[c].ref
             rec == [call[c] EXCEPT !.pc = "marshal"]
  <2>1. /\ call' = [call EXCEPT ![c] = rec] /\ call[c].pc = "modify"
        /\ heap' = [heap EXCEPT ![o] = Applied(call[c].change, heap[o])]
        /\ UNCHANGED <<bucket, chan, cached>>
    BY <1>1, <1>14 DEF Modify
  <2>2. p \in Players /\ o \in Objects
    BY <1>2, <1>3, <2>1 DEF TypeInv, CallsUnderWay
  <2>3. /\ rec \in Calls /\ rec.player = p /\ rec.change = call[c].change
        /\ rec.data = call[c].data /\ rec.ref = o /\ call[c].change \in Changes
    BY <1>1 DEF Calls
  <2>4. heap'[o] = Applied(call[c].change, heap[o]) /\ \A x \in Objects \ {o} : heap'[x] = heap[x]
    BY <1>1, <2>1, <2>2
  <2>5. Own(b, p, call[c].change) /\ Own(b, p, call[c].data) /\ Own(b, p, heap[o])
    BY <1>2, <2>1, <2>2 DEF OwnOf
  <2>6. Own(b, p, heap'[o])
    <3>1. heap[o] \in Metas /\ call[c].change \in Metas
      BY <1>1, <2>2, <2>3 DEF Metas, Changes
    <3>2. heap'[o].name \in {heap[o].name, call[c].change.name}
      BY <2>4 DEF Applied
    <3>3. QED
      BY <2>5, <3>1, <3>2 DEF Own
  <2>7. ASSUME NEW q \in Players, NEW x \in Objects, Holds(q, x), heap'[x] # heap[x] PROVE Own(b, q, heap'[x])
    <3>1. x = o /\ Holds(p, o)
      BY <2>4, <2>7 DEF Holds
    <3>2. QED
      BY <2>2, <2>6, <2>7, <3>1 DEF OneHolder
  <2> HIDE DEF p, o, rec
  <2>8. QED
    BY <1>9, <1>10, <2>1, <2>3, <2>5, <2>6, <2>7
<1>15. ASSUME NEW c \in Callers, Marshal(c) PROVE OwnOf(b)'
  <2> DEFINE p == call[c].player
             o == call[c].ref
             rec == [call[c] EXCEPT !.pc = "put", !.data = heap[o]]
  <2>1. /\ call' = [call EXCEPT ![c] = rec] /\ call[c].pc = "marshal"
        /\ UNCHANGED <<bucket, chan, cached, heap>>
    BY <1>1, <1>15 DEF Marshal
  <2>2. p \in Players /\ o \in Objects
    BY <1>2, <1>3, <2>1 DEF TypeInv, CallsUnderWay
  <2>3. /\ rec \in Calls /\ rec.player = p /\ rec.change = call[c].change
        /\ rec.data = heap[o] /\ rec.ref = o
    BY <1>1, <2>2 DEF Calls
  <2>4. Own(b, p, call[c].change) /\ Own(b, p, heap[o])
    BY <1>2, <2>1, <2>2 DEF OwnOf
  <2> HIDE DEF p, o, rec
  <2>5. QED
    BY <1>9, <1>10, <2>1, <2>3, <2>4
<1>16. ASSUME NEW c \in Callers, PutMetadata(c) PROVE OwnOf(b)'
  <2>1. /\ call[c].pc = "put" /\ call' = [call EXCEPT ![c] = NoCall]
        /\ bucket' = Written(bucket, call[c].player, "put", call[c].data)
        /\ UNCHANGED <<chan, cached, heap>>
    BY <1>16 DEF PutMetadata, Return, KVPut
  <2>2. /\ call[c].player \in Players /\ call[c].data \in Vals
        /\ Own(b, call[c].player, call[c].data)
    BY <1>1, <1>3, <2>1 DEF OwnOf, Calls, Vals
  <2>3. \A q \in Players : Own(b, q, bucket'.last[q].val)
    BY <1>4, <2>1, <2>2
  <2>4. QED
    BY <1>9, <1>11, <2>1, <2>3 DEF NoCall
<1>17. ASSUME NEW c \in Callers, PutFails(c) \/ CommandPanics(c) PROVE OwnOf(b)'
  BY <1>9, <1>10, <1>11, <1>17 DEF PutFails, CommandPanics, Return, NoCall
<1>18. CASE ProxyRestart
  BY <1>10, <1>18 DEF ProxyRestart, NoCall, OwnOf, IsCached
<1>19. CASE UNCHANGED vars
  BY <1>19 DEF vars, OwnOf, IsCached, MetaOf
<1>20. QED
  BY <1>1, <1>5, <1>6, <1>7, <1>8, <1>12, <1>13, <1>14, <1>15, <1>16, <1>17, <1>18, <1>19,
     DirectorySteps

\* Nothing gives a player a name it was not given.
LEMMA NextOwnInv == ASSUME TypeInv, OneHolder, OwnInv, [Next]_vars PROVE OwnInv'
<1>1. PICK b : b = bearers'
  OBVIOUS
<1>2. \A n \in Names : bearers[n] \subseteq b[n]
  BY <1>1, BearersGrow DEF TypeInv
<1>3. \A p \in Players : \A m : Own(bearers, p, m) => Own(b, p, m)
  BY <1>2 DEF Own, Metas
<1>4. /\ \A i \in DOMAIN chan : chan[i].key \in Players
      /\ \A c \in Callers : call[c].pc # "idle" => call[c].player \in Players
  <2>1. chan \in Seq(Sent) /\ \A e \in Sent : e.key \in Players
    BY DEF TypeInv, TypeOK, Sent, Entries
  <2>2. \A i \in DOMAIN chan : chan[i] \in Sent
    BY <2>1
  <2>3. QED
    BY <2>1, <2>2 DEF TypeInv, CallsUnderWay
<1>5. OwnOf(b)
  BY <1>3, <1>4 DEF OwnInv, OwnOf
<1>6. OwnOf(b)'
  BY <1>1, <1>5, NextOwnOf
<1>7. QED
  BY <1>1, <1>6 DEF OwnInv, OwnOf, IsCached, MetaOf

\* Every player bears the name of its profile and no other.
OnlyOwn == \A n \in Names : \A p \in bearers[n] : NameOf[p] = n

\* At first nobody has a name.
LEMMA InitOnlyOwn == Init => OnlyOwn
BY DEF Init, OnlyOwn

\* Without /metadata renames, and if other writers give profile names, nobody gives
\* another.
LEMMA NextOnlyOwn ==
    ASSUME Renames = {}, OwnNamesOnly, TypeInv, OnlyOwn, [Next]_vars
    PROVE  OnlyOwn'
<1>1. /\ index \in [Names -> Players \cup {NoPlayer}]
      /\ NoName \notin Names
  BY NamesAssumption DEF TypeInv, TypeOK
<1>2. ASSUME NEW p \in Players, NEW m, m \in Metas => m.name \in {NoName, NameOf[p]},
             bearers' = Bearing(p, m)
      PROVE  OnlyOwn'
  BY <1>1, <1>2 DEF OnlyOwn, Bearing
<1>3. CASE OtherWrites
  BY <1>2, <1>3 DEF OtherWrites, OwnNamesOnly, OnlyOwn
<1>4. ASSUME NEW c \in Callers, Begins(c) PROVE OnlyOwn'
  BY <1>2, <1>4 DEF Begins, Begin
<1>5. CASE UNCHANGED bearers
  BY <1>5 DEF OnlyOwn
<1>6. QED
  BY <1>1, <1>3, <1>4, <1>5, DirectorySteps
     DEF Deliver, DropDelete, UpdateLocalCache, SkipGarbage, ReadCache, CommandPanics, Modify, Marshal,
         PutMetadata, PutFails, ProxyRestart, historyVars, vars

-----------------------------------------------------------------------------
(* The index.  A player's name changes in the cache when an update says so, *)
(* and then the index follows; that calls do not change it under the index *)
(* rests on what they are told to write.                                   *)

\* No call under way names anyone.
Quiet == \A c \in Callers : call[c].pc # "idle" => call[c].change.name = NoName

\* At first no call is under way.
LEMMA InitQuiet == Init => Quiet
BY DEF Init, NoCall, Quiet

\* Without /metadata renames and connections, calls only annotate.
LEMMA NextQuiet == ASSUME Renames = {}, ~Tracking, TypeInv, Quiet, [Next]_vars PROVE Quiet'
<1>1. call \in [Callers -> Calls] /\ index \in [Names -> Players \cup {NoPlayer}]
  BY DEF TypeInv, TypeOK, Calls
<1>2. ASSUME NEW c \in Callers, Begins(c) PROVE Quiet'
  <2>1. PICK p \in Players, change \in Changes : Begin(c, p, change) /\ change.name = NoName
    BY <1>2 DEF Begins
  <2>2. call'[c].change = change /\ \A d \in Callers \ {c} : call'[d] = call[d]
    BY <1>1, <2>1 DEF Begin, NoCall
  <2>3. QED
    BY <2>1, <2>2 DEF Quiet
<1>3. ASSUME NEW c \in Callers, ReadCache(c) \/ CommandPanics(c) \/ Modify(c) \/ Marshal(c) \/ PutMetadata(c) \/ PutFails(c)
      PROVE  Quiet'
  <2>1. /\ \A d \in Callers \ {c} : call'[d] = call[d]
        /\ call'[c].pc # "idle" => call[c].pc # "idle" /\ call'[c].change = call[c].change
    BY <1>1, <1>3 DEF ReadCache, CommandPanics, Modify, Marshal, PutMetadata, PutFails, Return, NoCall, Calls
  <2>2. QED
    BY <2>1 DEF Quiet
<1>4. CASE UNCHANGED call
  BY <1>4 DEF Quiet
<1>5. CASE ProxyRestart
  BY <1>5 DEF ProxyRestart, NoCall, Quiet
<1>6. QED
  BY <1>1, <1>2, <1>3, <1>4, <1>5, DirectorySteps
     DEF OtherWrites, Deliver, DropDelete, UpdateLocalCache, SkipGarbage, vars

\* A call leaves a player of some name in the cache under that name.
LEMMA CallsLeaveNames ==
    ASSUME TypeInv, OneHolder, Quiet \/ (OwnInv /\ OnlyOwn), NEW c \in Callers,
           Begins(c) \/ ReadCache(c) \/ CommandPanics(c) \/ Modify(c) \/ Marshal(c) \/ PutMetadata(c) \/ PutFails(c)
    PROVE  /\ UNCHANGED <<chan, cached, index>>
           /\ \A p \in Players : IsCached(p) /\ MetaOf(p).name # NoName =>
                                     heap'[cached[p]].name = MetaOf(p).name
<1> USE DEF watchVars, cacheVars, lifeVars, historyVars
<1>1. /\ heap \in [Objects -> Metas] /\ call \in [Callers -> Calls] /\ cached \in [Players -> 0..cursor]
      /\ UNCHANGED <<chan, cached, index>>
  BY DEF TypeInv, TypeOK, Calls, Begins, Begin, ReadCache, CommandPanics, Modify, Marshal, PutMetadata, PutFails
<1>2. SUFFICES ASSUME NEW p \in Players, IsCached(p), MetaOf(p).name # NoName
               PROVE  heap'[cached[p]].name = MetaOf(p).name
  BY <1>1
<1>3. cached[p] \in Objects /\ cached[p] \notin Callers
  BY <1>2, CachedObjects DEF IsCached
<1>4. CASE ReadCache(c)
  BY <1>1, <1>3, <1>4 DEF ReadCache, MetaOf
<1>5. CASE Modify(c) /\ call[c].ref = cached[p]
  <2>1. /\ call[c].pc = "modify" /\ call[c].player \in Players /\ call[c].ref \in Objects
        /\ heap'[cached[p]] = Applied(call[c].change, MetaOf(p))
    BY <1>1, <1>3, <1>5 DEF Modify, MetaOf, TypeInv, CallsUnderWay
  <2>2. Holds(call[c].player, cached[p]) /\ Holds(p, cached[p])
    BY <1>5 DEF Holds
  <2>3. call[c].player = p
    BY <1>3, <2>1, <2>2 DEF OneHolder
  <2>4. call[c].change.name \in {NoName, MetaOf(p).name}
    <3>1. CASE Quiet
      BY <2>1, <3>1 DEF Quiet
    <3>2. CASE OwnInv /\ OnlyOwn
      <4>1. MetaOf(p) \in Metas /\ call[c].change \in Metas
        BY <1>1, <1>3 DEF MetaOf, Calls, Changes, Metas
      <4>2. Own(bearers, p, MetaOf(p)) /\ Own(bearers, p, call[c].change)
        BY <1>2, <2>1, <2>3, <3>2 DEF OwnInv, OwnOf
      <4>3. MetaOf(p).name = NameOf[p] /\ call[c].change.name \in {NoName, NameOf[p]}
        BY <1>2, <3>2, <4>1, <4>2 DEF Own, OnlyOwn, Metas
      <4>4. QED
        BY <4>3
    <3>3. QED
      BY <3>1, <3>2
  <2>5. QED
    BY <2>1, <2>4 DEF Applied
<1>6. CASE Modify(c) /\ call[c].ref # cached[p]
  BY <1>1, <1>3, <1>6 DEF Modify, MetaOf
<1>7. CASE UNCHANGED heap
  BY <1>7 DEF MetaOf
<1>8. QED
  BY <1>4, <1>5, <1>6, <1>7 DEF Begins, Begin, CommandPanics, Marshal, PutMetadata, PutFails

\* A name in the index leads to a cached player of that name.
Truth == \A n \in Names : index[n] # NoPlayer => IsCached(index[n]) /\ MetaOf(index[n]).name = n

\* At first the index is empty.
LEMMA InitTruth == Init => Truth
BY DEF Init, Truth

\* An update that gives a player another name takes the old one out of the index.
LEMMA NextTruth == ASSUME TypeInv, OneHolder, Quiet \/ (OwnInv /\ OnlyOwn), Truth, [Next]_vars PROVE Truth'
<1>1. /\ heap \in [Objects -> Metas] /\ cached \in [Players -> 0..cursor]
      /\ index \in [Names -> Players \cup {NoPlayer}]
      /\ NoName \notin Names /\ NoPlayer \notin Players
  BY NamesAssumption DEF TypeInv, TypeOK
<1>2. CASE UpdateLocalCache
  <2> DEFINE e == Head(chan)
  <2>1. /\ heap' = [heap EXCEPT ![e.rev] = e.val] /\ cached' = [cached EXCEPT ![e.key] = e.rev]
        /\ e.key \in Players /\ e.rev \in Objects /\ e.rev \in 1..cursor
        /\ \A p \in Players : cached[p] < e.rev
    BY <1>2, Received DEF UpdateLocalCache
  <2>2. \A n \in Names :
           /\ index'[n] = e.key => n = e.val.name \/ index[n] = e.key
           /\ index'[n] \notin {NoPlayer, e.key} => index'[n] = index[n]
           /\ n # e.val.name /\ IsCached(e.key) /\ MetaOf(e.key).name = n => index'[n] = NoPlayer
    BY <1>2, IndexUpdated
  <2>3. cached'[e.key] = e.rev /\ heap'[e.rev] = e.val /\ e.rev # 0
    BY <1>1, <2>1
  <2> HIDE DEF e
  <2>4. ASSUME NEW n \in Names, index'[n] # NoPlayer
        PROVE  cached'[index'[n]] # 0 /\ heap'[cached'[index'[n]]].name = n
    <3>1. CASE index'[n] = e.key
      <4>1. n = e.val.name
        BY <1>1, <2>1, <2>2, <2>4, <3>1 DEF Truth
      <4>2. QED
        BY <2>3, <3>1, <4>1
    <3>2. CASE index'[n] # e.key
      <4>1. PICK q \in Players \ {e.key} : q = index[n] /\ index'[n] = q /\ IsCached(q) /\ MetaOf(q).name = n
        BY <1>1, <2>2, <2>4, <3>2 DEF Truth
      <4>2. cached'[q] = cached[q] /\ cached[q] # e.rev /\ cached[q] \in Objects
        BY <1>1, <2>1, <4>1, CachedObjects DEF IsCached
      <4>3. QED
        BY <1>1, <2>1, <4>1, <4>2 DEF IsCached, MetaOf
    <3>3. QED
      BY <3>1, <3>2
  <2>5. QED
    BY <2>4 DEF Truth, IsCached, MetaOf
<1>3. ASSUME NEW c \in Callers,
             Begins(c) \/ ReadCache(c) \/ CommandPanics(c) \/ Modify(c) \/ Marshal(c) \/ PutMetadata(c) \/ PutFails(c)
      PROVE  Truth'
  <2>1. /\ UNCHANGED <<cached, index>>
        /\ \A p \in Players : IsCached(p) /\ MetaOf(p).name # NoName =>
                                  heap'[cached[p]].name = MetaOf(p).name
    BY <1>3, CallsLeaveNames
  <2>2. ASSUME NEW n \in Names, index[n] # NoPlayer PROVE heap'[cached[index[n]]].name = n
    BY <1>1, <2>1, <2>2 DEF Truth
  <2>3. QED
    BY <2>1, <2>2 DEF Truth, IsCached, MetaOf
<1>4. CASE ProxyRestart
  BY <1>4 DEF ProxyRestart, Truth
<1>5. CASE UNCHANGED <<cached, index, heap>>
  BY <1>5 DEF Truth, IsCached, MetaOf
<1>6. QED
  BY <1>1, <1>2, <1>3, <1>4, <1>5, DirectorySteps
     DEF OtherWrites, Deliver, DropDelete, SkipGarbage, cacheVars, vars

\* A name in the index leads to a player of that name, as long as calls give players
\* no names, or only those that the other writers give them.
THEOREM IndexAlwaysTruthful == Spec => []IndexIsTruthful
<1>1. CASE ~CallsKeepNames
  <2>1. IndexIsTruthful
    BY <1>1 DEF IndexIsTruthful
  <2>2. QED
    BY <2>1, PTL
<1>2. Truth => IndexIsTruthful
  BY DEF Truth, IndexIsTruthful
<1>3. CASE Renames = {} /\ ~Tracking
  <2>1. TypeInv /\ OneHolder /\ Quiet /\ Truth /\ [Next]_vars => Quiet' /\ Truth'
    BY <1>3, NextQuiet, NextTruth
  <2>2. QED
    BY InitTypeInv, NextTypeInv, InitOneHolder, NextOneHolder, InitQuiet, InitTruth, <1>2, <2>1, PTL
       DEF Spec
<1>4. CASE Renames = {} /\ OwnNamesOnly
  <2>1. TypeInv /\ OneHolder /\ OwnInv /\ OnlyOwn /\ Truth /\ [Next]_vars
            => OwnInv' /\ OnlyOwn' /\ Truth'
    BY <1>4, NextOwnInv, NextOnlyOwn, NextTruth
  <2>2. QED
    BY InitTypeInv, NextTypeInv, InitOneHolder, NextOneHolder, InitOwnInv, InitOnlyOwn, InitTruth,
       <1>2, <2>1, PTL DEF Spec
<1>5. QED
  BY <1>1, <1>3, <1>4 DEF CallsKeepNames

-----------------------------------------------------------------------------
(* The other direction, from names to the index, holds of a name as long as *)
(* one player bears it: an update that takes a name away from a player     *)
(* takes it out of the index whoever it leads to.                          *)

\* The name that was put with the cached revision leads to the player, if no other
\* was ever given it.
Indexed(p) ==
    /\ HoldsMeta(p) /\ cached[p] = bucket.last[p].rev /\ bucket.last[p].val.name # NoName
    /\ bearers[bucket.last[p].val.name] \subseteq {p}
    => index[bucket.last[p].val.name] = p

IndexedInv == \A p \in Players : Indexed(p)

\* At first the bucket names nobody.
LEMMA InitIndexedInv == Init => IndexedInv
BY DEF Init, EmptyBucket, IndexedInv, Indexed, HoldsMeta, HasValue

\* An update touches only names that its player bears.
LEMMA NextIndexedInv == ASSUME TypeInv, OwnInv, IndexedInv, [Next]_vars PROVE IndexedInv'
<1> USE DEF watchVars, cacheVars, lifeVars, historyVars
<1>1. /\ bucket \in Buckets(Players, Vals) /\ bucket.seq \in Nat /\ call \in [Callers -> Calls]
      /\ cached \in [Players -> 0..cursor] /\ cursor \in 0..bucket.seq
      /\ index \in [Names -> Players \cup {NoPlayer}]
  BY DEF TypeInv, TypeOK, Calls, Buckets
<1>0. \A n \in Names : bearers[n] \subseteq bearers'[n]
  BY BearersGrow DEF TypeInv
<1>2. ASSUME NEW q \in Players, NEW op \in {"put", "del"}, NEW v \in Vals,
             bucket' = Written(bucket, q, op, v), UNCHANGED <<cached, index>>
      PROVE  IndexedInv'
  <2>1. /\ bucket'.last[q].rev = bucket.seq + 1
        /\ \A p \in Players \ {q} : bucket'.last[p] = bucket.last[p]
    BY <1>1, <1>2 DEF Written, Buckets
  <2>2. cached[q] # bucket'.last[q].rev
    BY <1>1, <2>1
  <2>3. ASSUME NEW p \in Players \ {q}, Indexed(p) PROVE Indexed(p)'
    BY <1>0, <1>2, <2>1, <2>3 DEF Indexed, HoldsMeta, HasValue, Metas
  <2>4. QED
    BY <1>2, <2>2, <2>3 DEF IndexedInv, Indexed
<1>3. CASE UpdateLocalCache
  <2> DEFINE e == Head(chan)
  <2>1. /\ cached' = [cached EXCEPT ![e.key] = e.rev] /\ UNCHANGED <<bucket, bearers>>
        /\ chan # <<>> /\ chan' = Tail(chan) /\ e.val \in Metas
    BY <1>3 DEF UpdateLocalCache
  <2>2. e.key \in Players /\ e.rev \in 1..cursor /\ Fits(bucket, e)
    BY <2>1, Received
  <2>3. Own(bearers, e.key, e.val) /\ (IsCached(e.key) => Own(bearers, e.key, MetaOf(e.key)))
    <3>1. 1 \in DOMAIN chan /\ e = chan[1]
      BY <2>1, HeadTailProperties, LenProperties, EmptySeq DEF TypeInv, TypeOK
    <3>2. QED
      BY <2>2, <3>1 DEF OwnInv, OwnOf
  <2>4. /\ e.val.name # NoName => index'[e.val.name] = e.key
        /\ \A n \in Names : n # e.val.name /\ (IsCached(e.key) => MetaOf(e.key).name # n) =>
                                index'[n] = index[n]
    BY <1>3, IndexUpdated
  <2>5. IsCached(e.key) => MetaOf(e.key) \in Metas
    BY <2>2, CachedObjects DEF IsCached, MetaOf, TypeInv, TypeOK
  <2> HIDE DEF e
  <2>6. ASSUME NEW p \in Players, HoldsMeta(p), cached'[p] = bucket.last[p].rev,
               bucket.last[p].val.name # NoName, bearers[bucket.last[p].val.name] \subseteq {p}
        PROVE  index'[bucket.last[p].val.name] = p
    <3> DEFINE n == bucket.last[p].val.name
    <3>1. n \in Names
      BY <2>6 DEF HoldsMeta, Metas
    <3>2. CASE p = e.key
      <4>1. cached'[p] = e.rev
        BY <1>1, <2>1, <2>2, <3>2
      <4>2. e.val = bucket.last[p].val
        BY <2>2, <2>6, <3>2, <4>1 DEF Fits, EntryOf
      <4>3. QED
        BY <2>4, <2>6, <3>2, <4>2
    <3>3. CASE p # e.key
      <4>1. cached[p] = bucket.last[p].rev /\ index[n] = p
        BY <1>1, <2>1, <2>2, <2>6, <3>3 DEF IndexedInv, Indexed
      <4>2. e.key \notin bearers[n]
        BY <2>6, <3>3
      <4>3. n # NoName
        BY <2>6
      <4>4. n # e.val.name /\ (IsCached(e.key) => MetaOf(e.key).name # n)
        BY <2>1, <2>3, <2>5, <4>2, <4>3 DEF Own
      <4>5. QED
        BY <2>4, <3>1, <4>1, <4>4
    <3>4. QED
      BY <3>2, <3>3
  <2>7. QED
    BY <2>1, <2>6 DEF IndexedInv, Indexed, HoldsMeta, HasValue
<1>4. CASE ProxyRestart
  <2>1. UNCHANGED bucket /\ \A p \in Players : cached'[p] = 0
    BY <1>4 DEF ProxyRestart
  <2>2. \A p \in Players : HoldsMeta(p) => bucket.last[p].rev > 0
    BY CachedObjects
  <2>3. \A p \in Players : bucket.last[p].rev \in Nat
    BY CachedObjects
  <2>4. QED
    BY <2>1, <2>2, <2>3 DEF IndexedInv, Indexed, HoldsMeta
<1>5. CASE UNCHANGED <<bucket, cached, index>>
  BY <1>0, <1>5 DEF IndexedInv, Indexed, HoldsMeta, HasValue, Metas
<1>6. CASE OtherWrites
  BY <1>2, <1>6 DEF OtherWrites
<1>7. ASSUME NEW c \in Callers, PutMetadata(c) PROVE IndexedInv'
  <2>1. call[c].player \in Players /\ call[c].data \in Vals
    BY <1>1, <1>7 DEF PutMetadata, TypeInv, CallsUnderWay, Calls, Vals
  <2>2. QED
    BY <1>2, <1>7, <2>1 DEF PutMetadata, KVPut
<1>8. QED
  BY <1>1, <1>3, <1>4, <1>5, <1>6, <1>7, DirectorySteps
     DEF Deliver, DropDelete, SkipGarbage, Begins, Begin, ReadCache, CommandPanics, Modify, Marshal, PutFails, vars

\* Once the watcher has caught up, a name that no other player was ever given leads
\* to the player who has it in the bucket, whatever happened to the other names.
THEOREM OwnNamesAlwaysFound == Spec => []OwnNamesAreFound
<1>1. ASSUME TypeInv, CopyInv, IndexedInv PROVE OwnNamesAreFound
  <2> SUFFICES ASSUME Drained, NEW p \in Players, NEW n \in Names, IsNamed(p, n), bearers[n] \subseteq {p}
               PROVE  index[n] = p
    BY DEF OwnNamesAreFound
  <2>1. HoldsMeta(p) /\ bucket.last[p].val.name = n /\ n # NoName
    BY NamesAssumption DEF IsNamed, HoldsMeta
  <2>2. ~(bucket.last[p].rev > cursor)
    BY <1>1, CachedObjects DEF Drained, AllSent, TypeInv, TypeOK, Buckets
  <2>3. ~Waits(chan, EntryOf(bucket, p))
    BY DEF Drained, Waits
  <2>4. cached[p] = bucket.last[p].rev
    BY <1>1, <2>1, <2>2, <2>3 DEF CopyInv, Accounted
  <2>5. QED
    BY <1>1, <2>1, <2>4 DEF IndexedInv, Indexed
<1>2. TypeInv /\ OneHolder /\ OwnInv /\ IndexedInv /\ [Next]_vars => OwnInv' /\ IndexedInv'
  BY NextOwnInv, NextIndexedInv
<1>3. QED
  BY InitTypeInv, NextTypeInv, InitOneHolder, NextOneHolder, InitCopyInv, NextCopyInv, InitOwnInv,
     InitIndexedInv, <1>1, <1>2, PTL DEF Spec
=============================================================================
