---------------------------- MODULE CheckerProofs ---------------------------
(***************************************************************************)
(* Theorems about the permissions checker: its metadata caches, for every  *)
(* set of keys and values, and its policies, for every set of rules and    *)
(* any number of calls at a time; both for every bound.                    *)
(***************************************************************************)
EXTENDS MetadataCache, CheckerPolicies, KVBucketProofs, FiniteSetTheorems, SequenceTheorems

-----------------------------------------------------------------------------
(* Type correctness, and the order of what was sent.  That a taken         *)
(* revision is not beyond the cursor, and that the client counts no        *)
(* further than it should, rest on the order in which entries wait.        *)

Sent == Entries(Keys, Vals) \cup {Marker}

\* Entries wait in the order of their revisions and are newer than all that
\* were taken; the marker alone has no revision.
SentInOrder ==
    /\ WellNumbered(bucket)
    /\ Ordered(bucket, cursor, chan)
    /\ \A i \in DOMAIN chan : chan[i].rev = 0 => chan[i] = Marker
    /\ \A i \in DOMAIN chan : chan[i].rev > 0 => \A k \in Keys : applied[k] < chan[i].rev

\* Until the marker is sent no more was received than is expected.
CountedInitial == ~initDone => received <= initPending

\* A service that is down holds nothing.
DownIsEmpty ==
    loop = "down" => /\ cursor = 0 /\ chan = <<>> /\ since = 0
                     /\ ~initDone /\ initPending = 0 /\ received = 0 /\ ~stalled
                     /\ \A k \in Keys : applied[k] = 0 /\ cache[k] = NoMeta

TypeInv == TypeOK /\ SentInOrder /\ CountedInitial /\ DownIsEmpty

\* The service is down at first.
LEMMA InitTypeInv == Init => TypeInv
<1> SUFFICES ASSUME Init PROVE TypeInv
  OBVIOUS
<1>1. bucket \in Buckets(Keys, Vals) /\ bucket.seq = 0 /\ WellNumbered(bucket) /\ Ordered(bucket, 0, <<>>)
  BY EmptyBucketType, EmptyBucketOrder DEF Init, Vals, EmptyBucket
<1>2. Cardinality(Keys) \in Nat
  BY KeysAssumption, FS_CardinalityType
<1>3. TypeOK
  <2>1. chan \in Seq(Sent) /\ Len(chan) <= ChanCap
    BY BoundsAssumption, EmptySeq DEF Init
  <2>2. /\ cursor \in 0..bucket.seq /\ since \in 0..bucket.seq /\ applied \in [Keys -> 0..cursor]
        /\ initPending \in 0..Cardinality(Keys) /\ received \in 0..(initPending + 1)
        /\ starts \in 0..MaxStarts
    BY <1>1, <1>2, BoundsAssumption DEF Init
  <2>3. QED
    BY <1>1, <2>1, <2>2 DEF Init, TypeOK, Sent
<1>4. SentInOrder /\ CountedInitial /\ DownIsEmpty
  BY <1>1 DEF Init, SentInOrder, CountedInitial, DownIsEmpty
<1>5. QED
  BY <1>3, <1>4 DEF TypeInv

\* What the count was when k was delivered.
Left(k) == Cardinality(Pending(bucket.last[k].rev))
Expected(k) == IF initPending = 0 THEN Left(k) ELSE initPending
Completes(k) == ~initDone /\ IsLastInitial(received + 1, Expected(k), Left(k))

\* A delivery adds the entry, and the marker if it completes the initial values.
LEMMA Delivered ==
    ASSUME TypeInv, NEW k \in Keys, Deliver(k)
    PROVE  /\ chan' \in Seq(Sent) /\ Len(chan') <= ChanCap
           /\ Ordered(bucket, cursor', chan') /\ cursor' = bucket.last[k].rev /\ cursor < cursor'
           /\ cursor' \in 1..bucket.seq
           /\ \A i \in 1..Len(chan) : i \in DOMAIN chan' /\ chan'[i] = chan[i]
           /\ \A i \in DOMAIN chan' : i \notin 1..Len(chan) =>
                  \/ i = Len(chan) + 1 /\ chan'[i] = EntryOf(bucket, k)
                  \/ i = Len(chan) + 2 /\ chan'[i] = Marker /\ Completes(k)
           /\ Len(chan) + 1 \in DOMAIN chan' /\ chan'[Len(chan) + 1] = EntryOf(bucket, k)
           /\ EntryOf(bucket, k).rev = cursor'
           /\ \A j \in Keys : bucket.last[j].rev <= cursor' => j = k \/ bucket.last[j].rev <= cursor
<1> DEFINE e == EntryOf(bucket, k)
           new == Append(chan, e)
<1>1. /\ bucket \in Buckets(Keys, Vals) /\ chan \in Seq(Sent) /\ cursor \in Nat
      /\ WellNumbered(bucket) /\ Ordered(bucket, cursor, chan)
  BY DEF TypeInv, TypeOK, SentInOrder, Sent, Buckets
<1>2. /\ Len(chan) + 1 < ChanCap /\ IsNext(bucket, cursor, k) /\ cursor' = bucket.last[k].rev
      /\ chan' = new \o IF Completes(k) THEN <<Marker>> ELSE <<>>
  BY DEF Deliver, Completes, Expected, Left
<1>3. e \in Sent /\ Marker \in Sent /\ Marker.rev = 0 /\ e.rev = cursor' /\ cursor' \in Nat
  BY <1>1, <1>2, EntryOfType DEF Sent, Marker
<1>4. \A d \in Sent : d.rev \in Nat
  BY DEF Sent, Marker, Entries
<1>5. /\ Ordered(bucket, cursor', new)
      /\ \A j \in Keys : bucket.last[j].rev <= cursor' => j = k \/ bucket.last[j].rev <= cursor
  BY <1>1, <1>2, <1>3, <1>4, DeliveryKeepsOrder
<1>6. /\ new \in Seq(Sent) /\ Len(chan) \in Nat /\ Len(new) = Len(chan) + 1
      /\ DOMAIN new = 1..Len(chan) + 1
      /\ \A i \in 1..Len(chan) : new[i] = chan[i]
      /\ new[Len(chan) + 1] = e
  BY <1>1, <1>3, AppendProperties, LenProperties
<1>7. cursor < cursor' /\ cursor' \in 1..bucket.seq
  BY <1>1, <1>2, <1>3 DEF IsNext, WellNumbered, Buckets
<1>8. CASE ~Completes(k)
  <2>1. chan' = new
    BY <1>2, <1>6, <1>8, ConcatEmptySeq
  <2>2. Len(chan') <= ChanCap /\ \A i \in DOMAIN chan' : i \in 1..Len(chan) \/ i = Len(chan) + 1
    BY <1>2, <1>6, <2>1, BoundsAssumption
  <2>3. /\ \A i \in 1..Len(chan) : i \in DOMAIN chan' /\ chan'[i] = chan[i]
        /\ Len(chan) + 1 \in DOMAIN chan' /\ chan'[Len(chan) + 1] = e
    BY <1>6, <2>1
  <2>4. QED
    BY <1>2, <1>3, <1>5, <1>6, <1>7, <2>1, <2>2, <2>3
<1>9. CASE Completes(k)
  <2>1. chan' = Append(new, Marker)
    BY <1>2, <1>3, <1>6, <1>9, AppendIsConcat
  <2>2. /\ chan' \in Seq(Sent) /\ Len(chan') = Len(chan) + 2 /\ DOMAIN chan' = 1..Len(chan) + 2
        /\ \A i \in 1..Len(chan) + 1 : chan'[i] = new[i]
        /\ chan'[Len(chan) + 2] = Marker
    BY <1>3, <1>6, <2>1, AppendProperties, LenProperties
  <2>3. Ordered(bucket, cursor', chan')
    BY <1>3, <1>5, <1>6, <2>1, MarkerKeepsOrder
  <2>4. /\ Len(chan') <= ChanCap
        /\ \A i \in DOMAIN chan' : i \in 1..Len(chan) \/ i = Len(chan) + 1 \/ i = Len(chan) + 2
    BY <1>2, <1>6, <2>2, BoundsAssumption
  <2>5. QED
    BY <1>2, <1>3, <1>5, <1>6, <1>7, <1>9, <2>2, <2>3, <2>4
<1>10. QED
  BY <1>8, <1>9

\* What is received is the marker, or newer than all that was taken and older than
\* what waits behind it.
LEMMA Received ==
    ASSUME TypeInv, Receive
    PROVE  LET e == Head(chan) IN
           /\ e \in Sent /\ chan' \in Seq(Sent) /\ Len(chan') <= ChanCap
           /\ Ordered(bucket, cursor, chan')
           /\ \A i \in DOMAIN chan' : i + 1 \in DOMAIN chan /\ chan'[i] = chan[i + 1]
           /\ \A i \in DOMAIN chan : i = 1 \/ (i - 1 \in DOMAIN chan' /\ chan'[i - 1] = chan[i])
           /\ 1 \in DOMAIN chan /\ chan[1] = e
           /\ e.rev = 0 => e = Marker
           /\ e.rev > 0 => /\ e \in Entries(Keys, Vals) /\ e.rev <= cursor /\ Fits(bucket, e)
                           /\ \A k \in Keys : applied[k] < e.rev
                           /\ \A i \in DOMAIN chan' : chan'[i].rev > 0 => e.rev < chan'[i].rev
<1> DEFINE e == Head(chan)
<1>1. /\ chan \in Seq(Sent) /\ cursor \in Nat /\ Ordered(bucket, cursor, chan) /\ chan # <<>>
      /\ chan' = Tail(chan) /\ Len(chan) <= ChanCap
  BY DEF TypeInv, TypeOK, SentInOrder, Sent, Buckets, Receive
<1>2. \A d \in Sent : d.rev \in Nat /\ (d.rev > 0 => d \in Entries(Keys, Vals))
  BY DEF Sent, Marker, Entries
<1>3. /\ e \in Sent /\ chan' \in Seq(Sent) /\ Len(chan') = Len(chan) - 1
      /\ Ordered(bucket, cursor, chan')
      /\ e.rev > 0 => e.rev <= cursor /\ Fits(bucket, e)
      /\ e.rev > 0 => \A i \in DOMAIN chan' : chan'[i].rev > 0 => e.rev < chan'[i].rev
  BY <1>1, <1>2, ReceiptKeepsOrder
<1>4. /\ Len(chan) \in Nat \ {0} /\ DOMAIN chan = 1..Len(chan) /\ DOMAIN chan' = 1..Len(chan) - 1
      /\ \A i \in 1..Len(chan) - 1 : chan'[i] = chan[i + 1]
      /\ chan[1] = e
  BY <1>1, HeadTailProperties, LenProperties, EmptySeq
<1>5. /\ \A i \in DOMAIN chan' : i + 1 \in DOMAIN chan /\ chan'[i] = chan[i + 1]
      /\ \A i \in DOMAIN chan : i = 1 \/ (i - 1 \in DOMAIN chan' /\ chan'[i - 1] = chan[i])
      /\ 1 \in DOMAIN chan
  BY <1>4
<1>6. Len(chan') <= ChanCap
  BY <1>1, <1>3, <1>4, BoundsAssumption
<1>7. /\ e.rev = 0 => e = Marker
      /\ e.rev > 0 => \A k \in Keys : applied[k] < e.rev
  BY <1>4, <1>5 DEF TypeInv, SentInOrder
<1>8. QED
  BY <1>2, <1>3, <1>4, <1>5, <1>6, <1>7

\* No step gives a variable a value out of its range, or disturbs the order.
LEMMA NextTypeInv == TypeInv /\ [Next]_vars => TypeInv'
<1> SUFFICES ASSUME TypeInv, [Next]_vars PROVE TypeInv'
  OBVIOUS
<1> USE DEF sentVars, initVars, cacheVars, lifeVars
<1>1. /\ bucket \in Buckets(Keys, Vals) /\ cursor \in 0..bucket.seq /\ bucket.seq \in Nat
      /\ chan \in Seq(Sent) /\ Len(chan) <= ChanCap
      /\ initDone \in BOOLEAN /\ initPending \in 0..Cardinality(Keys) /\ received \in 0..(initPending + 1)
      /\ loop \in {"down", "watching", "ended"}
      /\ cache \in [Keys -> Metas \cup {NoMeta}] /\ applied \in [Keys -> 0..cursor]
      /\ since \in 0..bucket.seq /\ stalled \in BOOLEAN /\ starts \in 0..MaxStarts
      /\ WellNumbered(bucket) /\ Ordered(bucket, cursor, chan)
  BY DEF TypeInv, TypeOK, SentInOrder, Sent, Buckets
<1>2. Cardinality(Keys) \in Nat /\ ChanCap \in Nat \ {0, 1} /\ MaxStarts \in Nat
  BY KeysAssumption, FS_CardinalityType, BoundsAssumption
<1>3. ASSUME NEW k \in Keys, NEW op \in {"put", "del"}, NEW v \in Vals,
             bucket' = Written(bucket, k, op, v), UNCHANGED <<sentVars, initVars, cacheVars, lifeVars>>
      PROVE  TypeInv'
  <2>1. bucket' \in Buckets(Keys, Vals)
    BY <1>1, <1>3, WrittenType DEF Ops
  <2>2. WellNumbered(bucket') /\ bucket'.seq = bucket.seq + 1
    <3>1. bucket \in Buckets(Keys, Vals) /\ WellNumbered(bucket)
      BY <1>1
    <3>2. \A b \in Buckets(Keys, Vals) : WellNumbered(b) => WellNumbered(Written(b, k, op, v))
      BY WrittenNumbered
    <3>3. Written(bucket, k, op, v).seq = bucket.seq + 1
      BY DEF Written
    <3>4. QED
      BY <1>3, <3>1, <3>2, <3>3
  <2>3. \A d \in Sent : d.rev \in Nat /\ (d.rev > 0 => d.key \in Keys)
    BY DEF Sent, Marker, Entries
  <2>4. Ordered(bucket', cursor, chan)
    BY <1>1, <1>3, <2>3, WriteKeepsOrder
  <2>5. cursor' \in 0..bucket'.seq /\ since' \in 0..bucket'.seq
    BY <1>1, <1>3, <2>2
  <2>6. QED
    BY <1>1, <1>3, <2>1, <2>2, <2>4, <2>5 DEF TypeInv, TypeOK, SentInOrder, CountedInitial, DownIsEmpty, Sent
<1>4. CASE WriterStep
  BY <1>3, <1>4 DEF WriterStep, Put, Delete, KVPut, KVDelete, Vals
<1>5. CASE Start
  <2>1. /\ cursor' = 0 /\ chan' \in {<<Marker>>, <<>>} /\ initPending' = 0 /\ received' = 0
        /\ initDone' \in BOOLEAN /\ since' = bucket.seq /\ loop' = "watching" /\ starts' \in 0..MaxStarts
        /\ UNCHANGED <<bucket, cache, applied, stalled>>
    BY <1>1, <1>2, <1>5 DEF Start, TypeInv, DownIsEmpty
  <2>2. /\ chan' \in Seq(Sent) /\ Len(chan') <= ChanCap /\ Ordered(bucket, 0, chan')
        /\ \A i \in DOMAIN chan' : chan'[i] = Marker /\ chan'[i].rev = 0
    <3>1. CASE chan' = <<>>
      BY <1>1, <1>2, <3>1 DEF Ordered
    <3>2. CASE chan' = <<Marker>>
      <4>1. /\ chan' \in Seq(Sent) /\ Len(chan') = 1 /\ DOMAIN chan' = 1..1
            /\ chan'[1] = Marker /\ Marker.rev = 0
        BY <3>2 DEF Sent, Marker
      <4>2. \A i \in DOMAIN chan' : chan'[i] = Marker /\ chan'[i].rev = 0
        BY <4>1
      <4>3. QED
        BY <1>1, <1>2, <4>1, <4>2 DEF Ordered
    <3>3. QED
      BY <2>1, <3>1, <3>2
  <2>3. applied \in [Keys -> 0..0]
    BY <1>1, <1>5 DEF Start, TypeInv, DownIsEmpty
  <2>4. QED
    BY <1>1, <1>2, <2>1, <2>2, <2>3 DEF TypeInv, TypeOK, SentInOrder, CountedInitial, DownIsEmpty, Sent
<1>6. CASE Stop
  <2>1. Ordered(bucket, 0, <<>>)
    BY <1>1, NothingSent
  <2>2. /\ cursor' = 0 /\ chan' = <<>> /\ initPending' = 0 /\ received' = 0 /\ ~initDone'
        /\ since' = 0 /\ ~stalled' /\ loop' = "down"
        /\ \A k \in Keys : applied'[k] = 0 /\ cache'[k] = NoMeta
        /\ applied' \in [Keys -> 0..0] /\ cache' \in [Keys -> Metas \cup {NoMeta}]
        /\ UNCHANGED <<bucket, starts>>
    BY <1>6 DEF Stop
  <2>3. initDone' \in BOOLEAN /\ stalled' \in BOOLEAN
    BY <1>6 DEF Stop
  <2>4. QED
    BY <1>1, <1>2, <2>1, <2>2, <2>3 DEF TypeInv, TypeOK, SentInOrder, CountedInitial, DownIsEmpty, Sent
<1>7. ASSUME NEW k \in Keys, Deliver(k) PROVE TypeInv'
  <2>1. /\ chan' \in Seq(Sent) /\ Len(chan') <= ChanCap
        /\ Ordered(bucket, cursor', chan') /\ cursor < cursor' /\ cursor' \in 1..bucket.seq
        /\ \A i \in 1..Len(chan) : chan'[i] = chan[i]
        /\ \A i \in DOMAIN chan' : i \notin 1..Len(chan) =>
               chan'[i] = EntryOf(bucket, k) \/ chan'[i] = Marker
        /\ EntryOf(bucket, k).rev = cursor'
    BY <1>7, Delivered
  <2>2. /\ loop = "watching" /\ UNCHANGED <<bucket, cache, applied, loop, since, stalled, starts>>
        /\ initDone' = (initDone \/ Completes(k))
        /\ IF initDone THEN UNCHANGED <<initPending, received>>
                       ELSE received' = received + 1 /\ initPending' = Expected(k)
    BY <1>7 DEF Deliver, Completes, Expected, Left
  <2>3. \A i \in DOMAIN chan' : /\ chan'[i].rev = 0 => chan'[i] = Marker
                                /\ chan'[i].rev > 0 => \A j \in Keys : applied[j] < chan'[i].rev
    <3> TAKE i \in DOMAIN chan'
    <3>1. CASE i \in 1..Len(chan)
      BY <1>1, <2>1, <3>1, LenProperties DEF TypeInv, SentInOrder
    <3>2. CASE chan'[i] = EntryOf(bucket, k)
      BY <1>1, <2>1, <3>2
    <3>3. CASE chan'[i] = Marker
      BY <3>3 DEF Marker
    <3>4. QED
      BY <2>1, <3>1, <3>2, <3>3
  <2>4. Expected(k) \in 0..Cardinality(Keys) /\ initPending <= Expected(k)
    <3>1. Left(k) \in 0..Cardinality(Keys)
      BY <1>2, KeysAssumption, FS_Subset, FS_CardinalityType DEF Left, Pending
    <3>2. QED
      BY <1>1, <1>2, <3>1 DEF Expected
  <2>5. /\ initDone' \in BOOLEAN
        /\ initPending' \in 0..Cardinality(Keys) /\ received' \in 0..(initPending' + 1)
        /\ CountedInitial'
    <3>1. CASE initDone
      BY <1>1, <2>2, <3>1 DEF CountedInitial
    <3>2. CASE ~initDone
      <4>1. received' = received + 1 /\ initPending' = Expected(k) /\ received <= initPending
            /\ (initDone' <=> Completes(k))
        BY <2>2, <3>2 DEF TypeInv, CountedInitial
      <4>2. ~(received + 1 > Expected(k)) \/ Completes(k)
        BY <3>2 DEF Completes, IsLastInitial
      <4>3. /\ initPending' \in 0..Cardinality(Keys) /\ received' \in 0..(initPending' + 1)
            /\ Completes(k) \/ received' <= initPending'
        BY <1>1, <1>2, <2>4, <4>1, <4>2
      <4>4. QED
        BY <2>2, <4>1, <4>3 DEF CountedInitial
    <3>3. QED
      BY <3>1, <3>2
  <2>6. applied' \in [Keys -> 0..cursor']
    BY <1>1, <2>1, <2>2
  <2>7. SentInOrder' /\ DownIsEmpty'
    BY <1>1, <2>1, <2>2, <2>3 DEF SentInOrder, DownIsEmpty
  <2>8. /\ UNCHANGED <<bucket, cache, loop, since, stalled, starts>>
        /\ chan' \in Seq(Sent) /\ Len(chan') <= ChanCap /\ cursor' \in 0..bucket.seq
    BY <1>1, <2>1, <2>2
  <2>9. TypeOK'
    BY <1>1, <2>5, <2>6, <2>8 DEF TypeOK, Sent
  <2>10. QED
    BY <2>5, <2>7, <2>9 DEF TypeInv
<1>8. CASE InitTimeout
  <2>1. /\ chan' = Append(chan, Marker) /\ Len(chan) < ChanCap /\ initDone' = TRUE /\ stalled' = TRUE
        /\ loop = "watching"
        /\ UNCHANGED <<bucket, cursor, initPending, received, cache, applied, loop, since, starts>>
    BY <1>8 DEF InitTimeout
  <2>2. Marker \in Sent /\ Marker.rev = 0
    BY DEF Sent, Marker
  <2>3. Ordered(bucket, cursor, chan')
    BY <1>1, <2>1, <2>2, MarkerKeepsOrder
  <2>4. /\ chan' \in Seq(Sent) /\ Len(chan') <= ChanCap
        /\ \A i \in DOMAIN chan' : (i \in DOMAIN chan /\ chan'[i] = chan[i]) \/ chan'[i] = Marker
    BY <1>1, <1>2, <2>1, <2>2, AppendProperties, LenProperties
  <2>5. SentInOrder'
    BY <1>1, <2>1, <2>2, <2>3, <2>4 DEF TypeInv, SentInOrder
  <2>6. QED
    BY <1>1, <2>1, <2>4, <2>5 DEF TypeInv, TypeOK, CountedInitial, DownIsEmpty, Sent
<1>9. ASSUME Receive, Head(chan).rev > 0 => Took(Head(chan)),
             Head(chan).rev = 0 => UNCHANGED applied, loop' \in {"watching", "ended"},
             cache' \in [Keys -> Metas \cup {NoMeta}]
      PROVE  TypeInv'
  <2> DEFINE e == Head(chan)
  <2>1. /\ e \in Sent /\ chan' \in Seq(Sent) /\ Len(chan') <= ChanCap
        /\ Ordered(bucket, cursor, chan')
        /\ \A i \in DOMAIN chan' : i + 1 \in DOMAIN chan /\ chan'[i] = chan[i + 1]
        /\ e.rev > 0 => /\ e \in Entries(Keys, Vals) /\ e.rev <= cursor
                        /\ \A i \in DOMAIN chan' : chan'[i].rev > 0 => e.rev < chan'[i].rev
    BY <1>9, Received
  <2>2. /\ loop = "watching"
        /\ UNCHANGED <<bucket, cursor, initDone, initPending, received, since, stalled, starts>>
    BY <1>9 DEF Receive
  <2>3. /\ applied' \in [Keys -> 0..cursor]
        /\ \A i \in DOMAIN chan' : chan'[i].rev > 0 => \A k \in Keys : applied'[k] < chan'[i].rev
    <3>1. \A i \in DOMAIN chan' : chan'[i].rev > 0 => \A k \in Keys : applied[k] < chan'[i].rev
      BY <2>1 DEF TypeInv, SentInOrder
    <3>2. CASE e.rev = 0
      BY <1>1, <1>9, <3>1, <3>2
    <3>3. CASE e.rev > 0
      <4>1. applied' = [applied EXCEPT ![e.key] = e.rev] /\ e.key \in Keys /\ e.rev \in 0..cursor
        BY <1>1, <1>9, <2>1, <3>3 DEF Took, Entries
      <4>2. QED
        BY <1>1, <2>1, <3>1, <3>3, <4>1
    <3>4. QED
      BY <2>1, <3>2, <3>3 DEF Sent, Entries, Marker
  <2>4. SentInOrder' /\ CountedInitial' /\ DownIsEmpty'
    BY <1>1, <1>9, <2>1, <2>2, <2>3 DEF TypeInv, SentInOrder, CountedInitial, DownIsEmpty
  <2>5. TypeOK'
    BY <1>1, <1>9, <2>1, <2>2, <2>3 DEF TypeOK, Sent
  <2>6. QED
    BY <2>4, <2>5 DEF TypeInv
<1>10. CASE LoopStep
  <2>1. ASSUME Receive, Head(chan).op \in {"put", "del"}
        PROVE  Head(chan).rev > 0 /\ Head(chan).key \in Keys
    BY <2>1, Received DEF Sent, Entries, Marker
  <2>2. CASE CachePut
    BY <1>1, <1>9, <2>1, <2>2 DEF CachePut, Took, Receive
  <2>3. CASE CacheDelete
    BY <1>1, <1>9, <2>1, <2>3 DEF CacheDelete, Took, Receive
  <2>4. CASE SkipGarbage
    BY <1>1, <1>9, <2>1, <2>4 DEF SkipGarbage, Took, Receive
  <2>5. CASE EndLoop
    BY <1>1, <1>9, <2>5 DEF EndLoop, Marker
  <2>6. QED
    BY <1>10, <2>2, <2>3, <2>4, <2>5 DEF LoopStep
<1>11. CASE UNCHANGED vars
  BY <1>11 DEF vars, TypeInv, TypeOK, SentInOrder, CountedInitial, DownIsEmpty
<1>12. QED
  BY <1>4, <1>5, <1>6, <1>7, <1>8, <1>10, <1>11 DEF Next, ClientStep

\* Every variable has its type.
THEOREM CacheTypeCorrect == Spec => []TypeOK
BY InitTypeInv, NextTypeInv, PTL DEF Spec, TypeInv

-----------------------------------------------------------------------------
(* The cache as a replica of the bucket.                                   *)

\* What a writer does.
Writes(k, op, v) ==
    /\ bucket' = Written(bucket, k, op, v)
    /\ UNCHANGED <<cursor, chan, initDone, initPending, received, cache, applied,
                   loop, since, stalled, starts>>

\* A put and a delete are writes.
LEMMA WriterWrites ==
    ASSUME WriterStep
    PROVE  \E k \in Keys, op \in {"put", "del"}, v \in Vals : Writes(k, op, v)
BY DEF WriterStep, Put, Delete, KVPut, KVDelete, Vals, Writes, sentVars, initVars, cacheVars, lifeVars

\* The loop takes over the entry it received, if that is not the marker.
LEMMA LoopTakes ==
    ASSUME TypeInv, LoopStep
    PROVE  LET e == Head(chan) IN
           /\ Receive
           /\ \/ e = Marker /\ loop' = "ended" /\ UNCHANGED <<cache, applied>>
              \/ /\ e.rev > 0 /\ loop' = "watching"
                 /\ applied' = [applied EXCEPT ![e.key] = e.rev]
                 /\ \/ e.op = "put" /\ e.val \in Metas /\ cache' = [cache EXCEPT ![e.key] = e.val]
                    \/ e.op = "del" /\ cache' = [cache EXCEPT ![e.key] = NoMeta]
                    \/ e.op = "put" /\ e.val \notin Metas /\ cache' = cache
<1> USE DEF cacheVars
<1>1. Receive
  BY DEF LoopStep, CachePut, CacheDelete, SkipGarbage, EndLoop
<1>2. loop = "watching" /\ Head(chan) \in Sent /\ (Head(chan).rev = 0 => Head(chan) = Marker)
  BY <1>1, Received DEF Receive
<1>3. Head(chan).op \in {"put", "del"} => Head(chan).rev > 0
  BY <1>2 DEF Sent, Entries, Marker
<1>4. CASE CachePut
  BY <1>1, <1>2, <1>3, <1>4 DEF CachePut, Took
<1>5. CASE CacheDelete
  BY <1>1, <1>2, <1>3, <1>5 DEF CacheDelete, Took
<1>6. CASE SkipGarbage
  BY <1>1, <1>2, <1>3, <1>6 DEF SkipGarbage, Took
<1>7. CASE EndLoop
  BY <1>1, <1>7 DEF EndLoop
<1>8. QED
  BY <1>4, <1>5, <1>6, <1>7 DEF LoopStep

\* The cache takes over revisions of its keys in the order they were written,
\* never one nobody wrote, and begins again from nothing when the service does.
THEOREM CacheFollowsBucket == Spec => FollowsBucket
<1> USE DEF Copy!vars
<1>1. Init => Copy!Init
  BY DEF Init, EmptyBucket, Copy!Init
<1>2. ASSUME TypeInv, [Next]_vars PROVE [Copy!Next]_(Copy!vars)
  <2>1. /\ bucket \in Buckets(Keys, Vals) /\ chan \in Seq(Sent) /\ applied \in [Keys -> Nat]
        /\ applied \in [Keys -> 0..cursor]
    BY <1>2 DEF TypeInv, TypeOK, Sent, Buckets
  <2>2. CASE WriterStep
    <3>1. PICK k \in Keys, op \in {"put", "del"}, v \in Vals : Writes(k, op, v)
      BY <2>2, WriterWrites
    <3>2. Copy!Write(k)
      BY <2>1, <3>1 DEF Writes, Written, Buckets, Revisions, Copy!Write
    <3>3. QED
      BY <3>2 DEF Copy!Next
  <2>3. CASE Start
    BY <2>3 DEF Start, cacheVars
  <2>4. CASE Stop
    BY <2>4 DEF Stop, Copy!Next, Copy!Restart
  <2>5. CASE ClientStep
    BY <2>5 DEF ClientStep, Deliver, InitTimeout, cacheVars
  <2>6. CASE LoopStep
    <3> DEFINE e == Head(chan)
    <3>1. Receive /\ UNCHANGED bucket
      BY <1>2, <2>6, LoopTakes DEF Receive
    <3>2. CASE UNCHANGED applied
      BY <3>1, <3>2
    <3>3. CASE e.rev > 0 /\ applied' = [applied EXCEPT ![e.key] = e.rev]
      <4>1. /\ e \in Entries(Keys, Vals) /\ Fits(bucket, e)
            /\ \A k \in Keys : applied[k] < e.rev
        BY <1>2, <3>1, <3>3, Received
      <4>2. e.key \in Keys /\ e.rev \in 1..bucket.last[e.key].rev
        BY <2>1, <3>3, <4>1 DEF Entries, Fits, Buckets, Revisions
      <4>3. Copy!TakeOver(e.key)
        BY <3>1, <3>3, <4>1, <4>2 DEF Copy!TakeOver
      <4>4. QED
        BY <4>2, <4>3 DEF Copy!Next
    <3>4. QED
      BY <1>2, <2>6, <3>2, <3>3, LoopTakes
  <2>7. CASE UNCHANGED vars
    BY <2>7 DEF vars
  <2>8. QED
    BY <1>2, <2>2, <2>3, <2>4, <2>5, <2>6, <2>7 DEF Next
<1>3. QED
  BY InitTypeInv, NextTypeInv, <1>1, <1>2, PTL DEF Spec, FollowsBucket, Copy!Spec

-----------------------------------------------------------------------------
(* The initial values.  The marker is found by a count that keys written   *)
(* meanwhile change; that it never comes early rests on what is still to   *)
(* be delivered of the values the bucket held when the watch began.        *)

\* Keys not written since the watch began, and still to be delivered.
Old(c) == {k \in Keys : c < bucket.last[k].rev /\ bucket.last[k].rev <= since}

\* The client expects at least the old keys that are left.
OldCounted ==
    /\ loop # "down" /\ initDone /\ ~stalled => Old(cursor) = {}
    /\ ~initDone /\ received = 0 => initPending = 0
    /\ ~initDone /\ received > 0 =>
          Old(cursor) = {} \/ Cardinality(Old(cursor)) + received <= initPending + 1

\* The sets of keys that the client and the invariant count.
LEMMA OldIsFinite ==
    ASSUME NEW c
    PROVE  /\ IsFiniteSet(Old(c)) /\ Cardinality(Old(c)) \in Nat
           /\ Cardinality(Old(c)) = 0 <=> Old(c) = {}
           /\ IsFiniteSet(Pending(c)) /\ Cardinality(Pending(c)) \in Nat
           /\ \A S \in SUBSET Old(c) : IsFiniteSet(S) /\ Cardinality(S) \in Nat
                                       /\ Cardinality(S) <= Cardinality(Old(c))
<1>1. Old(c) \subseteq Keys /\ Pending(c) \subseteq Keys /\ IsFiniteSet(Keys)
  BY KeysAssumption DEF Old, Pending
<1>2. IsFiniteSet(Old(c)) /\ IsFiniteSet(Pending(c))
  BY <1>1, FS_Subset
<1>3. /\ Cardinality(Old(c)) \in Nat /\ Cardinality(Pending(c)) \in Nat
      /\ Cardinality(Old(c)) = 0 <=> Old(c) = {}
  BY <1>2, FS_CardinalityType, FS_EmptySet
<1>4. \A S \in SUBSET Old(c) : IsFiniteSet(S) /\ Cardinality(S) \in Nat
                               /\ Cardinality(S) <= Cardinality(Old(c))
  BY <1>2, FS_Subset, FS_CardinalityType
<1>5. QED
  BY <1>2, <1>3, <1>4

\* A delivery takes an old key while there is one, and leaves no more of them than
\* messages.
LEMMA OldDelivered ==
    ASSUME TypeInv, NEW k \in Keys, Deliver(k)
    PROVE  /\ Old(cursor') \subseteq Old(cursor)
           /\ Old(cursor) # {} => Cardinality(Old(cursor')) = Cardinality(Old(cursor)) - 1
           /\ Left(k) \in Nat /\ Cardinality(Old(cursor')) <= Left(k)
<1>1. /\ cursor' = bucket.last[k].rev /\ cursor < cursor' /\ cursor \in Nat /\ cursor' \in Nat
      /\ \A j \in Keys : bucket.last[j].rev <= cursor' => j = k \/ bucket.last[j].rev <= cursor
  BY Delivered DEF TypeInv, TypeOK, Buckets
<1>2. \A j \in Keys : bucket.last[j].rev \in Nat
  BY DEF TypeInv, TypeOK, Buckets, Revisions
<1>3. \A j \in Keys : bucket.last[j].rev > cursor => cursor' <= bucket.last[j].rev
  BY <1>1 DEF Deliver, IsNext, TypeInv, TypeOK, Buckets
<1>4. since \in Nat
  BY DEF TypeInv, TypeOK, Buckets
<1>5. Old(cursor') = Old(cursor) \ {k} /\ Old(cursor') \subseteq Pending(cursor')
  BY <1>1, <1>2, <1>4 DEF Old, Pending
<1>6. ASSUME Old(cursor) # {} PROVE k \in Old(cursor)
  BY <1>1, <1>2, <1>3, <1>4, <1>6 DEF Old
<1>7. ASSUME Old(cursor) # {} PROVE Cardinality(Old(cursor')) = Cardinality(Old(cursor)) - 1
  BY <1>5, <1>6, <1>7, OldIsFinite, FS_RemoveElement
<1>8. Left(k) \in Nat /\ Cardinality(Old(cursor')) <= Left(k)
  BY <1>1, <1>5, OldIsFinite, FS_Subset DEF Left
<1>9. QED
  BY <1>5, <1>7, <1>8

\* No step makes the count too small.
LEMMA NextOldCounted == TypeInv /\ OldCounted /\ [Next]_vars => OldCounted'
<1> SUFFICES ASSUME TypeInv, OldCounted, [Next]_vars PROVE OldCounted'
  OBVIOUS
<1>1. /\ bucket \in Buckets(Keys, Vals) /\ WellNumbered(bucket) /\ bucket.seq \in Nat
      /\ initDone \in BOOLEAN /\ received \in Nat /\ initPending \in Nat
      /\ cursor \in Nat /\ since \in 0..bucket.seq /\ loop \in {"down", "watching", "ended"}
  <2>1. Cardinality(Keys) \in Nat
    BY KeysAssumption, FS_CardinalityType
  <2>2. QED
    BY <2>1 DEF TypeInv, TypeOK, SentInOrder, Buckets
<1>2. CASE WriterStep
  <2>1. PICK k \in Keys, op \in {"put", "del"}, v \in Vals : Writes(k, op, v)
    BY <1>2, WriterWrites
  <2>2. /\ bucket'.last[k].rev = bucket.seq + 1
        /\ \A j \in Keys \ {k} : bucket'.last[j] = bucket.last[j]
    BY <1>1, <2>1 DEF Writes, Written, Buckets
  <2>3. Old(cursor)' \subseteq Old(cursor)
    BY <1>1, <2>1, <2>2 DEF Writes, Old
  <2>4. /\ Cardinality(Old(cursor)') \in Nat /\ Cardinality(Old(cursor)) \in Nat
        /\ Cardinality(Old(cursor)') <= Cardinality(Old(cursor))
    BY <2>3, OldIsFinite
  <2>5. UNCHANGED <<initDone, initPending, received, loop, stalled>>
    BY <2>1 DEF Writes
  <2>6. QED
    BY <1>1, <2>3, <2>4, <2>5 DEF OldCounted
<1>3. CASE Start
  <2>1. /\ cursor' = 0 /\ UNCHANGED <<bucket, initPending, received>>
        /\ initPending = 0 /\ received = 0 /\ (initDone' <=> Pending(0) = {})
    BY <1>3 DEF Start, TypeInv, DownIsEmpty
  <2>2. Old(cursor)' \subseteq Pending(0)
    BY <2>1 DEF Old, Pending
  <2>3. QED
    BY <2>1, <2>2 DEF OldCounted
<1>4. CASE Stop
  BY <1>4 DEF Stop, OldCounted
<1>5. ASSUME NEW k \in Keys, Deliver(k) PROVE OldCounted'
  <2> DEFINE old == Cardinality(Old(cursor))
             new == Cardinality(Old(cursor'))
  <2>1. /\ Old(cursor') \subseteq Old(cursor) /\ (Old(cursor) # {} => new = old - 1)
        /\ Left(k) \in Nat /\ new <= Left(k)
    BY <1>5, OldDelivered
  <2>2. old \in Nat /\ new \in Nat /\ (old = 0 <=> Old(cursor) = {}) /\ (new = 0 <=> Old(cursor') = {})
    BY OldIsFinite
  <2>3. /\ UNCHANGED <<bucket, loop, since, stalled>> /\ loop = "watching"
        /\ (initDone' <=> initDone \/ Completes(k))
        /\ ~initDone => received' = received + 1 /\ initPending' = Expected(k)
    BY <1>1, <1>5 DEF Deliver, Completes, Expected, Left, lifeVars
  <2>4. Old(cursor)' = Old(cursor')
    BY <2>3 DEF Old
  <2>5. CASE initDone
    BY <2>1, <2>3, <2>4, <2>5 DEF OldCounted
  <2>6. CASE ~initDone /\ Old(cursor) = {}
    <3>1. Old(cursor)' = {} /\ received' > 0
      BY <1>1, <2>1, <2>3, <2>4, <2>6
    <3>2. QED
      BY <1>1, <2>3, <2>6, <3>1 DEF OldCounted
  <2>7. CASE ~initDone /\ Old(cursor) # {}
    <3>1. received' = received + 1 /\ initPending' = Expected(k) /\ received' > 0
      BY <1>1, <2>3, <2>7
    <3>2. new + received + 1 <= Expected(k) + 1
      <4>1. CASE received = 0
        <5>1. Expected(k) = Left(k)
          BY <2>7, <4>1 DEF OldCounted, Expected
        <5>2. QED
          BY <2>1, <2>2, <4>1, <5>1
      <4>2. CASE received > 0
        <5>1. old + received <= initPending + 1 /\ old > 0
          BY <2>2, <2>7, <4>2 DEF OldCounted
        <5>2. Expected(k) = initPending
          BY <1>1, <2>2, <4>2, <5>1 DEF Expected
        <5>3. QED
          BY <1>1, <2>1, <2>2, <2>7, <5>1, <5>2
      <4>3. QED
        BY <1>1, <4>1, <4>2
    <3>3. Completes(k) => new = 0
      <4>1. Expected(k) \in Nat
        BY <1>1, <2>1 DEF Expected
      <4>2. Completes(k) => received + 1 > Expected(k) \/ Left(k) = 0
        BY DEF Completes, IsLastInitial
      <4>3. QED
        BY <1>1, <2>1, <2>2, <3>2, <4>1, <4>2
    <3>4. Old(cursor)' = {} \/ Cardinality(Old(cursor)') + received' <= initPending' + 1
      BY <1>1, <2>2, <2>4, <3>1, <3>2
    <3>5. initDone' => Old(cursor)' = {}
      BY <2>2, <2>3, <2>4, <2>7, <3>3
    <3>6. QED
      BY <3>1, <3>4, <3>5 DEF OldCounted
  <2>8. QED
    BY <2>5, <2>6, <2>7
<1>6. CASE InitTimeout
  BY <1>6 DEF InitTimeout, OldCounted
<1>7. CASE LoopStep
  <2>1. UNCHANGED <<bucket, cursor, initDone, initPending, received, since, stalled>> /\ loop = "watching"
    BY <1>7, LoopTakes DEF Receive, initVars
  <2>2. Old(cursor)' = Old(cursor)
    BY <2>1 DEF Old
  <2>3. QED
    BY <2>1, <2>2 DEF OldCounted
<1>8. CASE UNCHANGED vars
  BY <1>8 DEF vars, OldCounted, Old
<1>9. QED
  BY <1>2, <1>3, <1>4, <1>5, <1>6, <1>7, <1>8 DEF Next, ClientStep

\* The marker is sent, and ends the loop, only when the count is complete.
MarkerCompletes ==
    /\ \A i \in DOMAIN chan : chan[i] = Marker => initDone
    /\ loop = "ended" => initDone

\* Of a key not written since the watch began the loop takes its last revision
\* alone.
TakenOnce(k) ==
    /\ applied[k] = 0 => cache[k] = NoMeta
    /\ bucket.last[k].rev <= since =>
          /\ \A i \in DOMAIN chan : chan[i].key = k => chan[i] = EntryOf(bucket, k)
          /\ applied[k] # 0 => applied[k] = bucket.last[k].rev /\ cache[k] = CachedValue(k)

BeforeMarker(k) ==
    \E i \in DOMAIN chan : chan[i] = EntryOf(bucket, k) /\ \A j \in 1..i : chan[j] # Marker

\* Its entry is not sent yet, or stands before the marker, or was taken.
OnItsWay(k) ==
    bucket.last[k].rev \in 1..since /\ ~stalled =>
        \/ bucket.last[k].rev > cursor
        \/ loop = "watching" /\ BeforeMarker(k)
        \/ applied[k] = bucket.last[k].rev

InitialInv ==
    /\ OldCounted
    /\ MarkerCompletes
    /\ \A k \in Keys : TakenOnce(k) /\ OnItsWay(k)

\* A service that is down has taken nothing and waits for nothing.
LEMMA InitInitialInv == Init => InitialInv
BY DEF Init, InitialInv, OldCounted, Old, MarkerCompletes, TakenOnce, OnItsWay, EmptyBucket

\* A written key is no longer of the initial values; the others keep their place.
LEMMA WritesInitialInv ==
    ASSUME TypeInv, InitialInv, OldCounted',
           NEW k \in Keys, NEW op \in {"put", "del"}, NEW v \in Vals, Writes(k, op, v)
    PROVE  InitialInv'
<1>1. /\ bucket \in Buckets(Keys, Vals) /\ bucket.seq \in Nat /\ since \in 0..bucket.seq
  BY DEF TypeInv, TypeOK, Buckets
<1>2. /\ bucket'.last[k].rev = bucket.seq + 1
      /\ \A j \in Keys \ {k} : bucket'.last[j] = bucket.last[j]
  BY <1>1 DEF Writes, Written, Buckets
<1>3. UNCHANGED <<cursor, chan, initDone, cache, applied, loop, since, stalled>>
  BY DEF Writes
<1>4. MarkerCompletes'
  BY <1>3 DEF InitialInv, MarkerCompletes
<1>5. ASSUME NEW j \in Keys PROVE TakenOnce(j)' /\ OnItsWay(j)'
  <2>1. CASE j = k
    BY <1>1, <1>2, <1>3, <2>1 DEF InitialInv, TakenOnce, OnItsWay
  <2>2. CASE j # k
    <3>1. /\ bucket'.last[j] = bucket.last[j] /\ EntryOf(bucket', j) = EntryOf(bucket, j)
          /\ CachedValue(j)' = CachedValue(j)
      BY <1>2, <2>2 DEF EntryOf, CachedValue, HasValue
    <3>2. TakenOnce(j)'
      BY <1>3, <3>1 DEF InitialInv, TakenOnce
    <3>3. OnItsWay(j)'
      BY <1>3, <3>1 DEF InitialInv, OnItsWay, BeforeMarker
    <3>4. QED
      BY <3>2, <3>3
  <2>3. QED
    BY <2>1, <2>2
<1>6. QED
  BY <1>4, <1>5 DEF InitialInv

\* A delivery puts an entry of the initial values before the marker: until the last
\* of them is sent the marker is not.
LEMMA DeliverInitialInv ==
    ASSUME TypeInv, InitialInv, OldCounted', NEW k \in Keys, Deliver(k)
    PROVE  InitialInv'
<1>1. /\ chan \in Seq(Sent) /\ cursor \in Nat /\ since \in Nat /\ Len(chan) \in Nat
      /\ DOMAIN chan = 1..Len(chan) /\ \A j \in Keys : bucket.last[j].rev \in Nat
  BY LenProperties DEF TypeInv, TypeOK, Sent, Buckets, Revisions
<1>2. /\ cursor < cursor'
      /\ \A i \in 1..Len(chan) : i \in DOMAIN chan' /\ chan'[i] = chan[i]
      /\ \A i \in DOMAIN chan' : i \notin 1..Len(chan) =>
             \/ i = Len(chan) + 1 /\ chan'[i] = EntryOf(bucket, k)
             \/ i = Len(chan) + 2 /\ chan'[i] = Marker /\ Completes(k)
      /\ Len(chan) + 1 \in DOMAIN chan' /\ chan'[Len(chan) + 1] = EntryOf(bucket, k)
      /\ \A j \in Keys : bucket.last[j].rev <= cursor' => j = k \/ bucket.last[j].rev <= cursor
  BY Delivered
<1>3. /\ UNCHANGED <<bucket, cache, applied, loop, since, stalled>> /\ loop = "watching"
      /\ initDone' = (initDone \/ Completes(k))
  BY DEF Deliver, Completes, Expected, Left, cacheVars, lifeVars
<1>4. Marker.key = NoKey /\ NoKey \notin Keys /\ EntryOf(bucket, k).key = k
      /\ EntryOf(bucket, k) # Marker
  BY KeysAssumption DEF Marker, EntryOf
<1>5. ASSUME NEW i \in DOMAIN chan', chan'[i] = Marker PROVE initDone'
  <2>1. CASE i \in 1..Len(chan)
    BY <1>1, <1>2, <1>3, <1>5, <2>1 DEF InitialInv, MarkerCompletes
  <2>2. CASE i \notin 1..Len(chan)
    BY <1>2, <1>3, <1>4, <1>5, <2>2
  <2>3. QED
    BY <2>1, <2>2
<1>6. MarkerCompletes'
  BY <1>3, <1>5 DEF MarkerCompletes
<1>7. ASSUME NEW j \in Keys PROVE TakenOnce(j)'
  <2>1. ASSUME NEW i \in DOMAIN chan', chan'[i].key = j, bucket.last[j].rev <= since
        PROVE  chan'[i] = EntryOf(bucket, j)
    <3>1. CASE i \in 1..Len(chan)
      BY <1>1, <1>2, <2>1, <3>1 DEF InitialInv, TakenOnce
    <3>2. CASE i \notin 1..Len(chan)
      BY <1>2, <1>4, <2>1, <3>2
    <3>3. QED
      BY <3>1, <3>2
  <2>2. CachedValue(j)' = CachedValue(j)
    BY <1>3 DEF CachedValue
  <2>3. QED
    BY <1>3, <2>1, <2>2 DEF InitialInv, TakenOnce
<1>8. ASSUME NEW j \in Keys, bucket.last[j].rev \in 1..since, ~stalled
      PROVE  \/ bucket.last[j].rev > cursor'
             \/ BeforeMarker(j)'
             \/ applied[j] = bucket.last[j].rev
  <2>1. CASE bucket.last[j].rev > cursor
    <3>1. ASSUME j = k PROVE BeforeMarker(j)'
      <4>1. ~initDone
        BY <1>1, <1>3, <1>8, <2>1 DEF InitialInv, OldCounted, Old
      <4>2. \A i \in 1..Len(chan) + 1 : chan'[i] # Marker
        BY <1>1, <1>2, <1>4, <4>1 DEF InitialInv, MarkerCompletes
      <4>3. QED
        BY <1>2, <1>3, <3>1, <4>2 DEF BeforeMarker
    <3>2. ASSUME j # k PROVE bucket.last[j].rev > cursor'
      <4>1. cursor' \in Nat
        BY Delivered DEF TypeInv, TypeOK, Buckets
      <4>2. QED
        BY <1>1, <1>2, <1>8, <2>1, <3>2, <4>1
    <3>3. QED
      BY <3>1, <3>2
  <2>2. CASE BeforeMarker(j)
    <3>1. PICK i \in DOMAIN chan : chan[i] = EntryOf(bucket, j) /\ \A m \in 1..i : chan[m] # Marker
      BY <2>2 DEF BeforeMarker
    <3>2. i \in DOMAIN chan' /\ chan'[i] = EntryOf(bucket, j) /\ \A m \in 1..i : chan'[m] # Marker
      BY <1>1, <1>2, <3>1
    <3>3. QED
      BY <1>3, <3>2 DEF BeforeMarker
  <2>3. QED
    BY <1>8, <2>1, <2>2 DEF InitialInv, OnItsWay
<1>9. \A j \in Keys : OnItsWay(j)'
  BY <1>3, <1>8 DEF OnItsWay
<1>10. QED
  BY <1>6, <1>7, <1>9 DEF InitialInv

\* The loop takes each entry of the initial values once, and all that stand before
\* the marker before it.
LEMMA LoopInitialInv ==
    ASSUME TypeInv, InitialInv, OldCounted', LoopStep
    PROVE  InitialInv'
<1> DEFINE e == Head(chan)
<1>1. /\ bucket \in Buckets(Keys, Vals) /\ applied \in [Keys -> Nat] /\ cache \in [Keys -> Metas \cup {NoMeta}]
      /\ chan \in Seq(Sent) /\ Len(chan) \in Nat /\ DOMAIN chan = 1..Len(chan)
      /\ \A k \in Keys : bucket.last[k].rev \in Nat
  BY LenProperties DEF TypeInv, TypeOK, Sent, Buckets, Revisions
<1>2. /\ Receive /\ loop = "watching" /\ loop' \in {"watching", "ended"}
      /\ UNCHANGED <<bucket, cursor, initDone, since, stalled>>
  BY LoopTakes DEF Receive, initVars
<1>3. /\ \A i \in DOMAIN chan' : i + 1 \in DOMAIN chan /\ chan'[i] = chan[i + 1]
      /\ \A i \in DOMAIN chan : i = 1 \/ (i - 1 \in DOMAIN chan' /\ chan'[i - 1] = chan[i])
      /\ 1 \in DOMAIN chan /\ chan[1] = e
  BY <1>2, Received
<1>4. /\ chan' \in Seq(Sent) /\ Len(chan') \in Nat /\ DOMAIN chan' = 1..Len(chan')
  BY <1>2, Received, LenProperties
<1>5. CASE e = Marker /\ loop' = "ended" /\ UNCHANGED <<cache, applied>>
  <2>1. initDone
    BY <1>3, <1>5 DEF InitialInv, MarkerCompletes
  <2>2. ASSUME NEW k \in Keys PROVE ~BeforeMarker(k)
    BY <1>1, <1>3, <1>5 DEF BeforeMarker
  <2>3. \A k \in Keys : OnItsWay(k)'
    BY <1>2, <1>5, <2>2 DEF InitialInv, OnItsWay
  <2>4. \A k \in Keys : TakenOnce(k)'
    BY <1>2, <1>3, <1>5 DEF InitialInv, TakenOnce, CachedValue, HasValue, EntryOf
  <2>5. MarkerCompletes'
    BY <1>2, <2>1 DEF MarkerCompletes
  <2>6. QED
    BY <2>3, <2>4, <2>5 DEF InitialInv
<1>6. CASE /\ e.rev > 0 /\ loop' = "watching"
           /\ applied' = [applied EXCEPT ![e.key] = e.rev]
           /\ \/ e.op = "put" /\ e.val \in Metas /\ cache' = [cache EXCEPT ![e.key] = e.val]
              \/ e.op = "del" /\ cache' = [cache EXCEPT ![e.key] = NoMeta]
              \/ e.op = "put" /\ e.val \notin Metas /\ cache' = cache
  <2>1. /\ e \in Entries(Keys, Vals) /\ Fits(bucket, e) /\ e # Marker
        /\ \A k \in Keys : applied[k] < e.rev
    BY <1>2, <1>6, Received DEF Marker
  <2>2. e.key \in Keys /\ e.rev \in Nat
    BY <2>1 DEF Entries
  <2>3. /\ applied'[e.key] = e.rev
        /\ \A k \in Keys \ {e.key} : applied'[k] = applied[k] /\ cache'[k] = cache[k]
    BY <1>1, <1>6, <2>2
  <2>4. MarkerCompletes'
    BY <1>2, <1>3, <1>6 DEF InitialInv, MarkerCompletes
  <2>5. ASSUME NEW k \in Keys PROVE TakenOnce(k)'
    <3>1. bucket.last[k].rev <= since => \A i \in DOMAIN chan' : chan'[i].key = k => chan'[i] = EntryOf(bucket, k)
      BY <1>3 DEF InitialInv, TakenOnce
    <3>2. CachedValue(k)' = CachedValue(k)
      BY <1>2 DEF CachedValue
    <3>3. CASE k = e.key
      <4>1. applied'[k] # 0
        BY <1>6, <2>2, <2>3, <3>3
      <4>2. ASSUME bucket.last[k].rev <= since
            PROVE  applied'[k] = bucket.last[k].rev /\ cache'[k] = CachedValue(k)
        <5>1. e = EntryOf(bucket, k)
          BY <1>3, <3>3, <4>2 DEF InitialInv, TakenOnce
        <5>2. e.rev = bucket.last[k].rev /\ e.op = bucket.last[k].op /\ e.val = bucket.last[k].val
          BY <5>1 DEF EntryOf
        <5>3. applied[k] = 0 /\ cache[k] = NoMeta
          <6>1. applied[k] < bucket.last[k].rev
            BY <2>1, <5>2
          <6>2. QED
            BY <1>1, <4>2, <6>1 DEF InitialInv, TakenOnce
        <5>4. cache'[k] = CachedValue(k)
          BY <1>1, <1>6, <2>2, <3>3, <5>2, <5>3 DEF CachedValue, HasValue
        <5>5. QED
          BY <2>3, <3>3, <5>2, <5>4
      <4>3. QED
        BY <1>2, <3>1, <3>2, <4>1, <4>2 DEF TakenOnce
    <3>4. CASE k # e.key
      BY <1>2, <2>3, <3>1, <3>2, <3>4 DEF InitialInv, TakenOnce
    <3>5. QED
      BY <3>3, <3>4
  <2>6. ASSUME NEW k \in Keys, bucket.last[k].rev \in 1..since, ~stalled
        PROVE  \/ bucket.last[k].rev > cursor
               \/ BeforeMarker(k)'
               \/ applied'[k] = bucket.last[k].rev
    <3>1. CASE BeforeMarker(k)
      <4>1. PICK i \in DOMAIN chan : chan[i] = EntryOf(bucket, k) /\ \A m \in 1..i : chan[m] # Marker
        BY <3>1 DEF BeforeMarker
      <4>2. CASE i = 1
        BY <1>3, <2>3, <4>1, <4>2 DEF EntryOf
      <4>3. CASE i # 1
        <5>1. i - 1 \in DOMAIN chan' /\ chan'[i - 1] = EntryOf(bucket, k)
          BY <1>3, <4>1, <4>3
        <5>2. \A m \in 1..i - 1 : chan'[m] # Marker
          <6> TAKE m \in 1..i - 1
          <6>1. m \in DOMAIN chan' /\ m + 1 \in 1..i /\ chan'[m] = chan[m + 1]
            BY <1>1, <1>3, <1>4, <5>1
          <6>2. QED
            BY <4>1, <6>1
        <5>3. QED
          BY <1>2, <5>1, <5>2 DEF BeforeMarker
      <4>4. QED
        BY <4>2, <4>3
    <3>2. CASE applied[k] = bucket.last[k].rev
      <4>1. k # e.key
        BY <1>1, <2>1, <2>2, <3>2 DEF Fits
      <4>2. QED
        BY <2>3, <3>2, <4>1
    <3>3. QED
      BY <2>6, <3>1, <3>2 DEF InitialInv, OnItsWay
  <2>7. \A k \in Keys : OnItsWay(k)'
    BY <1>2, <1>6, <2>6 DEF OnItsWay
  <2>8. QED
    BY <2>4, <2>5, <2>7 DEF InitialInv
<1>7. QED
  BY <1>5, <1>6, LoopTakes

\* Every kind of step keeps account of the initial values.
LEMMA NextInitialInv == TypeInv /\ InitialInv /\ [Next]_vars => InitialInv'
<1> SUFFICES ASSUME TypeInv, InitialInv, [Next]_vars PROVE InitialInv'
  OBVIOUS
<1>1. OldCounted'
  BY NextOldCounted DEF InitialInv
<1>2. CASE WriterStep
  BY <1>1, <1>2, WriterWrites, WritesInitialInv
<1>3. CASE Start
  <2>1. /\ cursor' = 0 /\ loop' = "watching" /\ UNCHANGED <<bucket, cache, applied>>
        /\ \/ chan' = <<Marker>> /\ initDone'
           \/ chan' = <<>>
        /\ \A k \in Keys : applied[k] = 0 /\ cache[k] = NoMeta
    BY <1>3 DEF Start, cacheVars, TypeInv, DownIsEmpty
  <2>2. \A i \in DOMAIN chan' : chan'[i] = Marker /\ chan'[i].key \notin Keys /\ initDone'
    BY <2>1, KeysAssumption DEF Marker
  <2>3. QED
    BY <1>1, <2>1, <2>2 DEF InitialInv, MarkerCompletes, TakenOnce, OnItsWay
<1>4. CASE Stop
  <2>1. /\ loop' = "down" /\ chan' = <<>> /\ since' = 0
        /\ \A k \in Keys : applied'[k] = 0 /\ cache'[k] = NoMeta
    BY <1>4 DEF Stop
  <2>2. QED
    BY <1>1, <2>1 DEF InitialInv, MarkerCompletes, TakenOnce, OnItsWay
<1>5. ASSUME NEW k \in Keys, Deliver(k) PROVE InitialInv'
  BY <1>1, <1>5, DeliverInitialInv
<1>6. CASE InitTimeout
  <2>1. /\ chan' = Append(chan, Marker) /\ initDone' = TRUE /\ stalled' = TRUE
        /\ UNCHANGED <<bucket, cache, applied, since, loop>>
    BY <1>6 DEF InitTimeout, cacheVars
  <2>2. chan \in Seq(Sent) /\ Marker \in Sent /\ Marker.key \notin Keys
    BY KeysAssumption DEF TypeInv, TypeOK, Sent, Marker
  <2>3. \A i \in DOMAIN chan' : (i \in DOMAIN chan /\ chan'[i] = chan[i]) \/ chan'[i] = Marker
    BY <2>1, <2>2, AppendProperties, LenProperties
  <2>4. ASSUME NEW k \in Keys PROVE TakenOnce(k)' /\ OnItsWay(k)'
    <3>1. CachedValue(k)' = CachedValue(k)
      BY <2>1 DEF CachedValue
    <3>2. QED
      BY <2>1, <2>2, <2>3, <3>1 DEF InitialInv, TakenOnce, OnItsWay
  <2>5. QED
    BY <1>1, <2>1, <2>4 DEF InitialInv, MarkerCompletes
<1>7. CASE LoopStep
  BY <1>1, <1>7, LoopInitialInv
<1>8. CASE UNCHANGED vars
  BY <1>1, <1>8 DEF vars, InitialInv, MarkerCompletes, TakenOnce, OnItsWay, BeforeMarker, CachedValue
<1>9. QED
  BY <1>2, <1>3, <1>4, <1>5, <1>6, <1>7, <1>8 DEF Next, ClientStep

\* When the loop ends by the count, the cache shows every value the bucket held when
\* the watch began and still holds: keys written meanwhile never bring the marker
\* before one of them.
THEOREM InitialValuesAlwaysCached == Spec => []InitialValuesCached
<1>1. ASSUME TypeInv, InitialInv PROVE InitialValuesCached
  <2> SUFFICES ASSUME loop = "ended", ~stalled, NEW k \in Keys, bucket.last[k].rev <= since
               PROVE  cache[k] = CachedValue(k)
    BY DEF InitialValuesCached
  <2>1. /\ bucket.last[k].rev \in Nat /\ since \in Nat /\ applied[k] \in Nat
        /\ (bucket.last[k].op = "none" <=> bucket.last[k].rev = 0)
    BY <1>1 DEF TypeInv, TypeOK, SentInOrder, WellNumbered, Buckets, Revisions
  <2>2. Old(cursor) = {}
    BY <1>1 DEF InitialInv, OldCounted, MarkerCompletes
  <2>3. CASE applied[k] = 0
    <3>1. bucket.last[k].rev = 0
      BY <1>1, <2>1, <2>2, <2>3 DEF InitialInv, OnItsWay, Old
    <3>2. QED
      BY <1>1, <2>1, <2>3, <3>1 DEF InitialInv, TakenOnce, CachedValue, HasValue
  <2>4. CASE applied[k] # 0
    BY <1>1, <2>4 DEF InitialInv, TakenOnce
  <2>5. QED
    BY <2>3, <2>4
<1>2. QED
  BY InitTypeInv, NextTypeInv, InitInitialInv, NextInitialInv, <1>1, PTL DEF Spec

-----------------------------------------------------------------------------
(* Calls.                                                                  *)

\* The rules a call has still to go through.
ToDo(h) == {call[h].todo[i] : i \in DOMAIN call[h].todo}

\* A request is a list of rules; without its head it is one, or empty.
LEMMA RequestedTail ==
    ASSUME NEW rules \in Requested \cup {<<>>}, rules # <<>>
    PROVE  /\ Head(rules) \in Rules
           /\ Tail(rules) \in {<<>>} \cup Requested
           /\ Head(rules) \in {rules[i] : i \in DOMAIN rules}
           /\ {Tail(rules)[i] : i \in DOMAIN Tail(rules)} \subseteq {rules[i] : i \in DOMAIN rules}
<1>1. PICK n \in 1..MaxLength : rules \in [1..n -> Rules]
  BY DEF Requested
<1>2. n \in Nat \ {0} /\ MaxLength \in Nat
  BY CheckerBoundsAssumption
<1>3. rules \in Seq(Rules) /\ Len(rules) = n
  BY <1>1, <1>2, SeqDef, LenProperties
<1>4. /\ Head(rules) = rules[1] /\ Tail(rules) \in Seq(Rules) /\ Len(Tail(rules)) = n - 1
      /\ DOMAIN Tail(rules) = 1..n - 1
      /\ \A i \in 1..n - 1 : Tail(rules)[i] = rules[i + 1]
  BY <1>2, <1>3, HeadTailProperties, LenProperties
<1>5. DOMAIN rules = 1..n /\ 1 \in 1..n /\ \A i \in 1..n - 1 : i + 1 \in 1..n
  BY <1>1, <1>2
<1>6. Tail(rules) \in {<<>>} \cup Requested
  <2>1. CASE n = 1
    BY <1>4, <2>1, EmptySeq
  <2>2. CASE n # 1
    <3>1. n - 1 \in 1..MaxLength
      BY <1>2, <2>2
    <3>2. Tail(rules) \in [1..n - 1 -> Rules]
      BY <1>4, LenProperties
    <3>3. QED
      BY <3>1, <3>2 DEF Requested
  <2>3. QED
    BY <2>1, <2>2
<1>7. QED
  BY <1>1, <1>4, <1>5, <1>6

\* A call that has stored a rule has one; and a call that is served has a kind.
UnderWay ==
    \A h \in Handlers : /\ call[h].pc = "remember" => call[h].todo # <<>>
                        /\ call[h].pc # "idle" => call[h].op \in {"add", "remove"}

CheckerTypeInv == CheckerTypeOK /\ UnderWay

\* A call that goes on to its next rule is a call, which is served as before.
LEMMA DoneType ==
    ASSUME NEW c \in Calls, c.todo # <<>>
    PROVE  /\ Done(c) \in Calls /\ Done(c).pc = "rule" /\ Done(c).op = c.op
           /\ Done(c).todo = Tail(c.todo) /\ Done(c).done = c.done \cup {Head(c.todo)}
           /\ Done(c).alone = c.alone /\ Done(c).sure = c.sure
<1>1. Head(c.todo) \in Rules /\ Tail(c.todo) \in {<<>>} \cup Requested
  BY RequestedTail DEF Calls
<1>2. QED
  BY <1>1 DEF Done, Calls

\* No call is a call.
LEMMA IdleType == Idle \in Calls
BY DEF Idle, Calls

\* The service starts idle.
LEMMA CheckerInitTypeInv == CheckerInit => CheckerTypeInv
<1> SUFFICES ASSUME CheckerInit PROVE CheckerTypeInv
  OBVIOUS
<1>1. \A h \in Handlers : call[h].pc = "idle" /\ ~call[h].sure /\ ~call[h].alone
  BY DEF CheckerInit, Idle
<1>2. call \in [Handlers -> Calls]
  BY IdleType DEF CheckerInit
<1>3. copies \in [Stored -> Nat] /\ policies \subseteq Stored
  BY DEF CheckerInit, InStore
<1>4. requests \in 0..MaxRequests /\ restarts \in 0..MaxRestarts
  BY CheckerBoundsAssumption DEF CheckerInit
<1>5. QED
  BY <1>1, <1>2, <1>3, <1>4 DEF CheckerInit, CheckerTypeInv, CheckerTypeOK, UnderWay

\* What CheckerTypeInv says of the calls.
CallsOK ==
    /\ call \in [Handlers -> Calls] /\ UnderWay
    /\ \A h \in Handlers : (call[h].sure => call[h].alone) /\ (call[h].alone => Serving = {h})

\* A step of a call changes that call alone.
LEMMA OneCallType ==
    ASSUME CheckerTypeInv, NEW h \in Handlers, NEW c \in Calls, call' = [call EXCEPT ![h] = c],
           c.pc = "remember" => c.todo # <<>>, c.pc # "idle" => c.op \in {"add", "remove"},
           call[h].pc # "idle", c.alone => c.pc # "idle" /\ call[h].alone, c.sure => c.alone
    PROVE  CallsOK'
<1>1. call \in [Handlers -> Calls] /\ UnderWay
      /\ \A g \in Handlers : (call[g].sure => call[g].alone) /\ (call[g].alone => Serving = {g})
  BY DEF CheckerTypeInv, CheckerTypeOK
<1>2. call' \in [Handlers -> Calls] /\ call'[h] = c /\ \A g \in Handlers \ {h} : call'[g] = call[g]
  BY <1>1
<1>3. ASSUME NEW g \in Handlers, call'[g].alone PROVE Serving' = {g}
  <2>1. call[g].alone /\ (g = h => c.pc # "idle")
    BY <1>2, <1>3
  <2>2. Serving = {g} /\ g = h
    BY <1>1, <2>1 DEF Serving
  <2>3. QED
    BY <1>2, <2>1, <2>2 DEF Serving
<1>4. QED
  BY <1>1, <1>2, <1>3 DEF CallsOK, UnderWay

\* Writing a rule leaves a list of rules.
LEMMA PersistedType ==
    ASSUME CheckerTypeInv, NEW h \in Handlers, Persists(h)
    PROVE  Persisted(h) \in [Stored -> Nat] /\ Head(call[h].todo) \in Rules
<1>1. Head(call[h].todo) \in Rules
  BY RequestedTail DEF CheckerTypeInv, CheckerTypeOK, Calls, Persists, AtRule
<1>2. QED
  BY <1>1 DEF Persisted, CheckerTypeInv, CheckerTypeOK, Stored

\* No step gives a variable of the policies a value of another kind.
LEMMA CheckerNextTypeInv == CheckerTypeInv /\ [CheckerNext]_checkerVars => CheckerTypeInv'
<1> SUFFICES ASSUME CheckerTypeInv, [CheckerNext]_checkerVars PROVE CheckerTypeInv'
  OBVIOUS
<1> USE DEF checkerHistory, checkerCounters
<1>1. /\ copies \in [Stored -> Nat] /\ policies \subseteq Stored /\ call \in [Handlers -> Calls]
      /\ torn \in BOOLEAN /\ granted \subseteq Rules /\ revoked \subseteq Rules
      /\ requests \in 0..MaxRequests /\ restarts \in 0..MaxRestarts /\ Rules \subseteq Stored
      /\ MaxRequests \in Nat /\ MaxRestarts \in Nat
  BY CheckerBoundsAssumption DEF CheckerTypeInv, CheckerTypeOK, Stored
<1>2. \A h \in Handlers : /\ call[h].todo # <<>> => Head(call[h].todo) \in Rules /\ Done(call[h]) \in Calls
                          /\ call[h].done \subseteq Rules /\ call[h].read \subseteq Stored
  BY <1>1, DoneType, RequestedTail DEF Calls
<1>3. ASSUME NEW h \in Handlers, AlreadyThere(h) PROVE CheckerTypeInv'
  <2>1. call' = [call EXCEPT ![h] = Done(call[h])]
    BY <1>3 DEF AlreadyThere
  <2>2. call[h].pc = "rule" /\ call[h].todo # <<>>
    BY <1>3 DEF AlreadyThere, AtRule
  <2>3. call[h] \in Calls /\ call[h].op \in {"add", "remove"}
        /\ (call[h].sure => call[h].alone)
    BY <1>1, <2>2 DEF CheckerTypeInv, CheckerTypeOK, UnderWay
  <2>4. CallsOK'
    BY <2>1, <2>2, <2>3, DoneType, OneCallType
  <2>5. QED
    BY <1>1, <1>3, <2>4 DEF AlreadyThere, CheckerTypeInv, CheckerTypeOK, CallsOK
<1>4. ASSUME NEW h \in Handlers, StoreRule(h) PROVE CheckerTypeInv'
  <2> DEFINE c == [call[h] EXCEPT !.pc = "remember"]
  <2>1. call' = [call EXCEPT ![h] = c] /\ copies' \in [Stored -> Nat]
    BY <1>4, PersistedType DEF StoreRule
  <2>2. call[h].pc = "rule" /\ call[h].todo # <<>>
    BY <1>4 DEF StoreRule, Persists, AtRule
  <2>3. /\ c \in Calls /\ c.todo = call[h].todo /\ c.op = call[h].op /\ c.alone = call[h].alone
        /\ c.sure = call[h].sure /\ c.pc = "remember"
    BY <1>1 DEF Calls
  <2>4. QED
    BY <1>1, <1>4, <2>1, <2>2, <2>3, OneCallType
       DEF StoreRule, CheckerTypeInv, CheckerTypeOK, UnderWay, CallsOK
<1>5. ASSUME NEW h \in Handlers, call[h].pc # "idle", call' = [call EXCEPT ![h] = Idle]
      PROVE  CallsOK'
  BY <1>5, IdleType, OneCallType DEF Idle
<1>6. ASSUME NEW h \in Handlers, StoreFails(h) PROVE CheckerTypeInv'
  <2>1. copies' \in [Stored -> Nat]
    BY <1>1, <1>6, PersistedType DEF StoreFails
  <2>2. QED
    BY <1>1, <1>5, <1>6, <2>1 DEF StoreFails, Persists, AtRule, CheckerTypeInv, CheckerTypeOK, CallsOK
<1>7. ASSUME NEW h \in Handlers, Remember(h) PROVE CheckerTypeInv'
  <2>1. call' = [call EXCEPT ![h] = Done(call[h])]
    BY <1>7 DEF Remember
  <2>2. call[h].pc = "remember" /\ call[h].todo # <<>>
    BY <1>7 DEF Remember, CheckerTypeInv, UnderWay
  <2>3. policies' \subseteq Stored
    BY <1>1, <1>2, <1>7, <2>2 DEF Remember
  <2>4. call[h] \in Calls /\ call[h].op \in {"add", "remove"}
        /\ (call[h].sure => call[h].alone)
    BY <1>1, <2>2 DEF CheckerTypeInv, CheckerTypeOK, UnderWay
  <2>5. CallsOK'
    BY <2>1, <2>2, <2>4, DoneType, OneCallType
  <2>6. QED
    BY <1>1, <1>7, <2>3, <2>5 DEF Remember, CheckerTypeInv, CheckerTypeOK, CallsOK
<1>8. ASSUME NEW h \in Handlers, ReadList(h) PROVE CheckerTypeInv'
  <2> DEFINE c == [call[h] EXCEPT !.pc = "apply", !.read = InStore]
  <2>1. call' = [call EXCEPT ![h] = c]
    BY <1>1, <1>8 DEF ReadList
  <2>2. /\ c \in Calls /\ c.op = call[h].op /\ c.alone = call[h].alone
        /\ c.sure = call[h].sure /\ c.pc = "apply"
    BY <1>1 DEF Calls, InStore
  <2>3. call[h].pc = "rule" /\ call[h].op \in {"add", "remove"} /\ (call[h].sure => call[h].alone)
    BY <1>8 DEF ReadList, CheckerTypeInv, CheckerTypeOK, UnderWay
  <2>4. CallsOK'
    BY <2>1, <2>2, <2>3, OneCallType
  <2>5. QED
    BY <1>1, <1>8, <2>4 DEF ReadList, CheckerTypeInv, CheckerTypeOK, CallsOK
<1>9. ASSUME NEW h \in Handlers, ApplyList(h) \/ LoadFails(h) PROVE CheckerTypeInv'
  <2>1. granted' \subseteq Rules /\ revoked' \subseteq Rules
    BY <1>1, <1>2, <1>9 DEF ApplyList, LoadFails, Answers
  <2>2. torn' \in BOOLEAN /\ policies' \subseteq Stored
    BY <1>1, <1>2, <1>9 DEF ApplyList, LoadFails, Calls
  <2>3. QED
    BY <1>1, <1>5, <1>9, <2>1, <2>2
       DEF ApplyList, LoadFails, Answers, CheckerTypeInv, CheckerTypeOK, CallsOK
<1>10. ASSUME NEW h \in Handlers, NEW op \in {"add", "remove"}, NEW rules \in Requested, Request(h, op, rules)
       PROVE  CheckerTypeInv'
  <2> DEFINE first == Serving = {}
             c == [Idle EXCEPT !.pc = "rule", !.op = op, !.todo = rules, !.alone = first,
                               !.sure = first /\ ~torn /\ ~Doubled]
  <2>1. \A g \in Handlers : call'[g] = IF g = h THEN c ELSE [call[g] EXCEPT !.alone = FALSE, !.sure = FALSE]
    BY <1>10 DEF Request
  <2>2. /\ c \in Calls /\ c.pc = "rule" /\ c.op = op
        /\ (c.sure => c.alone) /\ (c.alone => first)
    BY <1>1, IdleType DEF Calls, Idle
  <2>3. ASSUME NEW g \in Handlers \ {h}
        PROVE  /\ call'[g] \in Calls /\ call'[g].pc = call[g].pc /\ call'[g].op = call[g].op
               /\ call'[g].todo = call[g].todo /\ ~call'[g].alone /\ ~call'[g].sure
    <3>1. call[g] \in Calls /\ call'[g] = [call[g] EXCEPT !.alone = FALSE, !.sure = FALSE]
      BY <1>1, <2>1
    <3>2. QED
      BY <3>1 DEF Calls
  <2>4. call' \in [Handlers -> Calls]
    <3>1. call' = [g \in Handlers |-> call'[g]]
      BY <1>10 DEF Request
    <3>2. \A g \in Handlers : call'[g] \in Calls
      BY <2>1, <2>2, <2>3
    <3>3. QED
      BY <3>1, <3>2
  <2>5. UnderWay'
    BY <2>1, <2>2, <2>3 DEF CheckerTypeInv, UnderWay
  <2>6. ASSUME first PROVE Serving' = {h}
    <3>1. \A g \in Handlers \ {h} : call[g].pc = "idle"
      BY <2>6 DEF Serving
    <3>2. \A g \in Handlers : call'[g].pc # "idle" <=> g = h
      BY <2>1, <2>2, <2>3, <3>1
    <3>3. QED
      BY <3>2 DEF Serving
  <2>7. CallsOK'
    BY <2>1, <2>2, <2>3, <2>4, <2>5, <2>6 DEF CallsOK
  <2>8. torn' \in BOOLEAN
    <3>1. torn' = (torn \/ ~first)
      BY <1>10 DEF Request
    <3>2. QED
      BY <3>1
  <2>9. granted' \subseteq Rules /\ revoked' \subseteq Rules
    BY <1>1, <1>10 DEF Request
  <2>10. requests' \in 0..MaxRequests /\ UNCHANGED <<copies, policies, restarts>>
    <3>1. requests < MaxRequests /\ requests' = requests + 1 /\ UNCHANGED <<copies, policies, restarts>>
      BY <1>10 DEF Request
    <3>2. QED
      BY <1>1, <3>1
  <2>11. QED
    BY <1>1, <2>7, <2>8, <2>9, <2>10 DEF CheckerTypeInv, CheckerTypeOK, CallsOK
<1>11. CASE CheckerRestart
  <2>1. \A h \in Handlers : call'[h].pc = "idle" /\ ~call'[h].sure /\ ~call'[h].alone
    BY <1>11 DEF CheckerRestart, Idle
  <2>2. call' \in [Handlers -> Calls]
    BY <1>11, IdleType DEF CheckerRestart
  <2>3. policies' \subseteq Stored /\ restarts' \in 0..MaxRestarts
    BY <1>1, <1>11 DEF CheckerRestart, InStore
  <2>4. QED
    BY <1>1, <1>11, <2>1, <2>2, <2>3 DEF CheckerRestart, CheckerTypeInv, CheckerTypeOK, UnderWay
<1>12. CASE UNCHANGED checkerVars
  BY <1>12 DEF checkerVars, CheckerTypeInv, CheckerTypeOK, UnderWay, Serving, InStore
<1>13. QED
  BY <1>3, <1>4, <1>6, <1>7, <1>8, <1>9, <1>10, <1>11, <1>12 DEF CheckerNext, CallStep

\* Every variable of the policies stays in its range, the copies of a rule are never
\* fewer than none, and a call that counts as alone is the only one.
THEOREM PoliciesTypeCorrect == CheckerSpec => []CheckerTypeOK
<1>1. CheckerTypeInv => CheckerTypeOK
  BY DEF CheckerTypeInv
<1>2. QED
  BY CheckerInitTypeInv, CheckerNextTypeInv, <1>1, PTL DEF CheckerSpec

-----------------------------------------------------------------------------
(* Memory and store.  Unless calls overlapped or a write was done and      *)
(* reported as failed, they differ only in the hands of the one call, by   *)
(* the rule it is at.                                                      *)

\* What the call of h has left to make memory and store agree.
Agrees(h) ==
    LET c == call[h] IN
    /\ c.pc \in {"rule", "apply"} => policies = InStore
    /\ c.pc = "remember" =>
          InStore = IF c.op = "add" THEN policies \cup {Head(c.todo)} ELSE policies \ {Head(c.todo)}

\* A call that is alone applies the list as it still is.
ReadIsFresh == \A h \in Handlers : call[h].alone /\ call[h].pc = "apply" => call[h].read = InStore

MemoryInv ==
    /\ ReadIsFresh
    /\ ~torn => /\ Serving = {} => policies = InStore
                /\ \A h \in Serving : call[h].alone /\ Agrees(h)

\* The service loads the list when it starts.
LEMMA InitMemoryInv == CheckerInit => MemoryInv
BY DEF CheckerInit, MemoryInv, ReadIsFresh, Serving, Idle, InStore

\* What a write to the store changes of the rules that are in it.
LEMMA PersistedStore ==
    ASSUME CheckerTypeInv, NEW h \in Handlers, Persists(h), copies' = Persisted(h)
    PROVE  LET r == Head(call[h].todo) IN
           /\ call[h].op = "add" => InStore' = InStore \cup {r}
           /\ call[h].op = "remove" /\ copies[r] <= 1 => InStore' = InStore \ {r}
           /\ call[h].op = "remove" => InStore' \subseteq InStore /\ InStore \ {r} \subseteq InStore'
<1> DEFINE r == Head(call[h].todo)
<1>1. r \in Stored /\ copies \in [Stored -> Nat] /\ call[h].op \in {"add", "remove"}
  BY PersistedType DEF CheckerTypeInv, CheckerTypeOK, UnderWay, Stored, Persists, AtRule
<1>2. /\ \A s \in Stored \ {r} : copies'[s] = copies[s]
      /\ call[h].op = "add" => copies'[r] = copies[r] + 1
      /\ call[h].op = "remove" => copies'[r] = IF copies[r] = 0 THEN 0 ELSE copies[r] - 1
  BY <1>1 DEF Persisted
<1>3. copies[r] \in Nat
  BY <1>1
<1>4. call[h].op = "add" => InStore' = InStore \cup {r}
  BY <1>1, <1>2, <1>3 DEF InStore
<1>5. call[h].op = "remove" /\ copies[r] <= 1 => InStore' = InStore \ {r}
  BY <1>1, <1>2, <1>3 DEF InStore
<1>6. call[h].op = "remove" => InStore' \subseteq InStore /\ InStore \ {r} \subseteq InStore'
  BY <1>1, <1>2, <1>3 DEF InStore
<1>7. QED
  BY <1>4, <1>5, <1>6

\* A step of one call finds no other alone, and if memory and store can agree finds
\* no other at all.
LEMMA StepOfOne ==
    ASSUME CheckerTypeInv, MemoryInv, NEW h \in Handlers, CallStep(h)
    PROVE  /\ call[h].pc # "idle" /\ call[h].op \in {"add", "remove"}
           /\ \A g \in Handlers \ {h} : call'[g] = call[g] /\ ~call[g].alone
           /\ call[h].pc = "remember" => call[h].todo # <<>>
           /\ ~torn => /\ call[h].alone /\ Agrees(h)
                       /\ \A g \in Handlers \ {h} : call[g].pc = "idle"
<1>1. call[h].pc # "idle"
  BY DEF CallStep, AlreadyThere, StoreRule, StoreFails, Persists, AtRule, Remember, ReadList, ApplyList, LoadFails
<1>2. /\ call \in [Handlers -> Calls] /\ UnderWay
      /\ \A g \in Handlers : call[g].alone => Serving = {g}
  BY DEF CheckerTypeInv, CheckerTypeOK
<1>3. \A g \in Handlers \ {h} : call'[g] = call[g]
  BY <1>2 DEF CallStep, AlreadyThere, StoreRule, StoreFails, Remember, ReadList, ApplyList, LoadFails, Answers
<1>4. \A g \in Handlers \ {h} : ~call[g].alone
  BY <1>1, <1>2 DEF Serving
<1>5. ~torn => /\ call[h].alone /\ Agrees(h)
               /\ \A g \in Handlers \ {h} : call[g].pc = "idle"
  BY <1>1, <1>4 DEF MemoryInv, Serving
<1>6. QED
  BY <1>1, <1>2, <1>3, <1>4, <1>5 DEF UnderWay

\* Each step of a call leaves memory and store apart by no more than it still has
\* to do.
LEMMA CallStepMemory ==
    ASSUME CheckerTypeInv, MemoryInv, NEW h \in Handlers, CallStep(h)
    PROVE  MemoryInv'
<1> USE DEF checkerHistory, checkerCounters
<1> DEFINE r == Head(call[h].todo)
<1>1. /\ call[h].pc # "idle" /\ call[h].op \in {"add", "remove"}
      /\ \A g \in Handlers \ {h} : call'[g] = call[g] /\ ~call[g].alone
      /\ call[h].pc = "remember" => call[h].todo # <<>>
      /\ ~torn => /\ call[h].alone /\ Agrees(h)
                  /\ \A g \in Handlers \ {h} : call[g].pc = "idle"
  BY StepOfOne
<1>2. call \in [Handlers -> Calls] /\ call[h] \in Calls
  BY DEF CheckerTypeInv, CheckerTypeOK
<1>3. ASSUME call'[h].alone /\ call'[h].pc = "apply" => call'[h].read = InStore'
      PROVE  ReadIsFresh'
  BY <1>1, <1>3 DEF ReadIsFresh
<1>4. ASSUME ~torn, call'[h].pc # "idle", call'[h].alone, Agrees(h)'
      PROVE  (Serving = {} => policies = InStore)' /\ \A g \in Serving' : call'[g].alone /\ Agrees(g)'
  BY <1>1, <1>4 DEF Serving
<1>5. ASSUME ~torn \/ call[h].alone, call'[h].pc = "idle", policies' = InStore'
      PROVE  (Serving = {} => policies = InStore)' /\ \A g \in Serving' : call'[g].alone /\ Agrees(g)'
  <2>1. \A g \in Handlers \ {h} : call[g].pc = "idle"
    BY <1>1, <1>5 DEF CheckerTypeInv, CheckerTypeOK, Serving
  <2>2. Serving' = {}
    BY <1>1, <1>5, <2>1 DEF Serving
  <2>3. QED
    BY <1>5, <2>2
<1>6. CASE AlreadyThere(h)
  <2>1. call'[h] = Done(call[h]) /\ call[h].pc = "rule" /\ call[h].todo # <<>>
        /\ UNCHANGED <<copies, policies, torn>>
    BY <1>2, <1>6 DEF AlreadyThere, AtRule
  <2>2. call'[h].pc = "rule" /\ call'[h].alone = call[h].alone
    BY <1>2, <2>1, DoneType
  <2>3. ~torn => Agrees(h)'
    BY <1>1, <2>1, <2>2 DEF Agrees, InStore
  <2>4. QED
    BY <1>1, <1>3, <1>4, <2>1, <2>2, <2>3 DEF MemoryInv
<1>7. CASE StoreRule(h)
  <2>1. /\ Persists(h) /\ copies' = Persisted(h) /\ UNCHANGED policies
        /\ torn' = (torn \/ (call[h].op = "remove" /\ copies[r] > 1))
        /\ call[h].pc = "rule"
    BY <1>7 DEF StoreRule, Persists, AtRule
  <2>2. /\ call'[h].pc = "remember" /\ call'[h].alone = call[h].alone /\ call'[h].op = call[h].op
        /\ call'[h].todo = call[h].todo
    BY <1>2, <1>7 DEF StoreRule, Calls
  <2>3. copies[r] \in Nat
    BY <2>1, PersistedType DEF CheckerTypeInv, CheckerTypeOK, Stored
  <2>4. /\ call[h].op = "add" => InStore' = InStore \cup {r}
        /\ call[h].op = "remove" /\ copies[r] <= 1 => InStore' = InStore \ {r}
    BY <2>1, PersistedStore
  <2>5. ASSUME ~torn' PROVE ~torn /\ Agrees(h)'
    <3>1. ~torn /\ (call[h].op = "remove" => copies[r] <= 1)
      <4>1. ~torn /\ (call[h].op = "remove" => ~(copies[r] > 1))
        BY <2>1, <2>5, Zenon
      <4>2. QED
        BY <2>3, <4>1
    <3>2. policies = InStore
      BY <1>1, <2>1, <3>1 DEF Agrees
    <3>3. QED
      BY <1>1, <2>1, <2>2, <2>4, <3>1, <3>2 DEF Agrees
  <2>6. QED
    BY <1>1, <1>3, <1>4, <2>2, <2>5 DEF MemoryInv
<1>8. CASE StoreFails(h)
  <2>1. call'[h].pc = "idle" /\ UNCHANGED policies /\ call[h].pc = "rule"
    BY <1>2, <1>8 DEF StoreFails, Persists, AtRule, Idle
  <2>2. ASSUME ~torn' PROVE ~torn /\ policies' = InStore'
    <3>1. torn' = (torn \/ copies' # copies)
      BY <1>8 DEF StoreFails
    <3>2. ~torn /\ copies' = copies
      BY <2>2, <3>1
    <3>3. policies = InStore
      BY <1>1, <2>1, <3>2 DEF Agrees
    <3>4. QED
      BY <2>1, <3>2, <3>3 DEF InStore
  <2>3. QED
    BY <1>3, <1>5, <2>1, <2>2 DEF MemoryInv
<1>9. CASE Remember(h)
  <2>1. /\ call'[h] = Done(call[h]) /\ call[h].pc = "remember" /\ call[h].todo # <<>>
        /\ policies' = IF call[h].op = "add" THEN policies \cup {r} ELSE policies \ {r}
        /\ UNCHANGED <<copies, torn>>
    BY <1>1, <1>2, <1>9 DEF Remember
  <2>2. call'[h].pc = "rule" /\ call'[h].alone = call[h].alone
    BY <1>2, <2>1, DoneType
  <2>3. ~torn => Agrees(h)'
    BY <1>1, <2>1, <2>2 DEF Agrees, InStore
  <2>4. QED
    BY <1>1, <1>3, <1>4, <2>1, <2>2, <2>3 DEF MemoryInv
<1>10. CASE ReadList(h)
  <2>1. /\ call'[h].pc = "apply" /\ call'[h].alone = call[h].alone /\ call'[h].read = InStore
        /\ call[h].pc = "rule" /\ UNCHANGED <<copies, policies, torn>>
    BY <1>2, <1>10 DEF ReadList, Calls
  <2>2. InStore' = InStore
    BY <2>1 DEF InStore
  <2>3. ~torn => Agrees(h)'
    BY <1>1, <2>1, <2>2 DEF Agrees
  <2>4. QED
    BY <1>1, <1>3, <1>4, <2>1, <2>2, <2>3 DEF MemoryInv
<1>11. CASE ApplyList(h)
  <2>1. /\ call'[h].pc = "idle" /\ call[h].pc = "apply" /\ policies' = call[h].read
        /\ torn' = ~call[h].alone /\ UNCHANGED copies
    BY <1>2, <1>11 DEF ApplyList, Answers, Idle
  <2>2. ASSUME ~torn' PROVE call[h].alone /\ policies' = InStore'
    <3>1. call[h].alone
      BY <2>1, <2>2
    <3>2. QED
      BY <2>1, <3>1 DEF MemoryInv, ReadIsFresh, InStore
  <2>3. QED
    BY <1>3, <1>5, <2>1, <2>2 DEF MemoryInv
<1>12. CASE LoadFails(h)
  <2>1. /\ call'[h].pc = "idle" /\ call[h].pc = "rule" /\ UNCHANGED <<copies, policies, torn>>
    BY <1>2, <1>12 DEF LoadFails, Answers, Idle
  <2>2. ~torn => policies' = InStore'
    BY <1>1, <2>1 DEF Agrees, InStore
  <2>3. QED
    BY <1>3, <1>5, <2>1, <2>2 DEF MemoryInv
<1>13. QED
  BY <1>6, <1>7, <1>8, <1>9, <1>10, <1>11, <1>12 DEF CallStep

\* So does a request, alone or not, and a restart loads the list.
LEMMA NextMemoryInv == CheckerTypeInv /\ MemoryInv /\ [CheckerNext]_checkerVars => MemoryInv'
<1> SUFFICES ASSUME CheckerTypeInv, MemoryInv, [CheckerNext]_checkerVars PROVE MemoryInv'
  OBVIOUS
<1>1. ASSUME NEW h \in Handlers, NEW op \in {"add", "remove"}, NEW rules \in Requested, Request(h, op, rules)
      PROVE  MemoryInv'
  <2>1. /\ torn' = (torn \/ Serving # {}) /\ call[h].pc = "idle" /\ UNCHANGED <<copies, policies>>
    BY <1>1 DEF Request
  <2>2. call'[h].pc = "rule" /\ (call'[h].alone <=> Serving = {})
    BY <1>1 DEF Request, Idle
  <2>3. ASSUME NEW g \in Handlers \ {h} PROVE ~call'[g].alone /\ call'[g].pc = call[g].pc
    <3>1. call[g] \in Calls /\ call'[g] = [call[g] EXCEPT !.alone = FALSE, !.sure = FALSE]
      BY <1>1 DEF Request, CheckerTypeInv, CheckerTypeOK
    <3>2. QED
      BY <3>1 DEF Calls
  <2>4. ReadIsFresh'
    BY <2>2, <2>3 DEF ReadIsFresh
  <2>5. ASSUME ~torn' PROVE Serving' = {h} /\ call'[h].alone /\ Agrees(h)'
    <3>1. ~torn /\ Serving = {}
      BY <2>1, <2>5
    <3>2. QED
      BY <2>1, <2>2, <2>3, <3>1 DEF MemoryInv, Serving, Agrees, InStore
  <2>6. QED
    BY <2>4, <2>5 DEF MemoryInv
<1>2. CASE CheckerRestart
  BY <1>2 DEF CheckerRestart, MemoryInv, ReadIsFresh, Serving, Idle, InStore
<1>3. CASE UNCHANGED checkerVars
  BY <1>3 DEF checkerVars, MemoryInv, ReadIsFresh, Serving, Agrees, InStore
<1>4. QED
  BY <1>1, <1>2, <1>3, CallStepMemory DEF CheckerNext

\* Between calls the rules enforced are those stored, whatever failed, unless calls
\* overlapped or a write that was done was reported as failed; and a load by a call
\* alone mends that.
THEOREM MemoryAlwaysShowsStore == CheckerSpec => []MemoryShowsStore
<1>1. MemoryInv => MemoryShowsStore
  BY DEF MemoryInv, MemoryShowsStore
<1>2. QED
  BY CheckerInitTypeInv, CheckerNextTypeInv, InitMemoryInv, NextMemoryInv, <1>1, PTL DEF CheckerSpec

-----------------------------------------------------------------------------
(* Answers.  What was granted may be lost only by a call that removes it,  *)
(* and such a call has withdrawn the grant when it came; so no call has a  *)
(* granted rule left to remove, or a revoked one to add.                   *)

Withdrawn ==
    \A h \in Serving : /\ call[h].op = "add" => revoked \cap ToDo(h) = {}
                       /\ call[h].op = "remove" => granted \cap ToDo(h) = {}

\* What a call that is sure of its ground has done so far can be seen in the store.
DoneInStore ==
    \A h \in Handlers : call[h].sure =>
        /\ ~torn
        /\ call[h].op = "add" => call[h].done \subseteq InStore
        /\ call[h].op = "remove" => call[h].done \cap InStore = {} /\ ~Doubled

AnswersInv ==
    /\ granted \subseteq InStore /\ revoked \cap InStore = {}
    /\ Withdrawn
    /\ DoneInStore

\* A service that has answered nothing has nothing to hold.
LEMMA InitAnswersInv == CheckerInit => AnswersInv
BY DEF CheckerInit, AnswersInv, Withdrawn, DoneInStore, Serving, Idle

\* A step of a call that does not end it keeps the answers, if what it takes out of
\* the store was withdrawn and what it puts there is not revoked.
LEMMA AnswersKept ==
    ASSUME CheckerTypeInv, MemoryInv, AnswersInv, NEW h \in Handlers, CallStep(h),
           UNCHANGED <<granted, revoked>>,
           granted \subseteq InStore', revoked \cap InStore' = {},
           call'[h].pc # "idle" => call'[h].op = call[h].op /\ ToDo(h)' \subseteq ToDo(h),
           call'[h].sure => /\ ~torn'
                            /\ call'[h].op = "add" => call'[h].done \subseteq InStore'
                            /\ call'[h].op = "remove" => call'[h].done \cap InStore' = {} /\ ~Doubled'
    PROVE  AnswersInv'
<1>1. /\ call[h].pc # "idle" /\ \A g \in Handlers \ {h} : call'[g] = call[g] /\ ~call[g].alone
  BY StepOfOne
<1>2. \A g \in Handlers \ {h} : ~call[g].sure
  BY <1>1 DEF CheckerTypeInv, CheckerTypeOK
<1>3. Withdrawn'
  BY <1>1 DEF AnswersInv, Withdrawn, Serving, ToDo
<1>4. DoneInStore'
  BY <1>1, <1>2 DEF DoneInStore
<1>5. QED
  BY <1>3, <1>4 DEF AnswersInv

\* A write to the store takes out nothing that was granted and puts nothing there
\* that was revoked.
LEMMA WriteKeepsAnswers ==
    ASSUME CheckerTypeInv, AnswersInv, NEW h \in Handlers, Persists(h), copies' = Persisted(h)
    PROVE  granted \subseteq InStore' /\ revoked \cap InStore' = {}
<1> DEFINE r == Head(call[h].todo)
<1>1. call[h].pc = "rule" /\ call[h].todo # <<>> /\ call[h].op \in {"add", "remove"}
      /\ call[h].todo \in {<<>>} \cup Requested
  BY DEF Persists, AtRule, CheckerTypeInv, CheckerTypeOK, UnderWay, Calls
<1>2. r \in ToDo(h)
  BY <1>1, RequestedTail DEF ToDo
<1>3. /\ call[h].op = "add" => r \notin revoked
      /\ call[h].op = "remove" => r \notin granted
  BY <1>1, <1>2 DEF AnswersInv, Withdrawn, Serving
<1>4. /\ call[h].op = "add" => InStore' = InStore \cup {r}
      /\ call[h].op = "remove" => InStore' \subseteq InStore /\ InStore \ {r} \subseteq InStore'
  BY PersistedStore
<1>5. QED
  BY <1>1, <1>3, <1>4 DEF AnswersInv

\* Every step of a call keeps the answers given, and answers only what is so.
LEMMA CallStepAnswers ==
    ASSUME CheckerTypeInv, MemoryInv, AnswersInv, NEW h \in Handlers, CallStep(h)
    PROVE  AnswersInv'
<1> USE DEF checkerHistory, checkerCounters
<1> DEFINE r == Head(call[h].todo)
<1>1. /\ call[h].pc # "idle" /\ call[h].op \in {"add", "remove"}
      /\ \A g \in Handlers \ {h} : call'[g] = call[g] /\ ~call[g].alone
      /\ call[h].pc = "remember" => call[h].todo # <<>>
      /\ ~torn => /\ call[h].alone /\ Agrees(h)
                  /\ \A g \in Handlers \ {h} : call[g].pc = "idle"
  BY StepOfOne
<1>2. call \in [Handlers -> Calls] /\ call[h] \in Calls
  BY DEF CheckerTypeInv, CheckerTypeOK
<1>3. call[h].sure => /\ ~torn
                      /\ call[h].op = "add" => call[h].done \subseteq InStore
                      /\ call[h].op = "remove" => call[h].done \cap InStore = {} /\ ~Doubled
  BY DEF AnswersInv, DoneInStore
<1>4. ASSUME call[h].todo # <<>>, call'[h] = Done(call[h]), UNCHANGED <<copies, torn, granted, revoked>>,
             ~torn => IF call[h].op = "add" THEN r \in InStore ELSE r \notin InStore
      PROVE  AnswersInv'
  <2>1. /\ call'[h].pc = "rule" /\ call'[h].op = call[h].op /\ call'[h].sure = call[h].sure
        /\ call'[h].todo = Tail(call[h].todo) /\ call'[h].done = call[h].done \cup {r}
    BY <1>2, <1>4, DoneType
  <2>2. ToDo(h)' \subseteq ToDo(h)
    <3>1. call[h].todo \in Requested \cup {<<>>}
      BY <1>2 DEF Calls
    <3>2. QED
      BY <1>4, <2>1, <3>1, RequestedTail DEF ToDo
  <2>3. InStore' = InStore /\ (Doubled' <=> Doubled)
    BY <1>4 DEF InStore, Doubled
  <2>4. QED
    BY <1>1, <1>3, <1>4, <2>1, <2>2, <2>3, AnswersKept DEF AnswersInv
<1>5. CASE AlreadyThere(h)
  <2>1. /\ call'[h] = Done(call[h]) /\ call[h].pc = "rule" /\ call[h].todo # <<>> /\ call[h].op = "add"
        /\ r \in policies /\ UNCHANGED <<copies, torn, granted, revoked>>
    BY <1>2, <1>5 DEF AlreadyThere, AtRule
  <2>2. ~torn => r \in InStore
    BY <1>1, <2>1 DEF Agrees
  <2>3. QED
    BY <1>4, <2>1, <2>2
<1>6. CASE Remember(h)
  <2>1. /\ call'[h] = Done(call[h]) /\ call[h].pc = "remember" /\ call[h].todo # <<>>
        /\ UNCHANGED <<copies, torn, granted, revoked>>
    BY <1>1, <1>2, <1>6 DEF Remember
  <2>2. ~torn => IF call[h].op = "add" THEN r \in InStore ELSE r \notin InStore
    BY <1>1, <2>1 DEF Agrees
  <2>3. QED
    BY <1>4, <2>1, <2>2
<1>7. CASE StoreRule(h)
  <2>1. /\ Persists(h) /\ copies' = Persisted(h) /\ UNCHANGED <<granted, revoked>>
        /\ torn' = (torn \/ (call[h].op = "remove" /\ copies[r] > 1))
    BY <1>7 DEF StoreRule
  <2>2. /\ call'[h].op = call[h].op /\ call'[h].todo = call[h].todo /\ call'[h].sure = call[h].sure
        /\ call'[h].done = call[h].done
    BY <1>2, <1>7 DEF StoreRule, Calls
  <2>3. r \in Stored /\ copies \in [Stored -> Nat]
    BY <2>1, PersistedType DEF CheckerTypeInv, CheckerTypeOK, Stored
  <2>4. /\ call[h].op = "add" => InStore' = InStore \cup {r}
        /\ call[h].op = "remove" => InStore' \subseteq InStore
    BY <2>1, PersistedStore
  <2>5. call[h].sure => ~torn'
    <3>1. call[h].sure /\ call[h].op = "remove" => ~(copies[r] > 1)
      BY <1>3, <2>3 DEF Doubled
    <3>2. QED
      BY <1>3, <2>1, <3>1, Zenon
  <2>6. call[h].op = "remove" /\ ~Doubled => ~Doubled'
    <3>1. ASSUME call[h].op = "remove", NEW s \in Stored PROVE copies'[s] <= copies[s]
      BY <2>1, <2>3, <3>1 DEF Persisted
    <3>2. \A s \in Stored : copies[s] \in Nat /\ copies'[s] \in Nat
      BY <2>1, <2>3, PersistedType
    <3>3. QED
      BY <3>1, <3>2 DEF Doubled
  <2>7. ToDo(h)' = ToDo(h)
    BY <2>2 DEF ToDo
  <2>8. granted \subseteq InStore' /\ revoked \cap InStore' = {}
    BY <2>1, WriteKeepsAnswers
  <2>9. call'[h].sure => /\ ~torn'
                         /\ call'[h].op = "add" => call'[h].done \subseteq InStore'
                         /\ call'[h].op = "remove" => call'[h].done \cap InStore' = {} /\ ~Doubled'
    BY <1>3, <2>2, <2>4, <2>5, <2>6
  <2>10. QED
    BY <2>1, <2>2, <2>7, <2>8, <2>9, AnswersKept
<1>8. CASE StoreFails(h)
  <2>1. call'[h].pc = "idle" /\ ~call'[h].sure /\ UNCHANGED <<granted, revoked>>
    BY <1>2, <1>8 DEF StoreFails, Idle
  <2>2. Persists(h) /\ (copies' = copies \/ copies' = Persisted(h))
    BY <1>8 DEF StoreFails
  <2>3. copies' = copies => InStore' = InStore
    BY DEF InStore
  <2>4. granted \subseteq InStore' /\ revoked \cap InStore' = {}
    BY <2>2, <2>3, WriteKeepsAnswers DEF AnswersInv
  <2>5. QED
    BY <2>1, <2>4, AnswersKept
<1>9. CASE ReadList(h)
  <2>1. /\ call'[h].op = call[h].op /\ call'[h].todo = call[h].todo /\ call'[h].sure = call[h].sure
        /\ call'[h].done = call[h].done /\ UNCHANGED <<copies, torn, granted, revoked>>
    BY <1>2, <1>9 DEF ReadList, Calls
  <2>2. InStore' = InStore /\ (Doubled' <=> Doubled) /\ ToDo(h)' = ToDo(h)
    BY <2>1 DEF InStore, Doubled, ToDo
  <2>3. QED
    BY <1>3, <2>1, <2>2, AnswersKept DEF AnswersInv
<1>10. CASE ApplyList(h) \/ LoadFails(h)
  <2>1. /\ call'[h].pc = "idle" /\ ~call'[h].sure /\ UNCHANGED copies
        /\ granted' = granted \cup IF call[h].sure /\ call[h].op = "add" THEN call[h].done ELSE {}
        /\ revoked' = revoked \cup IF call[h].sure /\ call[h].op = "remove" THEN call[h].done ELSE {}
    BY <1>2, <1>10 DEF ApplyList, LoadFails, Answers, Idle
  <2>2. InStore' = InStore
    BY <2>1 DEF InStore
  <2>3. granted' \subseteq InStore' /\ revoked' \cap InStore' = {}
    BY <1>3, <2>1, <2>2 DEF AnswersInv
  <2>4. \A g \in Handlers : ~call'[g].sure
    BY <1>1, <2>1 DEF CheckerTypeInv, CheckerTypeOK
  <2>5. CASE call[h].sure
    <3>1. \A g \in Handlers : call'[g].pc = "idle"
      BY <1>1, <1>3, <2>1, <2>5
    <3>2. QED
      BY <2>3, <2>4, <3>1 DEF AnswersInv, Withdrawn, DoneInStore, Serving
  <2>6. CASE ~call[h].sure
    <3>1. UNCHANGED <<granted, revoked>>
      BY <2>1, <2>6
    <3>2. QED
      BY <2>1, <2>3, <3>1, AnswersKept
  <2>7. QED
    BY <2>5, <2>6
<1>11. QED
  BY <1>5, <1>6, <1>7, <1>8, <1>9, <1>10 DEF CallStep

\* A request withdraws the answers it contradicts, before it changes anything; a
\* restart leaves the store as it is.
LEMMA NextAnswersInv ==
    CheckerTypeInv /\ MemoryInv /\ AnswersInv /\ [CheckerNext]_checkerVars => AnswersInv'
<1> SUFFICES ASSUME CheckerTypeInv, MemoryInv, AnswersInv, [CheckerNext]_checkerVars PROVE AnswersInv'
  OBVIOUS
<1>1. ASSUME NEW h \in Handlers, NEW op \in {"add", "remove"}, NEW rules \in Requested, Request(h, op, rules)
      PROVE  AnswersInv'
  <2> DEFINE named == {rules[i] : i \in DOMAIN rules}
  <2>1. /\ torn' = (torn \/ Serving # {}) /\ call[h].pc = "idle" /\ UNCHANGED copies
        /\ granted' = IF op = "remove" THEN granted \ named ELSE granted
        /\ revoked' = IF op = "add" THEN revoked \ named ELSE revoked
    BY <1>1 DEF Request
  <2>2. /\ call'[h].op = op /\ call'[h].todo = rules /\ call'[h].done = {}
        /\ call'[h].sure <=> Serving = {} /\ ~torn /\ ~Doubled
    BY <1>1 DEF Request, Idle
  <2>3. ASSUME NEW g \in Handlers \ {h}
        PROVE  /\ ~call'[g].sure /\ call'[g].pc = call[g].pc /\ call'[g].op = call[g].op
               /\ ToDo(g)' = ToDo(g)
    <3>1. call[g] \in Calls /\ call'[g] = [call[g] EXCEPT !.alone = FALSE, !.sure = FALSE]
      BY <1>1 DEF Request, CheckerTypeInv, CheckerTypeOK
    <3>2. QED
      BY <3>1 DEF Calls, ToDo
  <2>4. InStore' = InStore /\ (Doubled' <=> Doubled) /\ ToDo(h)' = named
    BY <2>1, <2>2 DEF InStore, Doubled, ToDo
  <2>5. Withdrawn'
    BY <2>1, <2>2, <2>3, <2>4 DEF AnswersInv, Withdrawn, Serving
  <2>6. DoneInStore'
    BY <2>1, <2>2, <2>3, <2>4 DEF DoneInStore
  <2>7. QED
    BY <2>1, <2>4, <2>5, <2>6 DEF AnswersInv
<1>2. CASE CheckerRestart
  BY <1>2 DEF CheckerRestart, AnswersInv, Withdrawn, DoneInStore, Serving, Idle, InStore
<1>3. CASE UNCHANGED checkerVars
  BY <1>3 DEF checkerVars, AnswersInv, Withdrawn, DoneInStore, Serving, ToDo, InStore, Doubled
<1>4. QED
  BY <1>1, <1>2, <1>3, CallStepAnswers DEF CheckerNext

\* What a call answered with success holds until a request contradicts it, across
\* calls that overlap or fail afterwards and across restarts.
THEOREM AnswersAlwaysHold == CheckerSpec => []AnswersHold
<1>1. CheckerTypeInv /\ MemoryInv /\ AnswersInv => AnswersHold
  <2> SUFFICES ASSUME CheckerTypeInv, MemoryInv, AnswersInv PROVE AnswersHold
    OBVIOUS
  <2>1. granted \subseteq InStore /\ revoked \cap InStore = {} /\ granted \subseteq Rules
    BY DEF AnswersInv, CheckerTypeInv, CheckerTypeOK
  <2>2. Serving = {} /\ ~torn => policies = InStore
    BY DEF MemoryInv
  <2>3. QED
    BY <2>1, <2>2 DEF AnswersHold, Listed
<1>2. QED
  BY CheckerInitTypeInv, CheckerNextTypeInv, InitMemoryInv, NextMemoryInv, InitAnswersInv,
     NextAnswersInv, <1>1, PTL DEF CheckerSpec
=============================================================================
