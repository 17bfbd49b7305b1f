--------------------------- MODULE KVBucketProofs --------------------------
(***************************************************************************)
(* Lemmas about a key-value bucket and its watcher, for every set of keys  *)
(* and values: what a write, a delivery and a receipt keep of the order in *)
(* which revisions were written.  The components that follow a bucket cite *)
(* them.                                                                   *)
(***************************************************************************)
EXTENDS KVBucket, SequenceTheorems, TLAPS

-----------------------------------------------------------------------------
(* Types.                                                                  *)

\* The empty bucket is a bucket.
LEMMA EmptyBucketType ==
    ASSUME NEW Keys, NEW V, NEW noVal \in V
    PROVE  EmptyBucket(Keys, noVal) \in Buckets(Keys, V)
BY DEF EmptyBucket, Buckets, Revisions, Ops

\* A write to a bucket gives a bucket.
LEMMA WrittenType ==
    ASSUME NEW Keys, NEW V, NEW b \in Buckets(Keys, V), NEW k \in Keys,
           NEW op \in Ops, NEW v \in V
    PROVE  Written(b, k, op, v) \in Buckets(Keys, V)
BY DEF Written, Buckets, Revisions

\* A put to a bucket gives a bucket.
LEMMA KVPutType ==
    ASSUME NEW Keys, NEW V, NEW b \in Buckets(Keys, V), NEW k \in Keys, NEW v \in V
    PROVE  KVPut(b, k, v) \in Buckets(Keys, V)
BY WrittenType DEF KVPut, Ops

\* A delete from a bucket gives a bucket.
LEMMA KVDeleteType ==
    ASSUME NEW Keys, NEW V, NEW b \in Buckets(Keys, V), NEW k \in Keys, NEW v \in V
    PROVE  KVDelete(b, k, v) \in Buckets(Keys, V)
BY WrittenType DEF KVDelete, Ops

\* What is sent for a key is an entry of that key, with its revision.
LEMMA EntryOfType ==
    ASSUME NEW Keys, NEW V, NEW b \in Buckets(Keys, V), NEW k \in Keys
    PROVE  /\ EntryOf(b, k) \in Entries(Keys, V)
           /\ EntryOf(b, k).key = k /\ EntryOf(b, k).rev = b.last[k].rev
           /\ b.last[k].rev \in Nat
BY DEF EntryOf, Entries, Buckets, Revisions

-----------------------------------------------------------------------------
(* Order.                                                                  *)

\* Revisions are counted up, a key that has one was put or deleted, and no two
\* keys have the same.
WellNumbered(b) ==
    /\ \A k \in DOMAIN b.last : b.last[k].rev <= b.seq
    /\ \A k \in DOMAIN b.last : b.last[k].op = "none" <=> b.last[k].rev = 0
    /\ \A j, k \in DOMAIN b.last :
          b.last[j].rev > 0 /\ b.last[j].rev = b.last[k].rev => j = k

\* An entry is the last revision of its key, or an earlier one.
Fits(b, e) ==
    /\ e.rev <= b.last[e.key].rev
    /\ e.rev = b.last[e.key].rev => e = EntryOf(b, e.key)

\* What was sent is waiting in the order it was written.  (An entry of revision
\* 0 would be the marker that some watchers get.)
Ordered(b, cursor, ch) ==
    /\ cursor <= b.seq
    /\ \A i \in DOMAIN ch : ch[i].rev > 0 => ch[i].rev <= cursor /\ Fits(b, ch[i])
    /\ \A i, j \in DOMAIN ch : i < j /\ ch[i].rev > 0 /\ ch[j].rev > 0 => ch[i].rev < ch[j].rev

Waits(ch, e) == \E i \in DOMAIN ch : ch[i] = e

\* An empty bucket has no revisions.
LEMMA EmptyBucketOrder ==
    ASSUME NEW Keys, NEW noVal
    PROVE  /\ WellNumbered(EmptyBucket(Keys, noVal))
           /\ Ordered(EmptyBucket(Keys, noVal), 0, <<>>)
BY DEF EmptyBucket, WellNumbered, Ordered

\* A restarted watcher has sent nothing.
LEMMA NothingSent ==
    ASSUME NEW Keys, NEW V, NEW b \in Buckets(Keys, V)
    PROVE  Ordered(b, 0, <<>>)
BY DEF Ordered, Buckets

\* The revision of a write is newer than all others.
LEMMA WrittenNumbered ==
    ASSUME NEW Keys, NEW V, NEW b \in Buckets(Keys, V), WellNumbered(b), NEW k \in Keys,
           NEW op \in {"put", "del"}, NEW v
    PROVE  /\ WellNumbered(Written(b, k, op, v))
           /\ Written(b, k, op, v).seq = b.seq + 1
           /\ Written(b, k, op, v).last[k] = [rev |-> b.seq + 1, op |-> op, val |-> v]
           /\ \A j \in Keys \ {k} : Written(b, k, op, v).last[j] = b.last[j]
BY DEF WellNumbered, Written, Buckets, Revisions

\* An entry of a key remains its last revision or an earlier one.
LEMMA WrittenFits ==
    ASSUME NEW Keys, NEW V, NEW b \in Buckets(Keys, V), WellNumbered(b), NEW k \in Keys,
           NEW op \in {"put", "del"}, NEW v,
           NEW e, e.key \in Keys, e.rev \in Nat, Fits(b, e)
    PROVE  Fits(Written(b, k, op, v), e)
<1> DEFINE w == Written(b, k, op, v)
<1>1. /\ w.last[k] = [rev |-> b.seq + 1, op |-> op, val |-> v]
      /\ \A j \in Keys \ {k} : w.last[j] = b.last[j]
  BY WrittenNumbered
<1>5. b.seq \in Nat /\ b.last[e.key].rev \in Nat /\ b.last[e.key].rev <= b.seq
  BY DEF Buckets, Revisions, WellNumbered
<1>2. CASE e.key = k
  BY <1>1, <1>5, <1>2 DEF Fits
<1>3. CASE e.key # k
  BY <1>1, <1>5, <1>3 DEF Fits, EntryOf
<1>4. QED
  BY <1>2, <1>3

\* A write leaves what was sent in order.
LEMMA WriteKeepsOrder ==
    ASSUME NEW Keys, NEW V, NEW b \in Buckets(Keys, V), WellNumbered(b), NEW k \in Keys,
           NEW op \in {"put", "del"}, NEW v, NEW cursor \in Nat,
           NEW S, \A e \in S : e.rev \in Nat /\ (e.rev > 0 => e.key \in Keys),
           NEW ch \in Seq(S), Ordered(b, cursor, ch)
    PROVE  Ordered(Written(b, k, op, v), cursor, ch)
<1>1. Written(b, k, op, v).seq = b.seq + 1 /\ b.seq \in Nat
  BY DEF Written, Buckets
<1>2. \A i \in DOMAIN ch : ch[i] \in S
  OBVIOUS
<1>3. \A i \in DOMAIN ch : ch[i].rev > 0 => Fits(Written(b, k, op, v), ch[i])
  BY <1>2, WrittenFits DEF Ordered
<1>4. QED
  BY <1>1, <1>3 DEF Ordered

\* The cursor moves to the oldest revision that is not sent, and passes over no
\* other key's last one.
LEMMA NothingPassedOver ==
    ASSUME NEW Keys, NEW V, NEW b \in Buckets(Keys, V), WellNumbered(b), NEW k \in Keys,
           NEW cursor \in Nat, IsNext(b, cursor, k)
    PROVE  /\ b.last[k].rev \in Nat /\ b.last[k].rev > cursor /\ b.last[k].rev <= b.seq
           /\ \A j \in Keys : b.last[j].rev <= b.last[k].rev => j = k \/ b.last[j].rev <= cursor
<1>1. DOMAIN b.last = Keys /\ \A j \in Keys : b.last[j].rev \in Nat
  BY DEF Buckets, Revisions
<1>2. QED
  BY <1>1 DEF IsNext, WellNumbered

\* A delivery sends the oldest revision that is not sent: what waits stays in
\* order, and no other key's last revision is passed over.
LEMMA DeliveryKeepsOrder ==
    ASSUME NEW Keys, NEW V, NEW b \in Buckets(Keys, V), WellNumbered(b), NEW k \in Keys,
           NEW cursor \in Nat, IsNext(b, cursor, k),
           NEW S, \A e \in S : e.rev \in Nat, EntryOf(b, k) \in S,
           NEW ch \in Seq(S), Ordered(b, cursor, ch)
    PROVE  /\ Ordered(b, b.last[k].rev, Append(ch, EntryOf(b, k)))
           /\ \A j \in Keys : b.last[j].rev <= b.last[k].rev => j = k \/ b.last[j].rev <= cursor
<1>1. /\ b.last[k].rev \in Nat /\ b.last[k].rev > cursor /\ b.last[k].rev <= b.seq
      /\ \A j \in Keys : b.last[j].rev <= b.last[k].rev => j = k \/ b.last[j].rev <= cursor
  BY NothingPassedOver
<1>2. EntryOf(b, k).rev = b.last[k].rev /\ Fits(b, EntryOf(b, k))
  BY <1>1 DEF EntryOf, Fits
<1> DEFINE new == Append(ch, EntryOf(b, k))
<1>3. /\ new \in Seq(S) /\ Len(new) = Len(ch) + 1 /\ Len(ch) \in Nat
      /\ DOMAIN new = 1..Len(ch) + 1 /\ DOMAIN ch = 1..Len(ch)
      /\ \A i \in 1..Len(ch) : new[i] = ch[i] /\ ch[i] \in S
      /\ new[Len(ch) + 1] = EntryOf(b, k)
  BY AppendProperties, LenProperties
<1>4. \A i \in DOMAIN new : new[i].rev > 0 => new[i].rev <= b.last[k].rev /\ Fits(b, new[i])
  BY <1>1, <1>2, <1>3 DEF Ordered
<1>5. \A i, j \in DOMAIN new : i < j /\ new[i].rev > 0 /\ new[j].rev > 0 => new[i].rev < new[j].rev
  BY <1>1, <1>2, <1>3 DEF Ordered
<1>6. Ordered(b, b.last[k].rev, new)
  BY <1>1, <1>4, <1>5 DEF Ordered
<1>7. QED
  BY <1>1, <1>6

\* The marker, which has no revision, stands anywhere.
LEMMA MarkerKeepsOrder ==
    ASSUME NEW b, NEW cursor, NEW S, NEW ch \in Seq(S), Ordered(b, cursor, ch),
           NEW m \in S, m.rev = 0
    PROVE  Ordered(b, cursor, Append(ch, m))
<1> DEFINE new == Append(ch, m)
<1>1. /\ Len(ch) \in Nat /\ DOMAIN new = 1..Len(ch) + 1 /\ DOMAIN ch = 1..Len(ch)
      /\ \A i \in 1..Len(ch) : new[i] = ch[i]
      /\ new[Len(ch) + 1] = m
  BY AppendProperties, LenProperties
<1>2. \A i \in DOMAIN new : new[i].rev > 0 => i \in DOMAIN ch /\ new[i] = ch[i]
  BY <1>1
<1>3. QED
  BY <1>2 DEF Ordered

\* What waits after a delivery is what waited, and the entry.
LEMMA AppendWaits ==
    ASSUME NEW S, NEW ch \in Seq(S), NEW e \in S
    PROVE  /\ Append(ch, e) \in Seq(S)
           /\ \A d : Waits(Append(ch, e), d) <=> Waits(ch, d) \/ d = e
<1>1. /\ Append(ch, e) \in Seq(S) /\ Len(ch) \in Nat
      /\ DOMAIN Append(ch, e) = 1..Len(ch) + 1 /\ DOMAIN ch = 1..Len(ch)
      /\ \A i \in 1..Len(ch) : Append(ch, e)[i] = ch[i]
      /\ Append(ch, e)[Len(ch) + 1] = e
  BY AppendProperties, LenProperties
<1>2. QED
  BY <1>1 DEF Waits

\* What is received is the oldest of what waits.
LEMMA ReceiptKeepsOrder ==
    ASSUME NEW b, NEW cursor \in Nat, NEW S, \A e \in S : e.rev \in Nat,
           NEW ch \in Seq(S), ch # <<>>, Ordered(b, cursor, ch)
    PROVE  /\ Head(ch) \in S /\ Tail(ch) \in Seq(S) /\ Len(Tail(ch)) = Len(ch) - 1
           /\ Ordered(b, cursor, Tail(ch))
           /\ Head(ch).rev > 0 => Head(ch).rev <= cursor /\ Fits(b, Head(ch))
           /\ Head(ch).rev > 0 => \A i \in DOMAIN Tail(ch) :
                 Tail(ch)[i].rev > 0 => Head(ch).rev < Tail(ch)[i].rev
           /\ Waits(ch, Head(ch))
           /\ \A e : Waits(ch, e) => e = Head(ch) \/ Waits(Tail(ch), e)
           /\ \A e : Waits(Tail(ch), e) => Waits(ch, e)
<1>1. /\ Head(ch) \in S /\ Tail(ch) \in Seq(S) /\ Len(Tail(ch)) = Len(ch) - 1
      /\ Len(ch) \in Nat /\ Len(ch) > 0 /\ DOMAIN ch = 1..Len(ch) /\ DOMAIN Tail(ch) = 1..Len(ch) - 1
      /\ \A i \in 1..Len(ch) - 1 : Tail(ch)[i] = ch[i + 1]
      /\ Head(ch) = ch[1] /\ \A i \in 1..Len(ch) : ch[i] \in S
  BY HeadTailProperties, LenProperties, EmptySeq
<1>2. Ordered(b, cursor, Tail(ch))
  <2>1. \A i \in DOMAIN Tail(ch) : i + 1 \in DOMAIN ch /\ Tail(ch)[i] = ch[i + 1]
    BY <1>1
  <2>2. ASSUME NEW i \in DOMAIN Tail(ch), Tail(ch)[i].rev > 0
        PROVE  Tail(ch)[i].rev <= cursor /\ Fits(b, Tail(ch)[i])
    BY <2>1, <2>2 DEF Ordered
  <2>3. ASSUME NEW i \in DOMAIN Tail(ch), NEW j \in DOMAIN Tail(ch), i < j,
               Tail(ch)[i].rev > 0, Tail(ch)[j].rev > 0
        PROVE  Tail(ch)[i].rev < Tail(ch)[j].rev
    <3>1. i + 1 < j + 1
      BY <1>1, <2>3
    <3>2. QED
      BY <2>1, <2>3, <3>1 DEF Ordered
  <2>4. QED
    BY <2>2, <2>3 DEF Ordered
<1>3. Head(ch).rev > 0 => Head(ch).rev <= cursor /\ Fits(b, Head(ch))
  BY <1>1 DEF Ordered
<1>4. Head(ch).rev > 0 => \A i \in DOMAIN Tail(ch) :
                 Tail(ch)[i].rev > 0 => Head(ch).rev < Tail(ch)[i].rev
  BY <1>1 DEF Ordered
<1>5. /\ Waits(ch, Head(ch))
      /\ \A e : Waits(Tail(ch), e) => Waits(ch, e)
  BY <1>1 DEF Waits
<1>6. ASSUME NEW e, Waits(ch, e), e # Head(ch) PROVE Waits(Tail(ch), e)
  <2>1. PICK i \in 1..Len(ch) : ch[i] = e
    BY <1>1, <1>6 DEF Waits
  <2>2. i - 1 \in DOMAIN Tail(ch) /\ Tail(ch)[i - 1] = e
    BY <1>1, <1>6, <2>1
  <2>3. QED
    BY <2>2 DEF Waits
<1>7. QED
  BY <1>1, <1>2, <1>3, <1>4, <1>5, <1>6
=============================================================================
