------------------------------ MODULE KVBucket ------------------------------
(***************************************************************************)
(* A NATS JetStream key-value bucket as this system configures it: history *)
(* of one revision per key, so a key's last operation (a put or a delete   *)
(* marker) is all that is kept of it.  The watcher of nats.go sees, for    *)
(* each key, some of its revisions, in the order of their numbers: one     *)
(* that was overwritten before it was sent is never seen.                  *)
(*                                                                         *)
(* Constant operators only: the modules that own a bucket keep it in a     *)
(* variable, with a cursor (the last revision sent to the watcher) and a   *)
(* channel (sent and not yet received) of their own.                       *)
(***************************************************************************)
EXTENDS Naturals, Sequences

Ops == {"none", "put", "del"}

\* A key's last message in the stream; a key never written has revision 0.
Revisions(Vals) == [rev : Nat, op : Ops, val : Vals]

Buckets(Keys, Vals) == [seq : Nat, last : [Keys -> Revisions(Vals)]]

EmptyBucket(Keys, noVal) ==
    [seq |-> 0, last |-> [k \in Keys |-> [rev |-> 0, op |-> "none", val |-> noVal]]]

Written(b, k, op, v) ==
    [seq  |-> b.seq + 1,
     last |-> [b.last EXCEPT ![k] = [rev |-> b.seq + 1, op |-> op, val |-> v]]]

KVPut(b, k, v) == Written(b, k, "put", v)

\* Delete appends a marker whether or not the key holds a value.
KVDelete(b, k, noVal) == Written(b, k, "del", noVal)

HasValue(b, k) == b.last[k].op = "put"

-----------------------------------------------------------------------------
(* The watcher.                                                            *)

\* What watcher.Updates() carries.
Entries(Keys, Vals) == [key : Keys, rev : Nat, op : Ops, val : Vals]

EntryOf(b, k) ==
    [key |-> k, rev |-> b.last[k].rev, op |-> b.last[k].op, val |-> b.last[k].val]

\* k's last revision is the next message of the stream after the cursor.
IsNext(b, cursor, k) ==
    /\ b.last[k].rev > cursor
    /\ \A j \in DOMAIN b.last :
          b.last[j].rev > cursor => b.last[k].rev <= b.last[j].rev

\* Everything written has been sent.
AllSent(b, cursor) == \A k \in DOMAIN b.last : b.last[k].rev <= cursor
=============================================================================
