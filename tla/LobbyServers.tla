---------------------------- MODULE LobbyServers ----------------------------
(***************************************************************************)
(* The game servers (lobby_minestom Main.java), one pod per server name.   *)
(* A pod publishes its metadata once, from a task of the first tick, and   *)
(* deletes its key from a JVM shutdown hook.  The hook is a thread of its  *)
(* own: the tick thread still runs while it deletes.  A pod that is killed *)
(* runs no hook.  The pods belong to a StatefulSet: a pod keeps its name,   *)
(* and its address is a DNS name; a container restarted in place keeps its *)
(* IP, a pod that is scheduled again gets a new one.                       *)
(***************************************************************************)
EXTENDS KVBucket

CONSTANTS Servers, Metas, NoMeta,
          LobbyFaults,   \* which calls of a pod may fail: "connect", "publish", "delete"
          MaxIp          \* bound: addresses a pod goes through

VARIABLES
    bucket,     \* the "servers" KV bucket
    phase,      \* down, running, or halting (its shutdown hook has run)
    ip,         \* what the pod's DNS name resolves to, 0 before its first start
    kv,         \* the handle on the bucket is present (Option kv)
    published   \* the first tick's put: "pending", "stored" or "lost"

podVars == <<phase, ip, kv, published>>
lobbyVars == <<bucket, podVars>>

PodInit ==
    /\ phase = [s \in Servers |-> "down"]
    /\ ip = [s \in Servers |-> 0]
    /\ kv = [s \in Servers |-> FALSE]
    /\ published = [s \in Servers |-> "pending"]

\* main: a failed connection leaves kv empty, and the server starts anyway.
Start(s) ==
    /\ phase[s] = "down"
    /\ phase' = [phase EXCEPT ![s] = "running"]
    /\ \E a \in {ip[s], ip[s] + 1} \cap (1..MaxIp) : ip' = [ip EXCEPT ![s] = a]
    /\ \E connected \in IF "connect" \in LobbyFaults THEN BOOLEAN ELSE {TRUE} :
          kv' = [kv EXCEPT ![s] = connected]
    /\ published' = [published EXCEPT ![s] = "pending"]
    /\ UNCHANGED bucket

\* The first tick: the address is always in the annotations put, and the
\* labels are what the downward API gave.  A failed put is logged, not retried.
FirstTick(s, m) ==
    /\ phase[s] # "down"
    /\ published[s] = "pending"
    /\ \/ /\ kv[s]
          /\ bucket' = KVPut(bucket, s, m)
          /\ published' = [published EXCEPT ![s] = "stored"]
       \/ /\ ~kv[s] \/ "publish" \in LobbyFaults
          /\ published' = [published EXCEPT ![s] = "lost"]
          /\ UNCHANGED bucket
    /\ UNCHANGED <<phase, ip, kv>>

\* Faulty variant: the hook purges the key, which leaves another marker.
PurgingHook(s) ==
    /\ phase[s] = "running"
    /\ phase' = [phase EXCEPT ![s] = "halting"]
    /\ bucket' = Written(bucket, s, "purge", NoMeta)
    /\ UNCHANGED <<ip, kv, published>>

ShutdownHook(s) ==
    /\ phase[s] = "running"
    /\ phase' = [phase EXCEPT ![s] = "halting"]
    /\ \/ kv[s] /\ bucket' = KVDelete(bucket, s, NoMeta)
       \/ (~kv[s] \/ "delete" \in LobbyFaults) /\ UNCHANGED bucket
    /\ UNCHANGED <<ip, kv, published>>

\* The JVM exits after the hook, or the container is killed.
Exit(s) ==
    /\ phase[s] # "down"
    /\ phase' = [phase EXCEPT ![s] = "down"]
    /\ UNCHANGED <<bucket, ip, kv, published>>

PodStep(s) ==
    \/ Start(s) \/ ShutdownHook(s) \/ Exit(s)
    \/ \E m \in Metas : FirstTick(s, m)
=============================================================================
