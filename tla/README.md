# Verification of minecraft-network

TLA+ models of the parts of this repository that keep shared or replicated
state, or decide something others rely on, the TLC runs that check them and the
theorems TLAPS proves about them. Paths are relative to `src/`; `NET/` is
`servers/proxy_gate/plugins/network/`, `UTIL/` is `servers/proxy_gate/util/`.

## 1. The system

A Gate proxy (Go) accepts Minecraft players and routes them to game servers.
Game servers (Minestom, Java) announce themselves in a NATS JetStream key-value
bucket; players' metadata live in a second bucket; access policies live in
Valkey and are edited by a web application; a gRPC service answers permission
checks from its own replicas of the buckets. No component calls another one
directly. They meet in four places:

    lobby pods --put/delete--> bucket "servers" --watch--> proxy: servers package --> Gate
    proxy: players API --put/delete--> bucket "players" --watch--> proxy: players package
    bucket (keys with a prefix) --watch--> permissions checker's caches
    web application --> Valkey (policies) <--load-- proxies ;  web app --NATS notice--> proxies
    proxy --NATS chat subject--> every proxy --> its players

### 1.1 Components

**Key-value bucket and watcher** (vendored `nats.go/kv.go`). State: for each key
its last revision, kept by the server; for each watcher the last message sent
and a bounded channel. Operations: put, delete (a marker), watch. Hard: a
revision overwritten before it was sent is never seen; the marker after the
initial values is found by counting messages while writers move keys to the end
of the stream. Correct if a follower sees revisions in order and the last of
each key.

**Server registry of the proxy** (`NET/servers/`, `NET/servers.go`). State:
`serversMetadata` under `metadataCacheMu`, `registeredServersCache` under
`registryMu`, and the list of servers inside Gate. Operations: the watcher
goroutine (`WatchKVStore`, `RegisterOrUpdateServer`, `UnregisterServer`), the
event handlers that ask for a default server, `/join`, `UpdateMetadataByName`.
Hard: three representations of one fact changed one after the other; two locks;
a put made while a lock is held; DNS failures; restarts. Correct if Gate and
both caches agree whenever someone can look, end where the bucket is, and every
handler gets its answer.

**Routing of players** (`NET/servers/events.go`, `/join`). State: none of its own;
Gate's connections and what the caches say at the moment a handler runs.
Operations: the first server, the server after a kick, `/join`. Hard: the server
chosen is dead, or gone, when the player gets there; the server that kicked may be
chosen again. Correct if a player ends on a server or is told.

**Lobby servers** (`servers/lobby_minestom/.../Main.java`). State: the pod, its
address, the bucket handle. Operations: connect, publish on the first tick,
delete in a shutdown hook. Hard: two threads; a killed pod deletes nothing; every
failure is logged and not retried. Correct if a server that published becomes
routable.

**Player directory of the proxy** (`NET/players/`, `NET/players.go`). State:
`playersMetadata` and the index `nameToUUID` under `playerMu`; `Metadata` values
are structs of Go maps, so a copy shares its maps. Operations: the watcher,
`UpdateMetadataByUUID/ByName`, `RemovePlayer`, two event handlers. Hard: calls
change cached objects in place with no lock; the watcher ignores deletes; names
change hands. Correct if the index never leads nowhere or to the wrong player,
the cache ends where the bucket is, and a player's chat zones are those of the
server it is on.

**Metadata type** (`UTIL/metadata/`). Two string maps, either of which may be nil,
with methods that match selectors and read and write lists and booleans kept as
texts. Hard: nil maps; texts that are no list. Correct if its callers can rely on
a map once they made one.

**Chat** (`NET/chat/`, `NET/chat.go`). State: a NATS subscription. Operations:
publish a player's message, deliver a received one to the players here whose layers
meet the sender's. Hard: layers are looked up at delivery, in caches that are late,
while players move; NATS loses messages. Correct if nobody is shown a message twice
or a sender's out of order, and the audience is the one of the place it was written
at.

**Permissions in the proxy** (`NET/permissions/`). State: an enforcer. Operations: load,
subscribe, reload on a notice; a check goes through the rules, each with a logic on
identity, groups and metadata. Hard: the window between load and subscription, lost
notices, half-written lists; errors inside a rule; metadata that are not there. Correct
if it enforces what is stored and neither an error nor missing metadata open anything.

**Permissions web application** (`services/permissions-webapp/`). State: one
casbin `Enforcer` shared by all requests, the stored policy list. Operations: add
and remove a policy (store, memory, save in two steps, notice), list. Hard:
overlapping requests, partial failures, a crash between two steps. Correct if memory
and store agree and everybody concerned is told.

**Permissions checker** (`services/permissions-checker/`). State: two replicas
kept by `watchForUpdates`, an enforcer shared by all calls. Operations: the watch
loop, add, remove and list policies, check. Hard: what the loop has seen when it
ends; calls that overlap or fail at their second rule. Correct if its caches hold
what was written, and what it answered holds.

**Commands of the proxy** (`NET/commands.go`, `NET/permissions/commands.go`,
`NET/ping.go`) and **MiniMessage** (`UTIL/mini/`). No state. Answers are MiniMessage
strings with names and values pasted in; `Parse` keeps a stack of styles and indexes
without looking. Correct if what is shown has the style the string spells, and a
panic never ends a handler without cause.

**Permissions editor** (`services/permissions-editor/`): its `handlers.go` uses
identifiers that nothing declares, so there is no program to model.
**Demonstration plugins, generated code, charts, benchmark**: no state that another
part reads.

`PROJECT.json` lists every component with what is modelled of it, and every
hazard with its line and the properties that would catch it.

## 2. Modules

| module | models | extends / composes |
|---|---|---|
| `KVBucket` | bucket and delivery rules, constant operators | |
| `Replica` | abstract: what a follower of a bucket promises | |
| `ServerRegistry` | the servers package, any writers of the bucket | `KVBucket`, implements `Replica` |
| `LobbyServers` | the pods | `KVBucket` |
| `ServerDiscovery` | pods + registry | `ServerRegistry`, `LobbyServers` |
| `PlayerDirectory` | the players package | `KVBucket`, implements the safety part of `Replica` |
| `MetadataOps` | the metadata type, constant operators | |
| `Routing` | where players are sent, and where they get to | `MetadataOps` |
| `Chat` | chat across proxies, among players who move | `Routing` |
| `ChatZones` | what `TrackServerConnection` and `/metadata` make of a player's zones | `MetadataOps` |
| `PermissionMatcher` | a permission check in the proxy | `MetadataOps` |
| `MiniMessage` | `Parse`, `modify`, `Gradient` | |
| `Commands` | the proxy's answers | `MiniMessage`, `PermissionMatcher` |
| `PolicySync` | web application, store, notices, proxies' policies | |
| `MetadataCache` | a cache of the permissions checker and the client's marker | `KVBucket`, implements the safety part of `Replica` |
| `CheckerPolicies` | the policy calls of the permissions checker | |
| `KVBucketProofs` | lemmas on the order of revisions | `KVBucket` |
| `ServerRegistryProofs` | theorems on the registry | `ServerRegistry`, `KVBucketProofs` |
| `ServerDiscoveryProofs` | theorems on pods and registry | `ServerDiscovery`, `ServerRegistryProofs` |
| `PlayerDirectoryProofs` | theorems on the players package | `PlayerDirectory`, `KVBucketProofs` |
| `PolicySyncProofs` | theorems on web application and proxies | `PolicySync` |
| `CheckerProofs` | theorems on the permissions checker | `MetadataCache`, `CheckerPolicies`, `KVBucketProofs` |
| `ChatProofs` | theorems on routing and chat | `Chat` |
| `PartsProofs` | theorems on zones, checks, MiniMessage and answers | `ChatZones`, `Commands` |
| `MC*` | instances for TLC: symmetry sets, functions given in a `.cfg`; `MCParts`, `MCChecker` and `MCMessaging` put modules that share no variable into one run | |

### 2.1 ServerRegistry

A step is what a goroutine does between two accesses another goroutine can see,
so the watcher's `wpc` walks through `RegisterOrUpdateServer` (lock, resolve,
store the metadata, ask Gate, add to the cache, unlock) and `UnregisterServer`.
`registered` is `registeredServersCache` as a function from names to addresses,
`metadata` is `serversMetadata`, `gate` what Gate holds. `FindRead` reads both maps
under both locks and is one step. `UpdateStart` keeps `metaMu` until the put's
answer, and leaves the cache changed or not, since `modFunc` writes to shared maps
unless it replaced a nil one. `applied`, `missed` and `restarts` are history:
they are read by no guard but the bound on restarts. A value of the bucket is a
metadata with or without an address, a default server or not, or garbage.

### 2.2 LobbyServers and ServerDiscovery

The shutdown hook and the first tick are threads, so `FirstTick` stays enabled
while the pod is halting. `Exit` is the JVM's end or a kill. In the composition
the pods are the only writers, `Resolve` answers the pod's current address, and a
resolution fails only while the pod is down unless `"dns"` is among the faults.
`movedSince` is history: servers whose address changed while they were registered.

### 2.3 PlayerDirectory and ChatZones

The cache maps players to objects of a heap. `UpdateMetadataByUUID` is five steps:
start, read the cache (an object is shared from here on), `modFunc` in place,
marshal, put. The object decoded from revision `r` is called `r`, so "the cache
holds revision r" is a statement about the state and needs no history.
`updateLocalCache` runs under the lock and is one step. `WatchAll` may fail when the
proxy starts; the goroutine then returns, `watching` is false, and the cache stays as
empty as it was while calls and handlers go on. `TrackServerConnection` and
`TrackDisconnect` are subscribed nowhere in the repository; `Tracking` switches them.
A value that other writers put may lack the map of annotations: the connection handler
makes one, a command writes to it without asking and panics, with the player's other
data as they were (`CommandPanics`). `bearers` is history: who was ever given a name, by
a put or by a call that changed a cached object.
`UpdateMetadataByName` reads `nameToUUID` without `playerMu`, the same kind of race as
the registry's, which a run shows there; this module has no lock steps.

`ChatZones` has the contents `PlayerDirectory` abstracts: the modification that
`TrackServerConnection` makes, in its order (location, drop the old server's zone,
add the new one's), the map a command writes to without asking whether it is there,
and the zones of servers that change meanwhile. Its history variables name what the
handler cannot know: `tracked` fails when the previous server's zone was not what it
had been on arrival, or the player or another writer left a value behind.

### 2.4 MetadataOps

One operator per method; one that changes its receiver returns it. What an annotation
holds is either the list it encodes or one of four texts: empty, `true`, `false`,
anything else. `Texts` and nil maps are what the methods tell apart.

### 2.5 Routing and Chat

A player is choosing, connecting, playing, switching (`/join`), kicked or offline;
`CurrentServer` is `server`. The handlers read `view`, what the proxy's caches hold;
`Refresh` is a watcher's step, any time after a write, and skips a player's delete,
as the watcher does. Gate is external: a connection succeeds at a server that is up,
a failed first connection fires the kick event, a failed switch leaves the player
where it is. `Choose` and `HandleKicked` pick any default server (`rand.Intn`).

`Chat` adds an inbox per pair of proxies (NATS keeps the order of one publisher for one
subscriber), filled for the proxies that run when a message is published. `Deliver`
computes the layers from the proxy's `view` at that moment: the sender's and each
listener's own annotation, the server's when there is none, nothing when the
annotation is there and is no list. Messages carry two history fields, the layers its
place had by the bucket when it was written and the number of writes until then.

### 2.6 PermissionMatcher

`Matcher` is the `matchers` line of `permissions_model.conf` with the two functions of
`custom_functions.go`; `Enforce` goes through the rules in their order and stops at one
that fails or denies. A logic is a literal or a govaluate expression: one test, two
joined by `&&` or `||`, a single value (no boolean, hence an error), or a text that is
no expression. A test compares two operands with `==` or `!=`: literal texts, entries of
`labels` and `annotations`, and the other parameters each function passes (`uuid` and
`inGroup` for a subject; `type`, `name` and `r_sub_uuid` for an object). What govaluate
does with an entry that is absent (it fails, which the code takes for "no match", of a
negation as well) decides several cases. A subject's group question is answered by the
constant `GroupsOf`. Should a version of govaluate not take the parameter `inGroup` for
a function to call, such a logic is one of the unparsed ones. Comparisons of a whole map
with another are left out. A reload may find a rule anywhere in the list.

`EffectKnown` says that casbin accepts the configured effect. Its text is
`!some(where (p.eft == deny)) && some(where (p.eft == allow))`; casbin's own effector
compares the text with a fixed list, and its allow-and-deny entry has the two halves
in the other order. With a casbin that knows only that order every check fails and
everything is refused; casbin is not part of the repository, so this is a
constant, and the run takes the reading the authors meant.

### 2.7 MiniMessage and Commands

A string is the sequence of its pieces between `<`s. `ParsePiece` is one turn of the
loop of `Parse`: the stack of styles, what `modify` makes, and where Go panics (an
empty stack, no `>`, a colour tag without a colour, a gradient with fewer than two
colours). `Gradient` gives for each character the two neighbouring colours and the
fraction, exactly.

`Commands` has an action per handler with a disjunct per return; an answer is its tags
with the strings pasted into it. `AnswerPermissionCheck` is the console's: the model
has no roles, so no player is in `group:admin`; the command's arguments stand beside
each other, so only the last reaches the handler.

### 2.8 PolicySync

A request is five steps on one unprotected enforcer: write to the store, change memory,
empty the stored list and collect memory, write it back, publish. A proxy loads, then
subscribes; each notice reloads. The policies are a set (their order decides nothing:
`DecisionIgnoresOrder`). A call that reports an error may have been carried out:
`StoreFails` and `SaveFails` leave the store as it was or as the call meant it, and the
handler returns without a notice either way (`handlers.go:89`, `124`). The history
variables say which promise cannot be kept: `behind` that a proxy was not told of a
change or failed to load it, until it loads the next time; `torn` that requests
overlapped or a call that failed had changed the store, until the next save made alone.
A failed call that changed nothing sets neither.

Casbin and its Redis adapter are not part of the repository. The models take
them as: `AddPolicy` refuses a rule memory has, `AddPolicy` and `RemovePolicy` go to
the adapter first and memory second, `SavePolicy` empties the list and then writes
memory to it, `LoadPolicy` reads the list at one moment.

### 2.9 MetadataCache and CheckerPolicies

The client side follows `kv.WatchFiltered`: each delivered message fixes, or is
compared with, the number of pending messages, and the marker follows the last
initial one; a timer may send it early. The service's loop takes puts, deletes and
values that do not parse, and ends at the marker. Its branch for other operations
(`metadata_cache.go:102`, a purge) is left out: nothing in the repository purges a key.

A policy call goes through its rules one at a time (memory asked, store, memory), then
reads the stored list and replaces memory by it in a second step; its error is ignored.
The list counts copies: the adapter appends, and removes one. `granted` and `revoked`
are history: what an answer of success told the caller, if the call was alone and
found memory and store in agreement.

## 3. Runs

| run | shows | bounds |
|---|---|---|
| `registry_safety` | `TypeOK`, `RegisteredHaveMetadata`, `GateMatchesCache`, `DeletesApplied`, `PutsApplied`; `FollowsBucket` (implements `Replica!Spec`) | 2 servers, 3 kinds of metadata, garbage, 1 finder, joiner, updater, all faults, 3 revisions, channel of 2, 1 restart |
| `registry_unlocked_read` | violated: `RegistryReadsSynchronised` | 1 server |
| `discovery` | `GateReachesServer`, `ImplementsRegistry` (the pods refine the arbitrary writers), `PublishedBecomesRoutable`, `FindersAnswer`, `CatchesUp` | 1 pod, 2 addresses, 3 revisions, a finder and an updater that compete with the watcher for both locks, 1 proxy restart |
| `players_names` | `TypeOK`, `IndexLeadsToMetadata`, `IndexIsTruthful`, `OwnNamesAreFound`, `FollowsBucket` | 2 players, 2 names taken by anyone, 1 caller, 4 revisions, 1 restart, the watch may fail |
| `players_shared` | `CacheMatchesBucket`, `PutsReachCache` | 1 player, 2 callers on one object, 3 revisions, 1 restart, the watch may fail |
| `players_handover` | violated: `NamedPlayersAreFound` | 2 players, 2 names taken by anyone, 4 revisions, no caller |
| `players_removed` | violated: `RemovedPlayersLeaveCache` | 2 players |
| `players_renamed` | violated: `OldNamesAreForgotten` | 1 player, 1 caller |
| `checker` | caches: `InitialValuesCached`, `FollowsBucket`; policies: `MemoryShowsStore`, `AnswersHold`, `CheckerTypeOK` | 3 keys, 2 values, 5 revisions, 2 starts; 2 rules and 2 of other writers', 2 calls at a time, 3 in all, of up to 2 rules, 1 restart |
| `messaging` | chat: `ChatTypeOK`, `HeardInOrder`, `MessagesFollowTheirSender`; policies: `TypeOK`, `ProxiesFollowStore`, `WebShowsStore`, `ChangesReachProxies` | 2 proxies with a player each, 2 servers, 6 values, 2 messages, 1 thing that players, servers, writers, proxies or NATS do on their own, 1 proxy restart; 2 rules, 2 requests at a time, 3 in all, 1 proxy started twice, 1 restart, all faults |
| `parts` | routing: `KickedPlayersLand`; matcher: `DecisionIgnoresOrder`, `RefusalsStand`, `MissingMetadataAllowsNothing`; zones: `ZonesFollowServer`, `CommandsFindMap`; MiniMessage: `StyleOfOpenTags`, `PanicsOnUnreadable`, `GradientsRun`; commands: `AnswersReadable` | 2 players, 2 servers, 3 upsets, 1 proxy restart; up to 3 of 16 rules for 5 subjects, 4 objects, 2 actions; 2 servers, 2 zones, 5 steps; every string of up to 4 of 13 pieces; 2 commands with any of 4 pasted strings |
| `metadata_live` | violated: `CatchesUp` | 1 key, 2 revisions |

`parts`, `checker` and `messaging` are sums: their `Init` chooses one part (`part`,
`serves`, `subject`), only that part moves, and the others stay in one of their initial
states. The parts share no variable, so the run explores each as it would alone.

Why the bounds are enough. Three revisions of a key are a put, a delete and a put
again, or two puts around an update: the orders the watchers can confuse. A
channel of two lets one entry wait behind another, and fills. Two servers show
that one entry's handling leaves the other alone; the proofs extend this to any
number. One restart is enough to begin again from a bucket that holds anything.
Three keys and five revisions let two keys move to the end of the stream while the
third is counted. Three requests are two that overlap and one made alone
afterwards, which repairs; two rules let one be added while another is removed, and
a call of two rules can fail at its second. Two messages can be out of order; two
proxies are a publisher and a subscriber, each of which can be the other. With three
upsets a server dies, is replaced and dies again around a kicked player. Three rules
are one that allows, one that denies and one that fails. Five moves are an arrival, a
change of a server's zone, a move, a command and a return. Four pieces are two tags
opened and closed, or three opened and one closed.
`bucket.seq + calls in flight < MaxRev` leaves room for the put of every call
that has begun, so the bound never blocks a call half way.

`CHECK_DEADLOCK FALSE` is set where the system may come to rest: all bounded
writes made and handled and nobody calling. The registry's and the pods' models
always have a step (a player may ask for a server, a pod may restart), and their
runs check deadlock.

Each property of a passing run has a mutant, listed in `PROJECT.json`; the faulty
operators stand before the ones they replace, marked "Faulty variant". The bounds
of the runs are large enough for TLC to tell each mutant from the code.

### 3.1 Fairness

- Calls end: the resolver, the KV client and the store's client have timeouts, so
  a put, a reload or a request ends in success or failure (weak fairness). So do
  Gate's connections and the handlers of players.
- The sender delivers what is next when the channel has room, and the watcher's
  loop runs (weak fairness).
- Lock steps have strong fairness. Go's `sync.Mutex` hands itself to a waiter
  that has waited for more than 1 ms (starvation mode), and an `RWMutex` with a
  waiting writer lets no new reader in: a goroutine that finds the lock free
  again and again gets it.
- `rand.Intn` leaves no default server out for ever: each choice has strong fairness
  (`RoutingFairness`). Without it a kicked player could be sent to the same dead server
  again and again.
- A running pod runs its first tick; the checker is started again when it stops.
- Nothing makes players connect or chat, servers write, administrators edit, a proxy
  restart or a pod stop.

### 3.2 What the violated runs show

- `registry_unlocked_read`: `GetRegisteredServerByName` (`NET/servers/api.go:16`),
  called by `/join`, reads a map the watcher may be writing, against the contract
  in `cache.go:62`. Go aborts a process that does this when it notices.
- `players_handover`: when the name of a player changes, the watcher takes the old name
  out of the index without looking whose it is by then (`NET/players/cache.go:35`). Bob
  is put as "alice" while Alice still is, Alice is put under another name, and nobody is
  found as "alice". `cache.go:32` has the change handled.
- `players_removed`: deletes are ignored (`NET/players/kv.go:41`) although
  `api.go:74` leaves the cache to the watcher.
- `players_renamed`: a rename by command changes the cached object before the watcher
  compares with it (`NET/players/cache.go:34`), so the old name stays in the index.
- `metadata_live`: the checker's loop ends at the marker
  (`cache/metadata_cache.go:74`), so later changes are never cached.

### 3.3 Limits the passing properties state

A property's condition says where the code's promise ends:

- `GateReachesServer`: a server put again under another address keeps the old one in
  Gate (`registry.go:43`). It takes a pod whose delete was not written, or was
  overwritten before it was sent, and that comes back under a new address.
- `IndexIsTruthful`: a rename by command changes the cached object before the index
  (`players_renamed`); so does a connection, if other writers gave the player another
  name than its profile's.
- `OwnNamesAreFound`: a name that two players were given, at whatever time, may be lost
  (`players_handover`).
- `PutsReachCache`: a proxy that cannot watch the bucket learns nothing until it is
  started again.
- `CommandsFindMap`: a value of another writer may lack the map, and the command that
  writes to it panics.
- `ProxiesFollowStore`: a change between a proxy's load and its subscription, or by a
  call that reported an error, is announced to nobody; a proxy enforces what it had
  until it loads the next time.
- `WebShowsStore`: a write that was done and reported as failed is in the store and not
  in memory until the next save made alone, which takes it back.
- `ChangesReachProxies`: nothing is promised of changes that are not announced to a proxy.
- `ZonesFollowServer`: a zone stays in a player's list when the server it left was
  deleted or relabelled before the player moved. The handler is subscribed nowhere at
  this commit, so this is what it would do, and is not listed as a hazard.
- `MissingMetadataAllowsNothing`: it is about the metadata alone. A player of whom there
  are none matches no rule that reads any, one that denies among them, and has what
  everybody is allowed, or what its UUID or its groups allow it.
- `AnswersReadable`: a `<` in a name, key or value can make `Parse` panic; `/join` then
  ends before it connects.
- `PanicsOnUnreadable`: a text without any tag has no `>` and makes `Parse` panic.
- `MemoryShowsStore`: of a rule that is twice in the stored list one copy survives its
  removal, and memory has lost it until the next load.
- `MessagesFollowTheirSender`: the audience is that of the listener's place at
  delivery, and before the caches have settled it is anybody's.

Other behaviours the models have and no run reports, since no text of the
repository promises otherwise: a key outlives its server when the first tick
follows the shutdown hook; two calls for a player who is not cached overwrite each
other; `/metadata ... set annotation` confirms a change of a player nobody knows
(`NET/commands.go:117` drops the error); the text inside a tag `Parse` does not know,
`<red>` and the other bare colours the commands use, is not shown at all, though the
comment at `mini.go:18` has every piece's content appended; `player/online`, which the
ping counts, is written by nothing in the proxy.

## 4. Proofs

Every safety property of a passing run, every action property and every refinement
is a theorem: for every value of the constants that satisfies the named assumptions
of the module, and for the specification without fairness. Nothing stated as a lemma
is left without proof. Each theorem below names the run's property in brackets; where
a property is not inductive, the text says what the invariant adds to it and why.

### 4.1 Assumptions

They say what a constant is, not what the program does: values are distinct from the
markers that stand for "none", bounds are natural numbers, faults are of the known
kinds. Those that look like more:

- `Routing`: players and servers are different keys, and a key takes only values that
  are values. `Chat`: a list of layers is a list of layers or one of the texts of
  `MetadataOps`.
- `ChatZones`: zones and location are different annotations, a text is no list, and
  the marker for "no zone" is no zone.
- `Commands`: metadata is two maps, each nil or with finitely many keys (Go's maps
  are); the program's own words have no `<`.
- `PlayerDirectory`: finitely many callers, whose names for their own objects are no
  revisions.
- `ServerDiscovery`: a name does not resolve while its pod is down.

### 4.2 The bucket (`KVBucketProofs`)

Lemmas only. `Ordered` says that the entries that wait in a channel are numbered
upwards, not above the cursor, and each the last revision of its key or an older one;
`WellNumbered` that no two keys have the same revision. A write, a delivery and a
receipt keep both, and what is received is the oldest of what waits. The
registry, the player directory and the checker's cache rest on these.

### 4.3 The server registry (`ServerRegistryProofs`)

- `TypeCorrect` (`TypeOK`). `TypeInv` adds that what the watcher writes to the caches
  comes from the entry it holds, and that a registered entry carries metadata.
- `RegisteredAlwaysHaveMetadata` (`RegisteredHaveMetadata`), `GateAlwaysMatchesCache`
  (`GateMatchesCache`), from `CacheInv`. Between two of its steps the watcher leaves one
  server inconsistent; the properties speak of moments when it does not hold
  `registryMu`. `LockOwners` says that it holds the mutex exactly at the steps that need
  it and a finder exactly while it reads; `CacheSteps` which server may be inconsistent,
  and what each step has left to do.
- `RegistryFollowsBucket` (`FollowsBucket`), from `FollowInv`: what waits is newer than
  what is in hand, which is newer than all that was handled.
- `DeletesAlwaysApplied` (`DeletesApplied`), `PutsAlwaysApplied` (`PutsApplied`), from
  `SettleInv`: the last revision of each server is not lost; it is not sent yet, or
  waits, or is in hand, or is settled. "Settled" is where updates by the API matter:
  they write to the cache before the bucket, so the cache may be ahead of a settled
  revision while a put is under way, and the property's condition (`missed`) is needed
  exactly when that put fails.

`ServerDiscoveryProofs`, the pods together with the registry:

- `DiscoveryImplementsRegistry` (`ImplementsRegistry`): every step of the composition is
  a step of the registry with arbitrary writers, so its theorems hold here. It needs
  `StartedInv`, that a name the proxy resolves belongs to a pod that once ran and so
  has an address.
- `GateAlwaysReachesServer` (`GateReachesServer`), from `ReachInv`: outside `movedSince`,
  the address in Gate and the one the watcher has just resolved are the pod's.

### 4.4 The player directory (`PlayerDirectoryProofs`)

- `DirectoryTypeCorrect` (`TypeOK`), `DirectoryFollowsBucket` (`FollowsBucket`). `TypeInv`
  adds the order of what was sent, which object a call holds at which step, and that
  every call under way has room for its put: the bound never stops one half way.
- `IndexAlwaysLeadsToMetadata` (`IndexLeadsToMetadata`), inductive with the types alone.
- `CacheAlwaysMatchesBucket` (`CacheMatchesBucket`), from `OneHolder` and `CopyInv`.
  Objects are shared between the cache and any number of calls, and changed in place;
  `OneHolder` says they are never shared between two players. `CopyInv` says the object
  decoded from the last revision is as it was put, or spoiled by a failed put, or in the
  hands of a call that has yet to put it.
- `IndexAlwaysTruthful` (`IndexIsTruthful`). `Truth` is inductive only if no call changes
  a cached name under the index: either no call names anyone (`Quiet`), or all names
  ever given to a player are its own (`OnlyOwn`, with `OwnInv` below).
- `OwnNamesAlwaysFound` (`OwnNamesAreFound`), with no hypothesis. `OwnInv`: whatever
  name is anywhere, in the bucket, the channel, the cache or a call, its player is among
  the name's `bearers`. `IndexedInv`: a name with a single bearer is in the index as
  soon as its player's last revision is cached, and an update of another player, who is
  no bearer, leaves it there.

### 4.5 Permissions

`PolicySyncProofs`, the web application and the proxies:

- `TypeCorrect` (`TypeOK`); an active request carries a rule (`ActiveHaveRules`).
- `WebAlwaysShowsStore` (`WebShowsStore`), from `WebInStep`: while not torn, one request
  is active, and store and memory are related as its step says (`InStep`); a call that
  fails and leaves both as they were keeps this. A save made alone establishes it again
  whatever came before.
- `ProxiesAlwaysFollowStore` (`ProxiesFollowStore`), from `ProxiesTold`: a proxy that is
  not behind enforces the store, has a notice waiting, or some request `WillTell`. The
  delicate case is the removal of a rule that memory lacks, which publishes nothing: it
  needs `WebInStep` to know that it changed nothing.

`CheckerProofs`, the permissions checker:

- `CacheTypeCorrect` (`TypeOK` of `MetadataCache`, which no run checks beside it),
  `CacheFollowsBucket` (`FollowsBucket`).
- `InitialValuesAlwaysCached` (`InitialValuesCached`), from `InitialInv`. The client finds
  the end of the initial values by a count that writers disturb when they move keys to
  the end of the stream. `OldCounted` bounds the number of old keys still to be
  delivered by what the count has left, so the marker is never early;
  `MarkerCompletes` and `OnItsWay` carry this through the channel to the loop.
- `PoliciesTypeCorrect` (`CheckerTypeOK`), `MemoryAlwaysShowsStore`
  (`MemoryShowsStore`), from `MemoryInv`: while not torn, memory and store differ at
  most by the rule in the hands of the one call that runs, and a call that is alone
  applies the list as it still is.
- `AnswersAlwaysHold` (`AnswersHold`), from `AnswersInv`: no call under way is about to
  undo what another was promised (`Withdrawn`), and what a call that is sure of its
  ground has done so far shows in the store (`DoneInStore`).

`PartsProofs`, checks in the proxy:

- `DecisionNeverDependsOnOrder` (`DecisionIgnoresOrder`), `RefusalsAlwaysStand`
  (`RefusalsStand`), `MissingMetadataNeverAllows` (`MissingMetadataAllowsNothing`), for
  lists of any length and any set of expressions. `EnforceFinds` describes the loop by
  its result: refused if some rule fails or denies, else allowed if some rule allows.
  The first two follow from that. The third also needs `NothingMissingWasRead`: an
  expression that came out true without metadata has decided before it read an entry of
  either map, and decides the same way whatever they hold.

### 4.6 Players, chat and what is shown

`ChatProofs`:

- `ChatTypeCorrect` (`ChatTypeOK`), from `RoutingInv`: a player has a server exactly
  while it plays, that server is up, and the proxy runs.
- `AlwaysHeardInOrder` (`HeardInOrder`), from `ChatInv`: messages of one proxy wait at
  another in the order they were written, after all that was shown of them.
- `AudienceAlwaysFollowsSender` (`MessagesFollowTheirSender`), from `AgreeInv`: the
  layers a waiting message carries are those the bucket gives its place, if nothing was
  written since. They are layers of the place, so the sender may move meanwhile.

`PartsProofs`:

- `ZonesAlwaysFollowServer` (`ZonesFollowServer`), `CommandsAlwaysFindMap`
  (`CommandsFindMap`), from `ZonesInv`. The lemmas on `MetadataOps` say what adding and
  removing a value does to the list in an annotation, in one step each.
- `ShownInStyleOfOpenTags` (`StyleOfOpenTags`), `PanicsOnlyOnUnreadable`
  (`PanicsOnUnreadable`), `GradientsAlwaysRun` (`GradientsRun`), for every string.
  `MiniInv` says of the stack of styles that its height is the depth of the tags, and
  that the style at each height is that of the tags open below it: the top alone does
  not tell what is under it when a tag is closed.
- `AnswersAlwaysReadable` (`AnswersReadable`): each answer is a walk that opens and closes
  tags one by one and never closes one that is not open; walks follow one another, and
  `Parse` reads a walk to its end. `CommandsSpec` says nothing of the
  enforcer's rules, so the theorem holds whatever they are and become.

### 4.7 Induction

The library's induction theorems take a predicate as an operator, which the provers
here cannot instantiate. Where a proof goes along a list (`Enforce`, `Parse`, the depth
of tags, the lists in annotations) it goes by the least number of a set instead:
`LeastNumber` (every set of numbers that is not empty has a least one, from
well-foundedness), `NumberInduction` (a set with 0 and the successor of each member is
all of `Nat`), and `StepsExist` and `StepsStay` (what is computed step by step exists and
keeps what each step keeps). For this `Enforce`, `Parse`, `Section` and `Without` are
recursive functions on numbers.

### 4.8 Only model-checked

The liveness properties `PublishedBecomesRoutable`, `FindersAnswer`, `CatchesUp`,
`PutsReachCache`, `ChangesReachProxies` and `KickedPlayersLand`: fairness and `ENABLED`
are out of the prover's reach. The refutations of section 3.2 are runs of TLC by nature.

## 5. What is not modelled

`CheckPermission` of the gRPC service, which reads the caches and the enforcer and
changes nothing: its answer is casbin's evaluation of expressions with functions and an
effect that are not part of the repository. What govaluate computes beyond `==`, `!=`,
`&&` and `||` over its parameters. What Gate does between its events, and the client's
side. How messages and answers look. Reconnection inside the NATS client (its watchers
resume where they were). The web application's form; anything generated or superseded;
the demonstration plugins; the editor service, which does not compile. The reasons stand
with each component in `PROJECT.json`.

## 6. Plan

The system's own logic is modelled and its safety proved. What is left:

1. The promises that composition gives: chat zones, layers and routing meet in a
   player's metadata, and each is proved for its own module. A module that composes
   `PlayerDirectory` with `ChatZones` would say what the lost updates of a player who is
   not cached (section 3.3) do to its zones.
2. The refinement of `PlayerDirectory` and of both caches of the checker in one statement
   with the registry's: that whatever follows a bucket and keeps `Ordered` implements
   `Replica`, so that the three proofs share their step.
3. Shorter proofs where a case is split further than it needs to be, in `PartsProofs`
   first.
