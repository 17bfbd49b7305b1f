------------------------------ MODULE Commands ------------------------------
(***************************************************************************)
(* What the proxy answers: /join and /metadata (commands.go), /permission  *)
(* check (permissions/commands.go) and the server list ping (ping.go).     *)
(* The commands' answers are MiniMessage strings into which names, keys    *)
(* and values are pasted as they are.                                      *)
(*                                                                         *)
(* /join's way to a server is Routing's, an update's way through cache and *)
(* bucket PlayerDirectory's: here a change is known at once.               *)
(***************************************************************************)
EXTENDS MiniMessage, PermissionMatcher

CONSTANTS
    Strings,         \* what can be pasted
    PiecesOf,        \* Strings -> the pieces that begin in it, if it has a "<"
    Typed,           \* the strings a command's last argument can carry
    Words,           \* the players' names a command can carry: words, no "<"
    Nobody,          \* a player the index does not have
    JoinKey,         \* "network/location"
    OnlineKey,       \* "player/online"
    Profile,         \* metadata a player may have, and Nobody
    Reachable,       \* the servers that are registered
    NoId, NoObject,  \* the empty subject and object
    MaxCommands      \* bound: commands

ASSUME StringsAssumption ==
    /\ PiecesOf \in [Strings -> Seq(Pieces)]
    /\ Typed \cup Words \cup Actions \cup Reachable \subseteq Strings
    /\ \A s \in Words \cup Actions \cup Reachable : PiecesOf[s] = <<>>
    /\ NoId \in OtherIds /\ NoObject \in Objects
\* Metadata is two maps, and a map has finitely many keys.
ASSUME ProfileAssumption == \A m \in Profile \ {Nobody} :
    /\ m \in [labels : {m.labels}, annotations : {m.annotations}]
    /\ \A map \in {m.labels, m.annotations} : map = NilMap \/ IsFiniteSet(DOMAIN map)
ASSUME MaxCommandsAssumption == MaxCommands \in Nat

VARIABLES
    known,      \* Words -> metadata of the player with that name, or Nobody
    answer,     \* the last answer: its pieces and the strings pasted into it
    commands

commandVars == <<known, answer, commands>>

-----------------------------------------------------------------------------
(* The answers, tag by tag: <red>, <green>, <gold>, <gray> and <yellow>    *)
(* are tags Parse does not know.                                           *)

Tagged(tag) == [tag |-> tag, ended |-> TRUE, paint |-> White, colors |-> 0, chars |-> 1, bytes |-> 1]
Hue == Tagged("other")
Bold == Tagged("bold")
End == Tagged("close")

Told == <<Hue, End>>
ToldOf(s) == <<Hue>> \o PiecesOf[s] \o <<End>>

Connecting(name, server) ==
    <<Hue>> \o PiecesOf[name] \o <<Hue>> \o PiecesOf[server] \o <<End, End>>

Confirmed(name, k, v) ==
    <<Hue, Hue>> \o PiecesOf[k] \o PiecesOf[v] \o <<End, Hue>> \o PiecesOf[name] \o <<End, End>>

\* The keys of a map in any of the orders Go ranges over them.
Ranged(map) ==
    IF map = NilMap THEN {<<>>}
    ELSE {q \in [1..Cardinality(DOMAIN map) -> DOMAIN map] : \A i, j \in DOMAIN q : q[i] = q[j] => i = j}

\* "(None)", or a line for each key.
Section(map, order) ==
    LET Line(k) == <<Hue>> \o PiecesOf[k] \o PiecesOf[map[k]] \o <<End>>
        lines[i \in 0..Len(order)] == IF i = 0 THEN <<>> ELSE lines[i - 1] \o Line(order[i])
    IN Told \o IF order = <<>> THEN Told ELSE lines[Len(order)]

\* Faulty variant: the heading is not closed.
ListingOpen(name, m, labels, annotations) ==
    <<Hue, Hue>> \o PiecesOf[name] \o <<End, End, End>>
        \o Section(m.labels, labels) \o Section(m.annotations, annotations)

Listing(name, m, labels, annotations) ==
    <<Hue, Hue>> \o PiecesOf[name] \o <<End, End>>
        \o Section(m.labels, labels) \o Section(m.annotations, annotations)

\* GRANTED or DENIED, in bold; the subject and the object are empty.
Decision(act) ==
    <<Hue, Bold, End, Hue, End, Hue>> \o PiecesOf[act] \o <<End, Hue, End, End>>

\* "Hey ... user!", and "Join (...)" in three colours.
Faded(colors) == [Tagged("gradient") EXCEPT !.colors = colors, !.chars = 3, !.bytes = 3]

StringsIn(map) == IF map = NilMap THEN {} ELSE DOMAIN map \cup {map[k] : k \in DOMAIN map}

-----------------------------------------------------------------------------
(* The handlers.                                                           *)

Say(pieces, strings) ==
    /\ commands < MaxCommands /\ commands' = commands + 1
    /\ answer' = [pieces |-> pieces, pasted |-> strings, online |-> 0]

\* The fixed answers: the sender is no player, the input has no "=", an empty
\* key or value; of /permission check also: no enforcer, and every player,
\* since the model has no roles and nobody is in group:admin.
Refuse == Say(Told, {}) /\ UNCHANGED known

\* Up to the connection, which an answer that panics prevents.
AnswerJoin(name) ==
    /\ UNCHANGED known
    /\ IF known[name] = Nobody THEN Say(ToldOf(name), {name})
       ELSE LET location == GetAnnotation(known[name], JoinKey) IN
            IF ~location.found THEN Say(ToldOf(name), {name})
            ELSE IF location.text \in Reachable
                 THEN Say(Connecting(name, location.text), {name, location.text})
                 ELSE Say(ToldOf(location.text), {location.text})

AnswerMetadata(name) ==
    /\ UNCHANGED known
    /\ IF known[name] = Nobody THEN Say(ToldOf(name), {name})
       ELSE \E labels \in Ranged(known[name].labels), annotations \in Ranged(known[name].annotations) :
               Say(Listing(name, known[name], labels, annotations),
                   {name} \cup StringsIn(known[name].labels) \cup StringsIn(known[name].annotations))

\* The update's error, a player nobody knows, is ignored: the answer confirms it
\* all the same.  A map that is nil ends the handler before its answer.
AnswerSetAnnotation(name, k, v) ==
    IF known[name] = Nobody
    THEN Say(Confirmed(name, k, v), {name, k, v}) /\ UNCHANGED known
    ELSE /\ known[name].annotations # NilMap
         /\ Say(Confirmed(name, k, v), {name, k, v})
         /\ known' = [known EXCEPT ![name] = SetAnnotation(@, k, v)]

\* Of the console.  Only the action reaches the handler: the other arguments
\* stand beside it in the command, not before it.  An error may quote a logic.
AnswerPermissionCheck(act, quoted) ==
    /\ UNCHANGED known
    /\ ready
    /\ IF Enforce([sub |-> NoId, obj |-> NoObject, act |-> act], rules) = "failed"
       THEN Say(ToldOf(quoted), {quoted})
       ELSE Say(Decision(act), {})

\* The players who are online, by the metadata the cache has: a value that is
\* no boolean counts as none.
GetPlayerCount ==
    Cardinality({n \in Words : /\ known[n] # Nobody
                               /\ LET online == GetAnnotationBoolValue(known[n], OnlineKey)
                                  IN online.value /\ online.exists /\ ~online.failed})

\* onPing: two gradients, of two and of three colours, and the count.
AnswerPing ==
    /\ commands < MaxCommands /\ commands' = commands + 1
    /\ answer' = [pieces |-> <<Faded(2), Faded(3)>>, pasted |-> {}, online |-> GetPlayerCount]
    /\ UNCHANGED known

\* Another proxy or service changes what is known of a player.
PlayerChanges(name, m) ==
    /\ commands < MaxCommands /\ commands' = commands + 1
    /\ known' = [known EXCEPT ![name] = m]
    /\ UNCHANGED answer

CommandsInit ==
    /\ known \in [Words -> Profile]
    /\ answer = [pieces |-> <<>>, pasted |-> {}, online |-> 0]
    /\ commands = 0

CommandsNext ==
    \/ Refuse \/ AnswerPing
    \/ \E name \in Words :
          \/ AnswerJoin(name) \/ AnswerMetadata(name)
          \/ \E k, v \in Typed : AnswerSetAnnotation(name, k, v)
          \/ \E m \in Profile : PlayerChanges(name, m)
    \/ \E act \in Actions, s \in Typed : AnswerPermissionCheck(act, s)

\* Whatever the enforcer holds meanwhile.
CommandsSpec == CommandsInit /\ [][CommandsNext]_commandVars

-----------------------------------------------------------------------------
(* Properties.                                                             *)

\* A command panics on its answer only because of a "<" in what was pasted into
\* it: every answer closes the tags it opens, the gradients of the ping have
\* colours enough, and a name, a key or a value without a "<" never ends a
\* handler.
AnswersReadable ==
    Parse(answer.pieces).panicked => \E s \in answer.pasted : PiecesOf[s] # <<>>
=============================================================================
