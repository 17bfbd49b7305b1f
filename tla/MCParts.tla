------------------------------- MODULE MCParts ------------------------------
(***************************************************************************)
(* Parts of the proxy that share no variable, for TLC: a behaviour is one   *)
(* of one part, chosen at the start, while the others stay in one of their *)
(* initial states.  What TLC explores is the sum of the parts.             *)
(***************************************************************************)
EXTENDS Routing, ChatZones, Commands

CONSTANTS p1, p2, g1, lobby, game, vip, public, join, A, B, Default, Red,
          Located, Plain1, Lobby, Closed, note, opens, closes

VARIABLE part
partsVars == <<part, routingVars, matcherVars, zoneVars, miniVars, commandVars>>

MCHome == (p1 :> g1) @@ (p2 :> g1)
MCDefaultSelector == Default :> TrueText
Value(labels, annotations) == [labels |-> labels, annotations |-> annotations]

\* A player with a location and one without; a default server, and one that is
\* told not to be.
MCValueOf ==
    (Located :> Value(NilMap, LocationKey :> game))
    @@ (Plain1 :> Value(NilMap, <<>>))
    @@ (Lobby :> Value(Default :> TrueText, NilMap))
    @@ (Closed :> Value(Default :> FalseText, NilMap))
MCProfiles ==
    (p1 :> {Located, Plain1}) @@ (p2 :> {NoMeta})
    @@ (lobby :> {Lobby, NoMeta}) @@ (game :> {Lobby, Closed})

\* Expressions over each thing a check may read; a player who has a label, one
\* who has another value of it, one without labels and one without metadata; a
\* server that is known, and other objects.
Text(t) == [from |-> "text", key |-> t]
Entry(map, k) == [from |-> map, key |-> k]
Given(name) == [from |-> name, key |-> EmptyText]
Test(x, y, same) == [left |-> x, right |-> y, same |-> same]
Expr(t, op, u) == [op |-> op, first |-> t, then |-> u]
Only(t) == Expr(t, "test", t)

Vip(same) == Test(Entry("labels", vip), Text(TrueText), same)
NotStaff == Test([from |-> "inGroup", key |-> A], Text(FalseText), TRUE)
IsP2 == Test(Given("uuid"), Text(p2), TRUE)
Noted == Test(Entry("annotations", note), Text(OtherText), FALSE)

NotVip == Only(Vip(FALSE))
KnownOrVip == Expr(IsP2, "or", Vip(TRUE))
VipOrKnown == Expr(Vip(TRUE), "or", IsP2)
Outsider == Expr(NotStaff, "and", Noted)
Public == Only(Test(Entry("labels", public), Text(TrueText), TRUE))
Owned == Expr(Test(Given("type"), Text(ServerType), TRUE), "and",
              Test(Entry("annotations", note), Given("r_sub_uuid"), TRUE))
NoteAlone == Expr(Test(Entry("annotations", note), Text(TrueText), TRUE), "value", IsP2)

MCExpressions == {NotVip, KnownOrVip, VipOrKnown, Outsider, Only(NotStaff), Public, Owned, NoteAlone}
MCGroupsOf == (p1 :> {A}) @@ (p2 :> {}) @@ ("lapsed" :> {}) @@ ("nil" :> {A})
MCPlayerMeta ==
    (p1 :> Value(vip :> TrueText, <<>>)) @@ (p2 :> NoMetadata)
    @@ ("lapsed" :> Value(vip :> FalseText, note :> TrueText)) @@ ("nil" :> Value(NilMap, NilMap))
MCMetaValues ==
    {Value(vip :> v, n) : v \in {TrueText, FalseText}, n \in {<<>>, note :> OtherText, note :> TrueText}}
    \cup {Value(NilMap, NilMap)}
MCServerMeta == lobby :> Value(public :> TrueText, note :> p1)
MCNoObject == [type |-> "", name |-> ""]
MCObjects == {[type |-> ServerType, name |-> lobby], [type |-> ServerType, name |-> game],
              [type |-> "command", name |-> "kick"], MCNoObject}
Rule(sub, obj, act, eft) == [sub |-> sub, obj |-> obj, act |-> act, eft |-> eft]
MCPolicyRules ==
    {Rule(sub, Always, AnyAction, eft) : sub \in {Always, NotVip, KnownOrVip}, eft \in {"allow", "deny"}}
    \cup {Rule(Always, Public, AnyAction, "deny"), Rule(VipOrKnown, Public, AnyAction, "allow"),
          Rule(Outsider, Always, AnyAction, "allow"), Rule(Only(NotStaff), Owned, AnyAction, "allow"),
          Rule(NoteAlone, Always, join, "allow"), Rule(Always, Owned, join, "allow"),
          Rule(Never, Always, AnyAction, "deny"), Rule(Unparsed, Always, AnyAction, "allow"),
          Rule(Always, Always, join, "allow"), Rule(Always, Always, AnyAction, "log")}

\* Every kind of tag; gradients of no to three colours over nothing, over short
\* and over long characters.
Tag(tag, paint, colors, chars, bytes) ==
    [tag |-> tag, ended |-> TRUE, paint |-> paint, colors |-> colors, chars |-> chars, bytes |-> bytes]
MCPieces ==
    {Tag("color", White, 1, 1, 1), Tag("color", Red, 1, 1, 1), Tag("color", NoPaint, 1, 1, 1),
     Tag("color", Red, 0, 1, 1), Tag("bold", White, 0, 1, 1), Tag("other", White, 0, 1, 1),
     Tag("close", White, 0, 1, 1), [Tag("other", White, 0, 1, 1) EXCEPT !.ended = FALSE],
     Tag("gradient", White, 0, 0, 0), Tag("gradient", White, 1, 2, 2), Tag("gradient", White, 2, 3, 3),
     Tag("gradient", White, 3, 2, 5), Tag("gradient", NoPaint, 2, 1, 1)}

\* A string without a "<", one that opens a tag and does not end it, one that
\* closes a tag.
MCStrings == {p1, game, LocationKey, OnlineKey, vip, join, "kick", TrueText, OtherText, note, opens, closes}
MCPiecesOf ==
    [s \in MCStrings |-> CASE s = opens -> <<[Tagged("other") EXCEPT !.ended = FALSE]>>
                         [] s = closes -> <<End>> [] OTHER -> <<>>]
MCProfile ==
    {Nobody, Value(NilMap, NilMap), Value(vip :> TrueText, LocationKey :> opens),
     Value(<<>>, (LocationKey :> game) @@ (OnlineKey :> TrueText))}

PartsInit ==
    /\ part \in {"routing", "matcher", "zones", "mini", "commands"}
    /\ RoutingInit /\ ZonesInit /\ ParseInit /\ CommandsInit
    /\ IF part = "commands" THEN ready = TRUE /\ rules \in {<<>>, <<Rule(Always, Always, join, "allow")>>} ELSE MatcherInit
    /\ part # "routing" => bucket = [w \in Subjects |-> CASE w = p1 -> Located [] w = p2 -> NoMeta [] OTHER -> Lobby]
    /\ part # "commands" => known = [n \in Words |-> Nobody]
    /\ part # "zones" => zoneOf = [s \in GameServers |-> NoZone]

PartsNext ==
    /\ UNCHANGED part
    /\ \/ part = "routing" /\ RoutingNext /\ UNCHANGED <<matcherVars, zoneVars, miniVars, commandVars>>
       \/ part = "matcher" /\ MatcherNext /\ UNCHANGED <<routingVars, zoneVars, miniVars, commandVars>>
       \/ part = "zones" /\ ZonesNext /\ UNCHANGED <<routingVars, matcherVars, miniVars, commandVars>>
       \/ part = "mini" /\ ParseNext /\ UNCHANGED <<routingVars, matcherVars, zoneVars, commandVars>>
       \/ part = "commands" /\ CommandsNext /\ UNCHANGED <<routingVars, matcherVars, zoneVars, miniVars>>

PartsSpec == PartsInit /\ [][PartsNext]_partsVars /\ RoutingFairness
=============================================================================
