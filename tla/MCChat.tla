------------------------------- MODULE MCChat -------------------------------
(***************************************************************************)
(* Chat for TLC: two proxies, a player at each, a lobby and a game        *)
(* server.  The values are those the rules tell apart.                     *)
(***************************************************************************)
EXTENDS Chat

CONSTANTS p1, p2, g1, g2, lobby, game, A, B, Default,
          Located, Tuner, Broken, Lobby, Closed, Game

MCHome == (p1 :> g1) @@ (p2 :> g2)
MCDefaultSelector == Default :> TrueText

Value(labels, annotations) == [labels |-> labels, annotations |-> annotations]
Talk(layers) == (PubLayersKey :> layers) @@ (SubLayersKey :> layers)

\* A player with a location and the layers of its server, one with layers of
\* its own, one whose layers are no list; a lobby that is default or not, and a
\* game server that is default.
MCValueOf ==
    (Located :> Value(NilMap, LocationKey :> game))
    @@ (Tuner :> Value(NilMap, SubLayersKey :> <<A, B>>))
    @@ (Broken :> Value(NilMap, (SubLayersKey :> OtherText) @@ (PubLayersKey :> <<B>>)))
    @@ (Lobby :> Value(Default :> TrueText, Talk(<<A>>)))
    @@ (Closed :> Value(NilMap, Talk(<<A>>)))
    @@ (Game :> Value(Default :> TrueText, Talk(<<B>>)))

MCProfiles ==
    (p1 :> {Located}) @@ (p2 :> {Tuner, Broken})
    @@ (lobby :> {Lobby, Closed}) @@ (game :> {Game, NoMeta})
=============================================================================
