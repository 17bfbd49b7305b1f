\* Each part on its own small instance.
SPECIFICATION PartsSpec
CONSTANTS
    Players = {p1, p2}
    Proxies = {g1}
    Servers = {lobby, game}
    Home <- MCHome
    ValueOf <- MCValueOf
    Profiles <- MCProfiles
    DefaultSelector <- MCDefaultSelector
    MaxUpsets = 3
    MaxProxyStarts = 1
    EffectKnown = TRUE
    Expressions <- MCExpressions
    PlayerIds = {p1, p2, "lapsed", "nil"}
    OtherIds = {"console"}
    GroupsOf <- MCGroupsOf
    MetaValues <- MCMetaValues
    PlayerMeta <- MCPlayerMeta
    ServerMeta <- MCServerMeta
    Objects <- MCObjects
    Actions = {join, "kick"}
    PolicyRules <- MCPolicyRules
    MaxRules = 3
    Strings <- MCStrings
    PiecesOf <- MCPiecesOf
    Typed = {note, opens, closes, TrueText}
    Words = {p1}
    JoinKey = LocationKey
    Profile <- MCProfile
    Reachable = {game}
    NoId = "console"
    NoObject <- MCNoObject
    MaxCommands = 2
    GameServers = {lobby, game}
    Zones = {A, B}
    TypedValues = {OtherText}
    MaxMoves = 5
    Paints = {White, Red}
    Pieces <- MCPieces
    MaxPieces = 4
    p1 = p1
    p2 = p2
    g1 = g1
    lobby = lobby
    game = game
    vip = vip
    public = public
    join = join
    A = A
    B = B
    Default = Default
    Red = Red
    Located = Located
    Plain1 = Plain1
    Lobby = Lobby
    Closed = Closed
    note = note
    opens = opens
    closes = closes
    Nobody = Nobody
    OnlineKey = OnlineKey
    LocationKey = LocationKey
    NoMeta = NoMeta
    NoServer = NoServer
    NilMap = NilMap
    EmptyText = EmptyText
    TrueText = TrueText
    FalseText = FalseText
    OtherText = OtherText
    Always = Always
    Never = Never
    Unparsed = Unparsed
    NoMetadata = NoMetadata
    ServerType = ServerType
    AnyAction = AnyAction
    NoZone = NoZone
    NotKnown = NotKnown
    Nowhere = Nowhere
    NotCached = NotCached
    ZonesKey = ZonesKey
    PlaceKey = PlaceKey
    NoPaint = NoPaint
    White = White
INVARIANTS
    DecisionIgnoresOrder
    MissingMetadataAllowsNothing
    ZonesFollowServer
    CommandsFindMap
    StyleOfOpenTags
    PanicsOnUnreadable
    GradientsRun
    AnswersReadable
PROPERTIES
    RefusalsStand
    KickedPlayersLand
CHECK_DEADLOCK FALSE
