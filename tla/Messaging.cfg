\* Chat: two messages, and one thing that players, servers, writers, proxies or NATS do on their own.
\* Policies: two requests at a time, three in all; every call may fail; the proxy and the web application restart.
SPECIFICATION MessagingSpec
CONSTANTS
    Players = {p1, p2}
    Proxies = {g1, g2}
    Servers = {lobby, game}
    Home <- MCHome
    ValueOf <- MCValueOf
    Profiles <- MCProfiles
    DefaultSelector <- MCDefaultSelector
    LayerNames = {A, B}
    MaxUpsets = 1
    MaxProxyStarts = 1
    MaxMessages = 2
    p1 = p1
    p2 = p2
    g1 = g1
    g2 = g2
    lobby = lobby
    game = game
    A = A
    B = B
    Default = Default
    Located = Located
    Tuner = Tuner
    Broken = Broken
    Lobby = Lobby
    Closed = Closed
    Game = Game
    LocationKey = LocationKey
    PubLayersKey = PubLayersKey
    SubLayersKey = SubLayersKey
    NoMeta = NoMeta
    NoServer = NoServer
    NilMap = NilMap
    EmptyText = EmptyText
    TrueText = TrueText
    FalseText = FalseText
    OtherText = OtherText
    Rules = {r1, r2}
    Handlers = {h1, h2}
    Gates = {g3}
    Faults = {"store", "save", "publish", "notice", "load"}
    MaxRequests = 3
    MaxStarts = 2
    MaxRestarts = 1
    NoRule = NoRule
    r1 = r1
INVARIANTS
    ChatTypeOK
    HeardInOrder
    TypeOK
    ProxiesFollowStore
    WebShowsStore
PROPERTIES
    MessagesFollowTheirSender
    ChangesReachProxies
CHECK_DEADLOCK FALSE
