CONSTANTS
    NoHost = NoHost
    RelayHost = RelayHost
    Dns = Dns
    Site = Site
    Near = Near
    Far = Far
    Tunnel1 = Tunnel1
    Tunnel2 = Tunnel2
    NearWords = 2
    Host = {NoHost, RelayHost, Dns, Site}
    CenterServer <- MCCenterServer
    BufSize = 64
    LongWords = 2
    ValueMod = 4
    Text = Text
    Client <- MCClient
    Profile <- MCProfile
    Messages <- MCMessages
    Notices <- MCNotices
    Platform = "linux"

SPECIFICATION ReqSpec

INVARIANTS
    ReqTypeOK
    RequestInside
    RepliesFit
    AnswersReach

PROPERTIES
    ImplementsService
