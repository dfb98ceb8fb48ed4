CONSTANTS
    NoHost = NoHost
    RelayHost = RelayHost
    Dns = Dns
    Site = Site
    Near = Near
    Far = Far
    Tunnel1 = Tunnel1
    Tunnel2 = Tunnel2
    NearWords = 1
    Host = {NoHost, RelayHost, Dns, Site}
    CenterServer <- MCCenterServer
    BufSize = 64
    LongWords = 2
    ValueMod = 4
    Text = Text
    Client <- MCClient
    Profile <- MCProfile
    Messages <- MCFullMessages
    Notices <- MCNotices
    Platform = "linux"

SPECIFICATION ReqSpec

INVARIANT
    SumReachesAll
