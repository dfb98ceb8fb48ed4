CONSTANTS
    NoHost = NoHost
    RelayHost = RelayHost
    Dns = Dns
    Aux = Aux
    Nat1 = Nat1
    Unset = Unset
    Host = {NoHost, RelayHost, Dns, Aux, Nat1}
    CenterServer <- MCCenterServer
    Inbound <- MCInbound
    Watched <- MCWatched
    RecvRetryMax = 2
    SendRetryMax = 1
    CounterMod = 3
    Platform = "linux"
    NameLens = {0, 16, 256}
    MaxDsId = 256
    FdMax = 4

SPECIFICATION BootSpec

INVARIANT
    LookupFailureReported
