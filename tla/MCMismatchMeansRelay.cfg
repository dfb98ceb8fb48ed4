CONSTANTS
    NoHost = NoHost
    RelayHost = RelayHost
    Dns = Dns
    Aux = Aux
    Nat1 = Nat1
    Nat2 = Nat2
    Unset = Unset
    Host = {NoHost, RelayHost, Dns, Aux, Nat1, Nat2}
    CenterServer <- MCCenterServer
    AuxServer <- MCAuxServer
    NatMaps <- MCNatMaps
    Strays <- MCStrays
    Inbound <- MCInbound
    Watched <- Asking
    RecvRetryMax = 2
    SendRetryMax = 1
    CounterMod = 3
    DupsMax = 0

SPECIFICATION SysSpec

INVARIANT
    MismatchMeansRelay
