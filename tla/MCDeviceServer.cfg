CONSTANTS
    NoHost = NoHost
    RelayHost = RelayHost
    Dns = Dns
    Aux = Aux
    Nat1 = Nat1
    Nat2 = Nat2
    Unset = Unset
    Host = {NoHost, RelayHost, Dns, Aux, Nat1, Nat2}
    CenterServer <- MCCenterServer
    Inbound <- MCInbound
    Watched <- Command
    RecvRetryMax = 3
    SendRetryMax = 2
    CounterMod = 5

SPECIFICATION DSSpec

INVARIANTS
    TypeOK
    RetryBudget
    OneHeartbeat
    ProbedBeforeCompared
    ModeMatchesAddress
    HeartbeatTellsMode

PROPERTIES
    EmptyPollsRunOut
    OnlineIsSettled
    ImplementsLifecycle
