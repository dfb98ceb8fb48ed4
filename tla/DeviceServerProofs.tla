------------------------- MODULE DeviceServerProofs -------------------------
(***************************************************************************)
(* Theorems about the device server, for every set of datagrams the        *)
(* environment may deliver and every retry bound.  One inductive invariant *)
(* carries them all: the five invariants of DeviceServer together with     *)
(* BootFirst, that nothing has happened before DTPLink_DSInit returns.     *)
(***************************************************************************)
EXTENDS DeviceServer, TLAPS

BootFirst == pc = "init" => status = "STARTUP"

IInv ==
    /\ TypeOK
    /\ BootFirst
    /\ RetryBudget
    /\ OneHeartbeat
    /\ ProbedBeforeCompared
    /\ ModeMatchesAddress
-----------------------------------------------------------------------------
(***************************************************************************)
(* The vocabulary is typed.                                                *)
(***************************************************************************)

\* The reserved addresses and the neighbouring ports a probe uses are
\* endpoints again: port arithmetic is modulo 2^16.
LEMMA EndpointTypes ==
    /\ NoPublicAddr \in Endpoint
    /\ RelayAddr \in Endpoint
    /\ \A ep \in Endpoint : NextPort(ep) \in Endpoint /\ PrevPort(ep) \in Endpoint
<1>1. \A h \in Host, p \in Port : <<h, p>> \in Endpoint
  BY SMT DEF Endpoint
<1>2. NoPublicAddr \in Endpoint /\ RelayAddr \in Endpoint
  <2>1. 0 \in Port /\ 65535 \in Port
    BY DEF Port
  <2> QED
    BY <1>1, <2>1, HostAssumption, SMT DEF NoPublicAddr, RelayAddr
<1>3. ASSUME NEW ep \in Endpoint
      PROVE  NextPort(ep) \in Endpoint /\ PrevPort(ep) \in Endpoint
  <2>1. ep[1] \in Host /\ ep[2] \in Port
    BY SMT DEF Endpoint
  <2>2. \A p \in Port : p + 1 \in Int /\ p - 1 \in Int
    BY SMT DEF Port
  <2>3. \A n \in Int : Wrap16(n) \in Port
    BY SMT DEF Wrap16, Port
  <2>4. Wrap16(ep[2] + 1) \in Port /\ Wrap16(ep[2] - 1) \in Port
    BY <2>1, <2>2, <2>3
  <2> QED
    BY <1>1, <2>1, <2>4 DEF NextPort, PrevPort
<1> QED
  BY <1>2, <1>3

\* Every mapped address stands for a running mode, the two reserved ones for
\* the modes SetMappedIPAddress2 gives them.
LEMMA MappedModes ==
    /\ \A ip : MappedMode(ip) \in RunningMode
    /\ MappedMode(RelayAddr) = "REMOTE_RELAY_MODE"
    /\ MappedMode(NoPublicAddr) = "LOCAL_MODE"
BY HostAssumption DEF MappedMode, RunningMode, RelayAddr, NoPublicAddr

\* What the helpers put on the wire are datagrams of the protocol.
LEMMA MessageTypes ==
    ASSUME NEW ep \in Endpoint
    PROVE  /\ \A c \in Command : Msg(c, ep) \in OutDatagram
           /\ \A f \in {"R", "D"} : RegisterMsg(ep, f) \in OutDatagram
           /\ \A c \in Command, cl \in Endpoint : RelayMsg(c, ep, cl) \in OutDatagram
BY EndpointTypes DEF Msg, RegisterMsg, RelayMsg, OutDatagram, Command

\* Sending keeps the datagrams in flight well typed.
LEMMA SendType ==
    ASSUME NEW ms, ms \subseteq OutDatagram, outNet \subseteq OutDatagram, Send(ms)
    PROVE  outNet' \subseteq OutDatagram
BY DEF Send
-----------------------------------------------------------------------------
LEMMA PingCenterServerType ==
    ASSUME TypeOK, PingCenterServer
    PROVE  /\ status' = "WAIT_CS_PHASE1"
           /\ punched' \subseteq {"CS1", "CS2"}
           /\ outNet' \subseteq OutDatagram
<1> DEFINE ms == {Msg("BIND_REQ_TO_SERVER1_PORT1", CenterServer)} \cup
                 IF "CS1" \in punched THEN {}
                 ELSE {Msg("SERVER_PUNCHING", CenterServer),
                       Msg("SERVER_PUNCHING", NextPort(CenterServer))}
<1>1. CenterServer \in Endpoint /\ NextPort(CenterServer) \in Endpoint
  BY AddressAssumption, EndpointTypes
<1>2. "SERVER_PUNCHING" \in Command /\ "BIND_REQ_TO_SERVER1_PORT1" \in Command
  BY DEF Command
<1>3. ms \subseteq OutDatagram
  BY <1>1, <1>2, MessageTypes
<1>4. Send(ms)
  BY DEF PingCenterServer
<1> QED
  BY <1>3, <1>4, SendType DEF PingCenterServer, TypeOK

LEMMA PingCenterServerAgainType ==
    ASSUME TypeOK, PingCenterServerAgain
    PROVE  /\ status' = "WAIT_CS_PHASE2"
           /\ punched' \subseteq {"CS1", "CS2"}
           /\ outNet' \subseteq OutDatagram
<1> DEFINE ms == {Msg("BIND_REQ_TO_SERVER1_PORT2", NextPort(CenterServer))}
<1>1. NextPort(CenterServer) \in Endpoint /\ "BIND_REQ_TO_SERVER1_PORT2" \in Command
  BY AddressAssumption, EndpointTypes DEF Command
<1>2. ms \subseteq OutDatagram
  BY <1>1, MessageTypes
<1> QED
  BY <1>2, SendType DEF PingCenterServerAgain, TypeOK

LEMMA PingAuxServerType ==
    ASSUME TypeOK, PingAuxServer
    PROVE  /\ status' = "WAIT_CS_PHASE3"
           /\ punched' \subseteq {"CS1", "CS2"}
           /\ outNet' \subseteq OutDatagram
<1> DEFINE ms == {Msg("BIND_REQ_TO_SERVER2_PORT1", mCS2)} \cup
                 IF "CS2" \in punched THEN {}
                 ELSE {Msg("SERVER_PUNCHING", mCS2),
                       Msg("SERVER_PUNCHING", PrevPort(mCS2))}
<1>1. mCS2 \in Endpoint /\ PrevPort(mCS2) \in Endpoint
  BY EndpointTypes DEF TypeOK
<1>2. "SERVER_PUNCHING" \in Command /\ "BIND_REQ_TO_SERVER2_PORT1" \in Command
  BY DEF Command
<1>3. ms \subseteq OutDatagram
  BY <1>1, <1>2, MessageTypes
<1>4. Send(ms)
  BY DEF PingAuxServer
<1> QED
  BY <1>3, <1>4, SendType DEF PingAuxServer, TypeOK

LEMMA RegisterDSType ==
    ASSUME TypeOK, NEW m, RegisterDS(m)
    PROVE  /\ status' = "WAIT_DNS"
           /\ punched' \subseteq {"CS1", "CS2"}
           /\ outNet' \subseteq OutDatagram
<1>1. ModeFlag(m) \in {"R", "D"}
  BY DEF ModeFlag
<1>2. {RegisterMsg(CenterServer, ModeFlag(m))} \subseteq OutDatagram
  BY <1>1, AddressAssumption, MessageTypes
<1> QED
  BY <1>2, SendType DEF RegisterDS, TypeOK

LEMMA StartKeepAliveType ==
    ASSUME TypeOK, StartKeepAlive
    PROVE  /\ heartbeats' \in Seq({"unread", "R", "D"})
           /\ Len(heartbeats') = Len(heartbeats) + 1
           /\ heartbeats' # <<>>
BY DEF TypeOK, StartKeepAlive

\* A datagram of the environment is typed, and so are the replies to it.
LEMMA InboundType ==
    ASSUME NEW d \in Inbound
    PROVE  /\ d.cmd \in Command /\ d.from \in Endpoint
           /\ d.addr \in Endpoint /\ d.cs2 \in Endpoint
           /\ Replies(d) \subseteq OutDatagram
<1>1. d \in InDatagram
  BY InboundAssumption
<1>2. d.cmd \in Command /\ d.from \in Endpoint /\ d.addr \in Endpoint /\ d.cs2 \in Endpoint
  BY <1>1 DEF InDatagram
<1>3. {"SERVER_PUNCHING", "QUERY_DS_IP_TO_LOCAL_DS", "REMOTE_DS_DATA_RESP_TO_CLIENT",
       "REMOTE_DS_DATA_RESP_RELAY_TO_CLIENT", "REMOTE_DS_DATA_RESP_HTTP_TO_CLIENT"}
         \subseteq Command
  BY DEF Command
<1>4. /\ Msg("SERVER_PUNCHING", d.addr) \in OutDatagram
      /\ Msg("QUERY_DS_IP_TO_LOCAL_DS", d.from) \in OutDatagram
      /\ Msg("REMOTE_DS_DATA_RESP_TO_CLIENT", d.from) \in OutDatagram
      /\ RelayMsg("REMOTE_DS_DATA_RESP_RELAY_TO_CLIENT", d.from, d.addr) \in OutDatagram
      /\ RelayMsg("REMOTE_DS_DATA_RESP_HTTP_TO_CLIENT", d.from, d.addr) \in OutDatagram
  BY <1>2, <1>3, MessageTypes
<1> QED
  BY <1>2, <1>4 DEF Replies
-----------------------------------------------------------------------------
(***************************************************************************)
(* The inductive invariant, action by action.                              *)
(***************************************************************************)
LEMMA InitialInvariant == DSInitial => IInv
<1> SUFFICES ASSUME DSInitial
             PROVE  IInv
  OBVIOUS
<1>1. NoPublicAddr \in Endpoint
  BY EndpointTypes
<1>2. heartbeats \in Seq({"unread", "R", "D"}) /\ Len(heartbeats) = 0
  BY DEF DSInitial
<1>3. {recvRetry, sendRetry} \subseteq 0 .. CounterMod - 1
  BY RetryAssumption DEF DSInitial
<1>4. TypeOK
  BY <1>1, <1>2, <1>3 DEF DSInitial, TypeOK, DS_STATUS, RunningMode
<1> QED
  BY <1>2, <1>4
     DEF DSInitial, IInv, BootFirst, RetryBudget, OneHeartbeat,
         ProbedBeforeCompared, ModeMatchesAddress, DS_STATUS, Waiting

\* Entering a waiting state with fresh counters is within the budget.
LEMMA FreshBudget ==
    ASSUME recvRetry' = 0, sendRetry' = 0
    PROVE  RetryBudget' /\ {recvRetry', sendRetry'} \subseteq 0 .. CounterMod - 1
BY RetryAssumption DEF RetryBudget

LEMMA BootInvariant ==
    ASSUME IInv, DSInit \/ DSInitFails
    PROVE  IInv'
<1>1. status = "STARTUP" /\ heartbeats = <<>>
  BY DEF IInv, BootFirst, OneHeartbeat, DSInit, DSInitFails
<1>2. CASE DSInit
  <2>1. /\ status' = "WAIT_CS_PHASE1"
        /\ punched' \subseteq {"CS1", "CS2"}
        /\ outNet' \subseteq OutDatagram
    BY <1>2, PingCenterServerType DEF DSInit, IInv
  <2>2. RetryBudget' /\ {recvRetry', sendRetry'} \subseteq 0 .. CounterMod - 1
    BY <1>2, FreshBudget DEF DSInit, ResetAllRetryCounts
  <2>3. TypeOK'
    BY <1>2, <2>1, <2>2 DEF IInv, TypeOK, DSInit, DS_STATUS, RunningMode
  <2> QED
    BY <1>1, <1>2, <2>1, <2>2, <2>3
       DEF IInv, BootFirst, OneHeartbeat, ProbedBeforeCompared, ModeMatchesAddress, DSInit
<1>3. CASE DSInitFails
  BY <1>1, <1>3
     DEF IInv, TypeOK, BootFirst, RetryBudget, OneHeartbeat, ProbedBeforeCompared,
         ModeMatchesAddress, DSInitFails
<1> QED
  BY <1>2, <1>3

LEMMA RecvInvariant ==
    ASSUME IInv, NEW d \in Inbound, Recv(d)
    PROVE  IInv'
<1>1. pc = "loop" /\ pc' = pc /\ remoteFd' = remoteFd
  BY DEF Recv
<1>2. CASE OnCenterServerResponse(d)
  <2>1. /\ status' = "WAIT_CS_PHASE2"
        /\ punched' \subseteq {"CS1", "CS2"}
        /\ outNet' \subseteq OutDatagram
    BY <1>2, PingCenterServerAgainType DEF OnCenterServerResponse, IInv
  <2>2. RetryBudget' /\ {recvRetry', sendRetry'} \subseteq 0 .. CounterMod - 1
    BY <1>2, FreshBudget DEF OnCenterServerResponse, ResetAllRetryCounts
  <2>3. MIP1' \in Endpoint /\ mCS2' \in Endpoint
    BY <1>2, InboundType DEF OnCenterServerResponse
  <2>4. TypeOK'
    BY <1>1, <1>2, <2>1, <2>2, <2>3
       DEF IInv, TypeOK, OnCenterServerResponse, DS_STATUS
  <2> QED
    BY <1>1, <1>2, <2>1, <2>2, <2>3, <2>4, AddressAssumption
       DEF IInv, BootFirst, OneHeartbeat, ProbedBeforeCompared, ModeMatchesAddress,
           OnCenterServerResponse
<1>3. CASE OnCenterServerResponse2(d)
  <2>1. /\ status' = "WAIT_CS_PHASE3"
        /\ punched' \subseteq {"CS1", "CS2"}
        /\ outNet' \subseteq OutDatagram
    BY <1>3, PingAuxServerType DEF OnCenterServerResponse2, IInv
  <2>2. RetryBudget' /\ {recvRetry', sendRetry'} \subseteq 0 .. CounterMod - 1
    BY <1>3, FreshBudget DEF OnCenterServerResponse2, ResetAllRetryCounts
  <2>3. mode' \in RunningMode /\ mIP' \in Endpoint
    BY <1>3, MappedModes, EndpointTypes
       DEF OnCenterServerResponse2, SetMappedIPAddress, IInv, TypeOK
  <2>4. TypeOK'
    BY <1>1, <1>3, <2>1, <2>2, <2>3
       DEF IInv, TypeOK, OnCenterServerResponse2, DS_STATUS
  <2> QED
    BY <1>1, <1>3, <2>1, <2>2, <2>4
       DEF IInv, BootFirst, OneHeartbeat, ProbedBeforeCompared, ModeMatchesAddress,
           OnCenterServerResponse2
<1>4. CASE OnAuxServerResponse(d)
  <2>1. /\ status' = "WAIT_DNS"
        /\ punched' \subseteq {"CS1", "CS2"}
        /\ outNet' \subseteq OutDatagram
    BY <1>4, RegisterDSType DEF OnAuxServerResponse, IInv
  <2>2. RetryBudget' /\ {recvRetry', sendRetry'} \subseteq 0 .. CounterMod - 1
    BY <1>4, FreshBudget DEF OnAuxServerResponse, ResetAllRetryCounts
  <2>3. MIP1 \in Endpoint
    BY <1>4 DEF OnAuxServerResponse, IInv, TypeOK, ProbedBeforeCompared
  <2>4. mode' \in RunningMode /\ mIP' \in Endpoint /\ mode' = MappedMode(mIP')
    BY <1>4, <2>3, MappedModes, EndpointTypes
       DEF OnAuxServerResponse, SetMappedIPAddress
  <2>5. /\ heartbeats' \in Seq({"unread", "R", "D"})
        /\ Len(heartbeats') = Len(heartbeats) + 1
    BY <1>4, StartKeepAliveType DEF OnAuxServerResponse, IInv
  <2>6. heartbeats = <<>>
    BY <1>4 DEF OnAuxServerResponse, IInv, OneHeartbeat
  <2>7. TypeOK'
    BY <1>1, <1>4, <2>1, <2>2, <2>4, <2>5
       DEF IInv, TypeOK, OnAuxServerResponse, DS_STATUS
  <2> QED
    BY <1>1, <1>4, <2>1, <2>2, <2>4, <2>5, <2>6, <2>7
       DEF IInv, BootFirst, OneHeartbeat, ProbedBeforeCompared, ModeMatchesAddress
<1>5. CASE OnDSRegisterResponse(d)
  <2>1. RetryBudget' /\ {recvRetry', sendRetry'} \subseteq 0 .. CounterMod - 1
    BY <1>5, FreshBudget DEF OnDSRegisterResponse, ResetAllRetryCounts
  <2>2. TypeOK'
    BY <1>1, <1>5, <2>1 DEF IInv, TypeOK, OnDSRegisterResponse, DS_STATUS
  <2> QED
    BY <1>1, <1>5, <2>1, <2>2
       DEF IInv, BootFirst, OneHeartbeat, ProbedBeforeCompared, ModeMatchesAddress,
           OnDSRegisterResponse
<1>6. CASE ProcessClientRequests(d)
  <2>1. outNet' \subseteq OutDatagram
    BY <1>6, InboundType, SendType DEF ProcessClientRequests, IInv, TypeOK
  <2>2. TypeOK'
    BY <1>1, <1>6, <2>1 DEF IInv, TypeOK, ProcessClientRequests
  <2> QED
    BY <1>1, <1>6, <2>2
       DEF IInv, BootFirst, RetryBudget, OneHeartbeat, ProbedBeforeCompared,
           ModeMatchesAddress, ProcessClientRequests
<1>7. CASE IgnoreDatagram(d)
  BY <1>1, <1>7
     DEF IInv, TypeOK, BootFirst, RetryBudget, OneHeartbeat, ProbedBeforeCompared,
         ModeMatchesAddress, IgnoreDatagram
<1> QED
  BY <1>2, <1>3, <1>4, <1>5, <1>6, <1>7 DEF Recv

LEMMA PollInvariant ==
    ASSUME IInv, PollEmpty
    PROVE  IInv'
<1>1. pc = "loop" /\ pc' = pc /\ remoteFd' = remoteFd
  BY DEF PollEmpty
<1>2. CASE GiveUpPhase1 \/ GiveUpDNS
  <2>1. /\ status' = "ONLINE"
        /\ UNCHANGED <<mCS2, MIP1, punched, heartbeats, outNet>>
        /\ status \in Waiting
    BY <1>2 DEF GiveUpPhase1, GiveUpDNS, Waiting, DS_STATUS
  <2>2. RetryBudget' /\ {recvRetry', sendRetry'} \subseteq 0 .. CounterMod - 1
    BY <1>2, FreshBudget DEF GiveUpPhase1, GiveUpDNS, ResetAllRetryCounts
  <2>3. mode' \in RunningMode /\ mIP' \in Endpoint /\ mode' = MappedMode(mIP')
    BY <1>2, MappedModes, EndpointTypes
       DEF GiveUpPhase1, GiveUpDNS, SetMappedIPAddress
  <2>4. TypeOK'
    BY <1>1, <2>1, <2>2, <2>3 DEF IInv, TypeOK, DS_STATUS
  <2> QED
    BY <1>1, <2>1, <2>2, <2>3, <2>4
       DEF IInv, BootFirst, OneHeartbeat, ProbedBeforeCompared, ModeMatchesAddress
<1>3. CASE GiveUpPhase23
  <2>1. /\ status' = "WAIT_DNS"
        /\ punched' \subseteq {"CS1", "CS2"}
        /\ outNet' \subseteq OutDatagram
    BY <1>3, RegisterDSType DEF GiveUpPhase23, IInv
  <2>2. RetryBudget' /\ {recvRetry', sendRetry'} \subseteq 0 .. CounterMod - 1
    BY <1>3, FreshBudget DEF GiveUpPhase23, ResetAllRetryCounts
  <2>3. mode' \in RunningMode /\ mIP' \in Endpoint /\ mode' = MappedMode(mIP')
    BY <1>3, MappedModes, EndpointTypes DEF GiveUpPhase23, SetMappedIPAddress
  <2>4. TypeOK'
    BY <1>1, <1>3, <2>1, <2>2, <2>3 DEF IInv, TypeOK, GiveUpPhase23, DS_STATUS
  <2> QED
    BY <1>1, <1>3, <2>1, <2>2, <2>3, <2>4
       DEF IInv, BootFirst, OneHeartbeat, ProbedBeforeCompared, ModeMatchesAddress,
           GiveUpPhase23
<1>4. CASE Retransmit
  <2>1. /\ status' = status
        /\ punched' \subseteq {"CS1", "CS2"}
        /\ outNet' \subseteq OutDatagram
    BY <1>4, PingCenterServerType, PingCenterServerAgainType, PingAuxServerType,
       RegisterDSType DEF Retransmit, IInv
  <2>2. /\ recvRetry' = 0
        /\ sendRetry' = sendRetry + 1
        /\ sendRetry' <= SendRetryMax
        /\ sendRetry' \in 0 .. CounterMod - 1
    <3>1. sendRetry \in Nat /\ sendRetry < SendRetryMax /\ sendRetry + 1 < CounterMod
      BY <1>4, RetryAssumption DEF Retransmit, SendBudgetSpent, IInv, TypeOK
    <3>2. (sendRetry + 1) % CounterMod = sendRetry + 1
      BY <3>1, RetryAssumption
    <3> QED
      BY <1>4, <3>1, <3>2, RetryAssumption DEF Retransmit
  <2>3. RetryBudget' /\ {recvRetry', sendRetry'} \subseteq 0 .. CounterMod - 1
    BY <2>2, RetryAssumption DEF RetryBudget
  <2>4. TypeOK'
    BY <1>1, <1>4, <2>1, <2>3 DEF IInv, TypeOK, Retransmit
  <2> QED
    BY <1>1, <1>4, <2>1, <2>3, <2>4
       DEF IInv, BootFirst, OneHeartbeat, ProbedBeforeCompared, ModeMatchesAddress,
           Retransmit
<1>5. CASE KeepPolling
  <2>1. recvRetry' = RecvRetryBumped /\ recvRetry' \in 0 .. CounterMod - 1
    BY <1>5, RetryAssumption DEF KeepPolling, RecvRetryBumped, IInv, TypeOK
  <2>2. UNCHANGED <<status, mode, mIP, mCS2, MIP1, sendRetry, punched, heartbeats, outNet>>
    BY <1>5 DEF KeepPolling
  <2>3. RetryBudget'
    BY <1>5, <2>1, <2>2, RetryAssumption
       DEF RetryBudget, KeepPolling, SendBudgetSpent, IInv, TypeOK
  <2>4. TypeOK'
    BY <1>1, <2>1, <2>2 DEF IInv, TypeOK
  <2> QED
    BY <1>1, <2>2, <2>3, <2>4
       DEF IInv, BootFirst, OneHeartbeat, ProbedBeforeCompared, ModeMatchesAddress
<1> QED
  BY <1>2, <1>3, <1>4, <1>5 DEF PollEmpty

LEMMA HeartBeatInvariant ==
    ASSUME IInv, HeartBeat
    PROVE  IInv'
<1> PICK i \in DOMAIN heartbeats : HeartBeatCompose(i) \/ HeartBeatSend(i)
  BY DEF HeartBeat
<1>1. UNCHANGED <<pc, remoteFd, status, mode, mIP, mCS2, MIP1, recvRetry, sendRetry, punched>>
  BY DEF HeartBeatCompose, HeartBeatSend
<1>2. /\ heartbeats \in Seq({"unread", "R", "D"})
      /\ i \in 1 .. Len(heartbeats)
      /\ heartbeats[i] \in {"unread", "R", "D"}
  BY DEF IInv, TypeOK
<1>3. CASE HeartBeatCompose(i)
  <2>1. ModeFlag(mode) \in {"unread", "R", "D"}
    BY DEF ModeFlag
  <2>2. /\ heartbeats' \in Seq({"unread", "R", "D"})
        /\ Len(heartbeats') = Len(heartbeats)
    BY <1>2, <1>3, <2>1 DEF HeartBeatCompose
  <2>3. heartbeats # <<>>
    BY <1>2
  <2>4. TypeOK'
    BY <1>1, <1>3, <2>2 DEF IInv, TypeOK, HeartBeatCompose
  <2> QED
    BY <1>1, <2>2, <2>3, <2>4
       DEF IInv, BootFirst, RetryBudget, OneHeartbeat, ProbedBeforeCompared,
           ModeMatchesAddress
<1>4. CASE HeartBeatSend(i)
  <2>1. RegisterMsg(CenterServer, heartbeats[i]) \in OutDatagram
    BY <1>2, <1>4, AddressAssumption, MessageTypes DEF HeartBeatSend
  <2>2. outNet' \subseteq OutDatagram
    BY <1>4, <2>1, SendType DEF HeartBeatSend, IInv, TypeOK
  <2>3. TypeOK'
    BY <1>1, <1>4, <2>2 DEF IInv, TypeOK, HeartBeatSend
  <2> QED
    BY <1>1, <1>4, <2>3
       DEF IInv, BootFirst, RetryBudget, OneHeartbeat, ProbedBeforeCompared,
           ModeMatchesAddress, HeartBeatSend
<1> QED
  BY <1>3, <1>4

\* Every step keeps the inductive invariant.
LEMMA StepInvariant ==
    ASSUME IInv, [DSNext]_dsVars
    PROVE  IInv'
<1>1. CASE DSInit \/ DSInitFails
  BY <1>1, BootInvariant
<1>2. CASE PollEmpty
  BY <1>2, PollInvariant
<1>3. ASSUME NEW d \in Inbound, Recv(d)
      PROVE  IInv'
  BY <1>3, RecvInvariant
<1>4. CASE HeartBeat
  BY <1>4, HeartBeatInvariant
<1>5. CASE OutNetDrained
  BY <1>5
     DEF IInv, TypeOK, BootFirst, RetryBudget, OneHeartbeat, ProbedBeforeCompared,
         ModeMatchesAddress, OutNetDrained
<1>6. CASE UNCHANGED dsVars
  BY <1>6
     DEF IInv, TypeOK, BootFirst, RetryBudget, OneHeartbeat, ProbedBeforeCompared,
         ModeMatchesAddress, dsVars
<1> QED
  BY <1>1, <1>2, <1>3, <1>4, <1>5, <1>6 DEF DSNext, DSLoop
-----------------------------------------------------------------------------
(***************************************************************************)
(* The theorems.                                                           *)
(***************************************************************************)

\* The inductive invariant holds in every reachable state.
THEOREM Invariance == DSSpec => []IInv
<1>1. IInv /\ [DSNext]_dsVars => IInv'
  BY StepInvariant
<1> QED
  BY <1>1, InitialInvariant, PTL DEF DSSpec

\* Type correctness of the device server, the widths of its retry counters and
\* the alphabet of what it sends included.
THEOREM TypeCorrect == DSSpec => []TypeOK
<1>1. IInv => TypeOK
  BY DEF IInv
<1> QED
  BY <1>1, Invariance, PTL

\* In every waiting state the retry counters stay within the budget of
\* DTPLink_DSLoop: no counter wraps while it is compared.
THEOREM RetriesBounded == DSSpec => []RetryBudget
<1>1. IInv => RetryBudget
  BY DEF IInv
<1> QED
  BY <1>1, Invariance, PTL

\* DTPLink_StartKeepAlive runs at most once, and only once registration starts.
THEOREM KeepAliveOnce == DSSpec => []OneHeartbeat
<1>1. IInv => OneHeartbeat
  BY DEF IInv
<1> QED
  BY <1>1, Invariance, PTL

\* The uninitialised local MIP1 is never compared.
THEOREM NoUninitialisedCompare == DSSpec => []ProbedBeforeCompared
<1>1. IInv => ProbedBeforeCompared
  BY DEF IInv
<1> QED
  BY <1>1, Invariance, PTL

\* Once registration starts, running mode and mapped address agree.
THEOREM ModeAgrees == DSSpec => []ModeMatchesAddress
<1>1. IInv => ModeMatchesAddress
  BY DEF IInv
<1> QED
  BY <1>1, Invariance, PTL

\* Only giving up the registration changes the mode while a keep-alive thread
\* exists, and it changes it to local mode.
LEMMA HeartbeatStep ==
    ASSUME IInv, HeartbeatTellsMode, [DSNext]_dsVars
    PROVE  HeartbeatTellsMode'
<1> USE DEF HeartbeatTellsMode
<1>1. CASE DSInit \/ DSInitFails
  BY <1>1 DEF DSInit, DSInitFails, IInv, BootFirst, OneHeartbeat
<1>2. ASSUME NEW d \in Inbound, Recv(d)
      PROVE  HeartbeatTellsMode'
  <2>1. CASE OnCenterServerResponse(d) \/ OnDSRegisterResponse(d)
             \/ ProcessClientRequests(d) \/ IgnoreDatagram(d)
    BY <2>1
       DEF OnCenterServerResponse, OnDSRegisterResponse, ProcessClientRequests,
           IgnoreDatagram
  <2>2. CASE OnCenterServerResponse2(d)
    BY <2>2 DEF OnCenterServerResponse2, IInv, OneHeartbeat
  <2>3. CASE OnAuxServerResponse(d)
    <3>1. heartbeats = <<>> /\ heartbeats' = Append(heartbeats, "unread")
      BY <2>3 DEF OnAuxServerResponse, StartKeepAlive, IInv, OneHeartbeat
    <3>2. heartbeats' = <<"unread">>
      BY <3>1
    <3> QED
      BY <3>2
  <2> QED
    BY <1>2, <2>1, <2>2, <2>3 DEF Recv
<1>3. CASE PollEmpty
  <2>1. CASE GiveUpPhase1 \/ GiveUpDNS
    BY <2>1, MappedModes DEF GiveUpPhase1, GiveUpDNS, SetMappedIPAddress
  <2>2. CASE GiveUpPhase23
    BY <2>2 DEF GiveUpPhase23, IInv, OneHeartbeat
  <2>3. CASE Retransmit \/ KeepPolling
    BY <2>3 DEF Retransmit, KeepPolling
  <2> QED
    BY <1>3, <2>1, <2>2, <2>3 DEF PollEmpty
<1>4. CASE HeartBeat
  BY <1>4 DEF HeartBeat, HeartBeatCompose, HeartBeatSend, IInv, TypeOK
<1>5. CASE OutNetDrained \/ UNCHANGED dsVars
  BY <1>5 DEF OutNetDrained, dsVars
<1> QED
  BY <1>1, <1>2, <1>3, <1>4, <1>5 DEF DSNext, DSLoop

\* What the keep-alive thread repeats is the mode the server runs in, unless it
\* has fallen back to local mode since.
THEOREM HeartbeatTruthful == DSSpec => []HeartbeatTellsMode
<1>1. DSInitial => HeartbeatTellsMode
  BY DEF DSInitial, HeartbeatTellsMode
<1>2. IInv /\ HeartbeatTellsMode /\ [DSNext]_dsVars => HeartbeatTellsMode'
  BY HeartbeatStep
<1> QED
  BY <1>1, <1>2, Invariance, PTL DEF DSSpec
-----------------------------------------------------------------------------
(***************************************************************************)
(* What a step may never do.                                               *)
(***************************************************************************)
LEMMA RetransmitUsesUp ==
    ASSUME IInv, Retransmit
    PROVE  PollsLeft' < PollsLeft
<1>1. /\ sendRetry \in Nat /\ sendRetry < SendRetryMax /\ sendRetry + 1 < CounterMod
      /\ recvRetry \in Nat /\ recvRetry < RecvRetryMax /\ recvRetry + 1 < CounterMod
  BY RetryAssumption
     DEF Retransmit, SendBudgetSpent, IInv, TypeOK, RetryBudget
<1>2. recvRetry + 1 >= RecvRetryMax
  BY <1>1, RetryAssumption DEF Retransmit, RecvRetryBumped
<1>3. recvRetry' = 0 /\ sendRetry' = sendRetry + 1
  BY <1>1, RetryAssumption DEF Retransmit
<1>4. (SendRetryMax - (sendRetry + 1)) * RecvRetryMax
         = (SendRetryMax - sendRetry) * RecvRetryMax - RecvRetryMax
  BY <1>1, RetryAssumption
<1> DEFINE rest == (SendRetryMax - sendRetry) * RecvRetryMax
<1>5. rest \in Int
  BY <1>1, RetryAssumption
<1>6. PollsLeft' = (rest - RecvRetryMax) + (RecvRetryMax - 0)
  BY <1>3, <1>4 DEF PollsLeft
<1>7. PollsLeft = rest + (RecvRetryMax - recvRetry)
  BY DEF PollsLeft
<1> HIDE DEF rest
<1> QED
  BY <1>1, <1>2, <1>5, <1>6, <1>7, RetryAssumption

LEMMA KeepPollingUsesUp ==
    ASSUME IInv, KeepPolling, status \in Waiting
    PROVE  PollsLeft' < PollsLeft
<1>1. recvRetry \in Nat /\ recvRetry < RecvRetryMax /\ recvRetry + 1 < CounterMod
  BY RetryAssumption DEF IInv, TypeOK, RetryBudget
<1>2. recvRetry' = recvRetry + 1 /\ sendRetry' = sendRetry
  BY <1>1, RetryAssumption DEF KeepPolling, RecvRetryBumped
<1> DEFINE rest == (SendRetryMax - sendRetry) * RecvRetryMax
<1>3. rest \in Int
  BY RetryAssumption DEF IInv, TypeOK
<1>4. PollsLeft' = rest + (RecvRetryMax - (recvRetry + 1))
  BY <1>2 DEF PollsLeft
<1>5. PollsLeft = rest + (RecvRetryMax - recvRetry)
  BY DEF PollsLeft
<1> HIDE DEF rest
<1> QED
  BY <1>1, <1>3, <1>4, <1>5, RetryAssumption

\* A phase begins with the same number of polls, whichever it is.
LEMMA PhasePollsType == PhasePolls \in Nat \ {0}
<1>1. SendRetryMax + 1 \in Nat \ {0} /\ RecvRetryMax \in Nat \ {0}
  BY RetryAssumption
<1>2. \A m, n \in Nat \ {0} : m * n \in Nat \ {0}
  OBVIOUS
<1> QED
  BY <1>1, <1>2 DEF PhasePolls

\* In a waiting state there is a poll left, and never more than at its beginning.
LEMMA PollsLeftRange ==
    ASSUME TypeOK, RetryBudget, status \in Waiting
    PROVE  PollsLeft \in 1 .. PhasePolls
<1>1. /\ sendRetry \in Nat /\ sendRetry <= SendRetryMax
      /\ recvRetry \in Nat /\ recvRetry < RecvRetryMax
  BY RetryAssumption DEF TypeOK, RetryBudget
<1> DEFINE rest == SendRetryMax - sendRetry
<1>2. rest \in Nat /\ rest <= SendRetryMax
  BY <1>1, RetryAssumption
<1>3. rest * RecvRetryMax \in Nat /\ rest * RecvRetryMax <= SendRetryMax * RecvRetryMax
  <2>1. \A i, j, k \in Nat : i <= j => i * k \in Nat /\ i * k <= j * k
    OBVIOUS
  <2> HIDE DEF rest
  <2> QED
    BY <1>2, <2>1, RetryAssumption
<1>4. PhasePolls = SendRetryMax * RecvRetryMax + RecvRetryMax
  BY RetryAssumption DEF PhasePolls
<1>5. PollsLeft = rest * RecvRetryMax + (RecvRetryMax - recvRetry)
  BY DEF PollsLeft
<1>6. SendRetryMax * RecvRetryMax \in Nat
  BY RetryAssumption
<1> DEFINE a == rest * RecvRetryMax
           b == SendRetryMax * RecvRetryMax
<1>7. a \in Nat /\ b \in Nat /\ a <= b
  BY <1>3, <1>6
<1>8. PhasePolls = b + RecvRetryMax /\ PollsLeft = a + (RecvRetryMax - recvRetry)
  BY <1>4, <1>5
<1> HIDE DEF a, b
<1> QED
  BY <1>1, <1>7, <1>8, RetryAssumption

\* What is left in all is bounded by the phases still to come, this one included.
PollsRange ==
    /\ status = "STARTUP" => PollsToOnline = 4 * PhasePolls
    /\ status = "WAIT_CS_PHASE1" =>
         PollsToOnline \in 3 * PhasePolls + 1 .. 4 * PhasePolls
    /\ status = "WAIT_CS_PHASE2" =>
         PollsToOnline \in 2 * PhasePolls + 1 .. 3 * PhasePolls
    /\ status = "WAIT_CS_PHASE3" =>
         PollsToOnline \in PhasePolls + 1 .. 2 * PhasePolls
    /\ status = "WAIT_DNS" => PollsToOnline \in 1 .. PhasePolls
    /\ status = "ONLINE" => PollsToOnline = 0

LEMMA PollsRangeHolds == IInv => PollsRange
<1> SUFFICES ASSUME IInv
             PROVE  PollsRange
  OBVIOUS
<1>1. status \in Waiting => PollsLeft \in 1 .. PhasePolls
  BY PollsLeftRange DEF IInv
<1>2. PhasePolls \in Nat
  BY PhasePollsType
<1>3. /\ status = "STARTUP" => PollsToOnline = 4 * PhasePolls
      /\ status = "WAIT_CS_PHASE1" => PollsToOnline = 3 * PhasePolls + PollsLeft
      /\ status = "WAIT_CS_PHASE2" => PollsToOnline = 2 * PhasePolls + PollsLeft
      /\ status = "WAIT_CS_PHASE3" => PollsToOnline = 1 * PhasePolls + PollsLeft
      /\ status = "WAIT_DNS" => PollsToOnline = 0 * PhasePolls + PollsLeft
      /\ status = "ONLINE" => PollsToOnline = 0
  BY DEF PollsToOnline, StatusRank
<1> QED
  BY <1>1, <1>2, <1>3 DEF Waiting, DS_STATUS, PollsRange

LEMMA PollsRangeNext == IInv' => PollsRange'
BY PollsRangeHolds, PTL

\* The helpers that send the device server to another state.
LEMMA NextStates ==
    /\ PingCenterServer => status' = "WAIT_CS_PHASE1"
    /\ PingCenterServerAgain => status' = "WAIT_CS_PHASE2"
    /\ PingAuxServer => status' = "WAIT_CS_PHASE3"
    /\ \A m : RegisterDS(m) => status' = "WAIT_DNS"
BY DEF PingCenterServer, PingCenterServerAgain, PingAuxServer, RegisterDS

\* Moving on costs polls: a later phase has at most what the earlier ones left.
LEMMA MovingOnUsesUp ==
    ASSUME IInv, IInv', StatusRank(status') > StatusRank(status), status # "STARTUP"
    PROVE  PollsToOnline' < PollsToOnline
<1>1. PollsRange /\ PollsRange'
  BY PollsRangeHolds, PollsRangeNext
<1>2. status \in DS_STATUS /\ status' \in DS_STATUS
  BY DEF IInv, TypeOK
<1>3. PhasePolls \in Nat \ {0} /\ PhasePolls' = PhasePolls
  BY PhasePollsType DEF PhasePolls
<1> QED
  BY <1>1, <1>2, <1>3 DEF StatusRank, DS_STATUS, PollsRange

LEMMA StatusMovesOn ==
    ASSUME IInv, [DSNext]_dsVars
    PROVE  StatusRank(status') >= StatusRank(status)
<1>1. CASE DSInit \/ DSInitFails
  BY <1>1, NextStates DEF DSInit, DSInitFails, IInv, BootFirst, StatusRank
<1>2. ASSUME NEW d \in Inbound, Recv(d)
      PROVE  StatusRank(status') >= StatusRank(status)
  BY <1>2, NextStates
     DEF Recv, OnCenterServerResponse, OnCenterServerResponse2, OnAuxServerResponse,
         OnDSRegisterResponse, ProcessClientRequests, IgnoreDatagram, StatusRank,
         IInv, TypeOK, DS_STATUS
<1>3. CASE PollEmpty
  BY <1>3, NextStates
     DEF PollEmpty, GiveUpPhase1, GiveUpPhase23, GiveUpDNS, Retransmit, KeepPolling,
         StatusRank, IInv, TypeOK, DS_STATUS
<1>4. CASE HeartBeat \/ OutNetDrained \/ UNCHANGED dsVars
  <2>1. status' = status
    BY <1>4 DEF HeartBeat, HeartBeatCompose, HeartBeatSend, OutNetDrained, dsVars
  <2>2. StatusRank(status) \in Int
    BY DEF StatusRank, IInv, TypeOK, DS_STATUS
  <2> QED
    BY <2>1, <2>2
<1> QED
  BY <1>1, <1>2, <1>3, <1>4 DEF DSNext, DSLoop

LEMMA OnlineStays ==
    ASSUME IInv, [DSNext]_dsVars, status = "ONLINE"
    PROVE  UNCHANGED <<mode, mIP>> /\ Len(heartbeats') = Len(heartbeats)
<1>1. CASE DSInit \/ DSInitFails
  BY <1>1 DEF DSInit, DSInitFails, IInv, BootFirst
<1>2. ASSUME NEW d \in Inbound, Recv(d)
      PROVE  UNCHANGED <<mode, mIP>> /\ Len(heartbeats') = Len(heartbeats)
  BY <1>2
     DEF Recv, OnCenterServerResponse, OnCenterServerResponse2, OnAuxServerResponse,
         OnDSRegisterResponse, ProcessClientRequests, IgnoreDatagram
<1>3. CASE PollEmpty
  BY <1>3
     DEF PollEmpty, GiveUpPhase1, GiveUpPhase23, GiveUpDNS, Retransmit, KeepPolling,
         Waiting
<1>4. CASE HeartBeat
  BY <1>4 DEF HeartBeat, HeartBeatCompose, HeartBeatSend, IInv, TypeOK
<1>5. CASE OutNetDrained \/ UNCHANGED dsVars
  BY <1>5 DEF OutNetDrained, dsVars
<1> QED
  BY <1>1, <1>2, <1>3, <1>4, <1>5 DEF DSNext, DSLoop

\* Within a phase what is left in all changes as what is left of the phase.
LEMMA StayingCounts ==
    ASSUME IInv, IInv', status' = status, status \in Waiting, PollsLeft' < PollsLeft
    PROVE  PollsToOnline' < PollsToOnline
<1> DEFINE later == (4 - StatusRank(status)) * PhasePolls
<1>1. PollsToOnline = later + PollsLeft /\ PollsToOnline' = later + PollsLeft'
  BY DEF PollsToOnline, Waiting, DS_STATUS, PhasePolls
<1>2. later \in Int
  BY PhasePollsType DEF StatusRank, Waiting, DS_STATUS
<1>3. PollsLeft \in Int /\ PollsLeft' \in Int
  <2>1. \A i, j \in 0 .. CounterMod - 1 :
          (SendRetryMax - i) * RecvRetryMax + (RecvRetryMax - j) \in Int
    BY RetryAssumption
  <2> QED
    BY <2>1 DEF IInv, TypeOK, PollsLeft
<1>4. \A i, j, k \in Int : j < i => k + j < k + i
  OBVIOUS
<1>5. later + PollsLeft' < later + PollsLeft
  <2> HIDE DEF later
  <2> QED
    BY <1>2, <1>3, <1>4
<1> QED
  BY <1>1, <1>5

\* An iteration that changes something before the server is online answers the
\* phase, gives it up, or uses up one of its polls.
LEMMA IterationUsesUp ==
    ASSUME IInv, IInv', DSLoop, status \in Waiting, dsVars' # dsVars
    PROVE  PollsToOnline' < PollsToOnline
<1>1. CASE PollEmpty
  <2>1. CASE GiveUpPhase1 \/ GiveUpPhase23 \/ GiveUpDNS
    <3>1. StatusRank(status') > StatusRank(status)
      BY <2>1, NextStates DEF GiveUpPhase1, GiveUpPhase23, GiveUpDNS, StatusRank
    <3> QED
      BY <3>1, MovingOnUsesUp DEF Waiting
  <2>2. CASE Retransmit
    <3>1. status' = status
      BY <2>2, NextStates DEF Retransmit
    <3> QED
      BY <2>2, <3>1, RetransmitUsesUp, StayingCounts
  <2>3. CASE KeepPolling
    <3>1. status' = status
      BY <2>3 DEF KeepPolling
    <3> QED
      BY <2>3, <3>1, KeepPollingUsesUp, StayingCounts
  <2> QED
    BY <1>1, <2>1, <2>2, <2>3 DEF PollEmpty
<1>2. ASSUME NEW d \in Inbound, Recv(d)
      PROVE  PollsToOnline' < PollsToOnline
  <2>1. CASE OnCenterServerResponse(d) \/ OnCenterServerResponse2(d)
             \/ OnAuxServerResponse(d) \/ OnDSRegisterResponse(d)
    <3>1. StatusRank(status') > StatusRank(status)
      BY <2>1, NextStates
         DEF OnCenterServerResponse, OnCenterServerResponse2, OnAuxServerResponse,
             OnDSRegisterResponse, StatusRank
    <3> QED
      BY <3>1, MovingOnUsesUp DEF Waiting
  <2>2. CASE ProcessClientRequests(d)
    BY <2>2 DEF ProcessClientRequests, Waiting
  <2>3. CASE IgnoreDatagram(d)
    BY <1>2, <2>3 DEF IgnoreDatagram, Recv, dsVars
  <2> QED
    BY <1>2, <2>1, <2>2, <2>3 DEF Recv
<1> QED
  BY <1>1, <1>2 DEF DSLoop

\* No step at all gives polls back.
LEMMA NoPollsBack ==
    ASSUME IInv, IInv', [DSNext]_dsVars
    PROVE  PollsToOnline' <= PollsToOnline
<1>1. PollsRange /\ PollsRange'
  BY PollsRangeHolds, PollsRangeNext
<1>2. PhasePolls \in Nat \ {0} /\ PhasePolls' = PhasePolls
  BY PhasePollsType DEF PhasePolls
<1>3. status \in DS_STATUS /\ status' \in DS_STATUS
  BY DEF IInv, TypeOK
<1>4. PollsToOnline \in Int /\ PollsToOnline' \in Int
  BY <1>1, <1>2, <1>3 DEF PollsRange, DS_STATUS
<1>5. StatusRank(status') >= StatusRank(status)
  BY StatusMovesOn
<1>6. CASE UNCHANGED dsVars \/ HeartBeat \/ OutNetDrained
  <2>1. UNCHANGED <<status, recvRetry, sendRetry>>
    BY <1>6 DEF dsVars, HeartBeat, HeartBeatCompose, HeartBeatSend, OutNetDrained
  <2>2. PollsToOnline' = PollsToOnline
    BY <2>1 DEF PollsToOnline, PollsLeft, PhasePolls
  <2> QED
    BY <1>4, <2>2
<1>7. CASE status = "STARTUP"
  BY <1>1, <1>2, <1>3, <1>7 DEF PollsRange, DS_STATUS
<1>8. CASE status = "ONLINE"
  BY <1>1, <1>3, <1>5, <1>8 DEF PollsRange, DS_STATUS, StatusRank
<1>9. CASE status \in Waiting /\ DSLoop /\ dsVars' # dsVars
  BY <1>4, <1>9, IterationUsesUp
<1>10. CASE status # "STARTUP" /\ (DSInit \/ DSInitFails)
  BY <1>10 DEF DSInit, DSInitFails, IInv, BootFirst
<1> QED
  BY <1>3, <1>6, <1>7, <1>8, <1>9, <1>10 DEF DSNext, Waiting

\* The polls of the whole start-up run out together: with nothing but silence,
\* stray, late and repeated datagrams in any order, the server needs at most four
\* phases' worth of iterations that do anything to get online.
THEOREM PollsRunOut == DSSpec => EmptyPollsRunOut
<1>1. IInv /\ IInv' /\ [DSNext]_dsVars =>
        [/\ PollsToOnline' <= PollsToOnline
         /\ status \in Waiting /\ DSLoop => PollsToOnline' < PollsToOnline]_dsVars
  BY NoPollsBack, IterationUsesUp
<1> QED
  BY <1>1, Invariance, PTL DEF DSSpec, EmptyPollsRunOut

\* The states are passed in order, and nothing a late answer does alters what
\* was decided when the server went online.
THEOREM OnlineSettled == DSSpec => OnlineIsSettled
<1>1. IInv /\ [DSNext]_dsVars =>
        [/\ StatusRank(status') >= StatusRank(status)
         /\ status = "ONLINE" =>
              /\ UNCHANGED <<mode, mIP>>
              /\ Len(heartbeats') = Len(heartbeats)]_dsVars
  BY StatusMovesOn, OnlineStays
<1> QED
  BY <1>1, Invariance, PTL DEF DSSpec, OnlineIsSettled
-----------------------------------------------------------------------------
(***************************************************************************)
(* The device server implements Lifecycle.                                 *)
(***************************************************************************)

\* Receiving an answer is a step of the life cycle or changes nothing it shows.
LEMMA RecvRefines ==
    ASSUME IInv, NEW d \in Inbound, Recv(d)
    PROVE  [Life!LifeNext]_(Life!lifeVars)
<1>1. CASE OnCenterServerResponse(d)
  BY <1>1, NextStates
     DEF OnCenterServerResponse, Stage, Life!lifeVars
<1>2. CASE OnCenterServerResponse2(d)
  BY <1>2, NextStates
     DEF OnCenterServerResponse2, Stage, Life!lifeVars
<1>3. CASE OnAuxServerResponse(d)
  <2>1. status = "WAIT_CS_PHASE3" /\ status' = "WAIT_DNS"
    BY <1>3, NextStates DEF OnAuxServerResponse
  <2>2. heartbeats' # <<>>
    BY <1>3, StartKeepAliveType DEF OnAuxServerResponse, IInv
  <2>3. mode' \in RunningMode
    BY <1>3, MappedModes DEF OnAuxServerResponse, SetMappedIPAddress
  <2>4. Life!Decide
    BY <2>1, <2>2, <2>3 DEF Life!Decide, Stage, RunningMode
  <2> QED
    BY <2>4 DEF Life!LifeNext
<1>4. CASE OnDSRegisterResponse(d)
  <2>1. Life!GoOnline
    BY <1>4 DEF OnDSRegisterResponse, Life!GoOnline, Stage
  <2> QED
    BY <2>1 DEF Life!LifeNext
<1>5. CASE ProcessClientRequests(d) \/ IgnoreDatagram(d)
  BY <1>5 DEF ProcessClientRequests, IgnoreDatagram, Stage, Life!lifeVars
<1> QED
  BY <1>1, <1>2, <1>3, <1>4, <1>5 DEF Recv

\* So is an empty poll.
LEMMA PollRefines ==
    ASSUME IInv, PollEmpty
    PROVE  [Life!LifeNext]_(Life!lifeVars)
<1>1. CASE GiveUpPhase1
  <2>1. Life!GoLocal
    BY <1>1, MappedModes
       DEF GiveUpPhase1, SetMappedIPAddress, Life!GoLocal, Stage
  <2> QED
    BY <2>1 DEF Life!LifeNext
<1>2. CASE GiveUpPhase23
  <2>1. status' = "WAIT_DNS" /\ mode' = "REMOTE_RELAY_MODE" /\ heartbeats' = heartbeats
    BY <1>2, NextStates, MappedModes DEF GiveUpPhase23, SetMappedIPAddress
  <2>2. Life!Decide
    BY <1>2, <2>1 DEF GiveUpPhase23, Life!Decide, Stage
  <2> QED
    BY <2>2 DEF Life!LifeNext
<1>3. CASE GiveUpDNS
  <2>1. Life!GoOnline
    BY <1>3, MappedModes
       DEF GiveUpDNS, SetMappedIPAddress, Life!GoOnline, Stage
  <2> QED
    BY <2>1 DEF Life!LifeNext
<1>4. CASE Retransmit
  <2>1. status' = status
    BY <1>4, NextStates DEF Retransmit
  <2> QED
    BY <1>4, <2>1 DEF Retransmit, Stage, Life!lifeVars
<1>5. CASE KeepPolling
  BY <1>5 DEF KeepPolling, Stage, Life!lifeVars
<1> QED
  BY <1>1, <1>2, <1>3, <1>4, <1>5 DEF PollEmpty

LEMMA StepRefines ==
    ASSUME IInv, [DSNext]_dsVars
    PROVE  [Life!LifeNext]_(Life!lifeVars)
<1>1. CASE DSInit
  <2>1. status = "STARTUP" /\ status' = "WAIT_CS_PHASE1" /\ heartbeats' = heartbeats
    BY <1>1, NextStates DEF DSInit, IInv, BootFirst
  <2>2. Life!StartProbing
    BY <2>1 DEF Life!StartProbing, Stage
  <2> QED
    BY <2>2 DEF Life!LifeNext
<1>2. CASE DSInitFails
  BY <1>2 DEF DSInitFails, Stage, Life!lifeVars
<1>3. ASSUME NEW d \in Inbound, Recv(d)
      PROVE  [Life!LifeNext]_(Life!lifeVars)
  BY <1>3, RecvRefines
<1>4. CASE PollEmpty
  BY <1>4, PollRefines
<1>5. CASE HeartBeat
  <2>1. UNCHANGED <<status, mode>>
    BY <1>5 DEF HeartBeat, HeartBeatCompose, HeartBeatSend
  <2>2. (heartbeats' # <<>>) = (heartbeats # <<>>)
    BY <1>5 DEF HeartBeat, HeartBeatCompose, HeartBeatSend, IInv, TypeOK
  <2> QED
    BY <2>1, <2>2 DEF Stage, Life!lifeVars
<1>6. CASE OutNetDrained \/ UNCHANGED dsVars
  BY <1>6 DEF OutNetDrained, dsVars, Stage, Life!lifeVars
<1> QED
  BY <1>1, <1>2, <1>3, <1>4, <1>5, <1>6 DEF DSNext, DSLoop

\* The server implements its life cycle: it decides once how it is reachable,
\* claims to be directly reachable only with all probes answered and its
\* registration kept alive, and goes online for good.
THEOREM LifecycleImplemented == DSSpec => ImplementsLifecycle
<1>1. DSInitial => Life!LifeInit
  BY DEF DSInitial, Life!LifeInit, Stage
<1>2. IInv /\ [DSNext]_dsVars => [Life!LifeNext]_(Life!lifeVars)
  BY StepRefines
<1> QED
  BY <1>1, <1>2, Invariance, PTL DEF DSSpec, ImplementsLifecycle, Life!LifeSpec
=============================================================================
