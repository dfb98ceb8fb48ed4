--------------------------- MODULE DSSystemProofs ---------------------------
(***************************************************************************)
(* Theorems about the device server behind a NAT, for every NAT, every     *)
(* stray datagram and every bound of DSSystem.  The servers only ever send *)
(* true answers (NetInv); so the system is a device server in one          *)
(* of the environments of DeviceServer, and everything proved there holds  *)
(* here.  ProbeInv then follows a mapped address from the server that saw  *)
(* it, over the network and the locals of the main loop, into the mode the *)
(* server registers.                                                       *)
(***************************************************************************)
EXTENDS DSSystem, DeviceServerProofs

\* Only true answers come from the servers; the rest are strays.
NetInv ==
    /\ natMap \in NatMaps
    /\ inNet \subseteq BindAnswers(natMap) \cup {Acknowledgement}
    /\ arrived \subseteq Strays
    /\ dups \in 0 .. DupsMax

\* What the device server knows of the probes is what the NAT showed.
ProbeInv ==
    /\ status \in {"STARTUP", "WAIT_CS_PHASE1", "WAIT_CS_PHASE2"}
         => mode = "REMOTE_DIRECT_MODE"
    /\ status \in {"WAIT_CS_PHASE2", "WAIT_CS_PHASE3"}
         => MIP1 = natMap[CenterServer] /\ mCS2 = AuxServer
    /\ status = "WAIT_CS_PHASE3" /\ mode # "REMOTE_RELAY_MODE"
         => natMap[Server1Port2] = natMap[CenterServer]
    /\ mode = "LOCAL_MODE" => status = "ONLINE"
    /\ DirectMeansOneMapping

\* Whether a registration that says D, is backed by the NAT.
Backed == natMap[CenterServer] \in {natMap[Server1Port2], natMap[AuxServer]}

\* The registrations among ms say R or D, and they say D only when the NAT
\* backs it or the server has fallen back to local mode.
Registrable(ms) ==
    \A m \in ms : m.cmd = "REGIST_DS_IP_TO_DNS_SERVER" =>
        /\ m.flag \in {"R", "D"}
        /\ m.flag = "D" /\ mode # "LOCAL_MODE" => Backed

\* A registration, on record or on its way, is one the NAT backs.
ClaimInv == Registrable(outNet) /\ DirectClaimConfirmed

\* Only a recorded registration is acknowledged.
RecordInv ==
    /\ registration \in {"none", "R", "D"}
    /\ Acknowledgement \in inNet => registration # "none"
-----------------------------------------------------------------------------
\* What travels to the device server is in the environment of DeviceServer.
LEMMA NetInbound ==
    ASSUME NetInv
    PROVE  inNet \subseteq Inbound /\ arrived \subseteq Inbound
BY SystemAssumption DEF NetInv

\* An answer says what the NAT showed the server that sent it.
LEMMA AnswerTruth ==
    ASSUME NetInv, NEW d \in inNet
    PROVE  /\ d.cmd = "BIND_REQ_TO_SERVER1_PORT1" =>
                d.addr = natMap[CenterServer] /\ d.cs2 = AuxServer
           /\ d.cmd = "BIND_REQ_TO_SERVER1_PORT2" => d.addr = natMap[Server1Port2]
           /\ d.cmd = "BIND_REQ_TO_SERVER2_PORT1" => d.addr = natMap[AuxServer]
           /\ d.cmd = "REGIST_DS_IP_TO_DNS_SERVER" => d = Acknowledgement
<1>1. \/ d = Answer("BIND_REQ_TO_SERVER1_PORT1", CenterServer, natMap[CenterServer], AuxServer)
      \/ d = Answer("BIND_REQ_TO_SERVER1_PORT2", Server1Port2, natMap[Server1Port2], NoPublicAddr)
      \/ d = Answer("BIND_REQ_TO_SERVER2_PORT1", AuxServer, natMap[AuxServer], NoPublicAddr)
      \/ d = Acknowledgement
  BY DEF NetInv, BindAnswers
<1> QED
  BY <1>1 DEF Answer, Acknowledgement

LEMMA NetInit == SysInit => NetInv
BY SystemAssumption DEF SysInit, NetInv

LEMMA NetStep ==
    ASSUME NetInv, [SysNext]_sysVars
    PROVE  NetInv'
<1>1. CASE Boot \/ Beat \/ LoseOut \/ StrayArrives \/ NothingArrives
  BY <1>1
     DEF NetInv, Boot, Beat, LoseOut, StrayArrives, NothingArrives, BindAnswers
<1>2. ASSUME NEW d \in inNet, Deliver(d)
      PROVE  NetInv'
  BY <1>2, SystemAssumption DEF NetInv, Deliver, BindAnswers
<1>3. ASSUME NEW m \in outNet, ServerHandles(m)
      PROVE  NetInv'
  <2>1. UNCHANGED <<natMap, arrived, dups>> /\ inNet' = inNet \cup Answers(m)
    BY <1>3 DEF ServerHandles
  <2>2. Answers(m) \subseteq BindAnswers(natMap) \cup {Acknowledgement}
    BY DEF Answers
  <2> QED
    BY <2>1, <2>2 DEF NetInv, BindAnswers
<1>4. CASE LoseIn \/ UNCHANGED sysVars
  BY <1>4 DEF NetInv, LoseIn, sysVars, BindAnswers
<1>5. ASSUME NEW d \in arrived, DeliverStray(d)
      PROVE  NetInv'
  BY <1>5 DEF NetInv, DeliverStray, BindAnswers
<1> QED
  BY <1>1, <1>2, <1>3, <1>4, <1>5 DEF SysNext, Iteration

LEMMA NetSafe == SysSpec => []NetInv
<1>1. NetInv /\ [SysNext]_sysVars => NetInv'
  BY NetStep
<1> QED
  BY <1>1, NetInit, PTL DEF SysSpec
-----------------------------------------------------------------------------
(***************************************************************************)
(* The composed system is a device server in one of its environments.      *)
(***************************************************************************)
LEMMA SysStepIsDSStep ==
    ASSUME NetInv, [SysNext]_sysVars
    PROVE  [DSNext]_dsVars
<1>1. CASE Boot \/ Beat \/ LoseOut \/ NothingArrives
  BY <1>1 DEF Boot, Beat, LoseOut, NothingArrives, DSNext, DSLoop
<1>2. ASSUME NEW d \in arrived, DeliverStray(d)
      PROVE  [DSNext]_dsVars
  BY <1>2, NetInbound DEF DeliverStray, DSNext, DSLoop
<1>3. ASSUME NEW d \in inNet, Deliver(d)
      PROVE  [DSNext]_dsVars
  BY <1>3, NetInbound DEF Deliver, DSNext, DSLoop
<1>4. ASSUME NEW m \in outNet, ServerHandles(m)
      PROVE  OutNetDrained
  BY <1>4 DEF ServerHandles, OutNetDrained
<1>5. CASE StrayArrives \/ LoseIn \/ UNCHANGED sysVars
  BY <1>5 DEF StrayArrives, LoseIn, sysVars
<1> QED
  BY <1>1, <1>2, <1>3, <1>4, <1>5 DEF SysNext, Iteration, DSNext

\* Whatever the NAT, the servers, the network and the clients do, the device
\* server behaves as DeviceServer allows: its theorems hold in the system.
THEOREM SystemImplementsDeviceServer == SysSpec => DSSpec
<1>1. SysInit => DSInitial
  BY DEF SysInit
<1>2. NetInv /\ [SysNext]_sysVars => [DSNext]_dsVars
  BY SysStepIsDSStep
<1> QED
  BY <1>1, <1>2, NetSafe, PTL DEF SysSpec, DSSpec

\* In its network, too, the server decides once how it is reached and goes online
\* for good (DTPLink_DSLoop): the life cycle carries over.
THEOREM SystemLifecycle == SysSpec => ImplementsLifecycle
  BY SystemImplementsDeviceServer, LifecycleImplemented
-----------------------------------------------------------------------------
(***************************************************************************)
(* The probes.                                                             *)
(***************************************************************************)

\* A public endpoint is not one of the two reserved addresses.
LEMMA PublicMode ==
    ASSUME NetInv, NEW ep \in Probed
    PROVE  MappedMode(natMap[ep]) = "REMOTE_DIRECT_MODE"
<1>1. natMap \in [Probed -> (Host \ {NoHost, RelayHost}) \X Port]
  BY SystemAssumption DEF NetInv
<1>2. natMap[ep] \in (Host \ {NoHost, RelayHost}) \X Port
  BY <1>1
<1>3. natMap[ep][1] \in Host \ {NoHost, RelayHost}
  BY <1>2
<1> QED
  BY <1>3 DEF MappedMode

LEMMA ProbeInit == SysInit => ProbeInv
BY DEF SysInit, DSInitial, ProbeInv, DirectMeansOneMapping

\* Receiving an answer that travelled over the network.
LEMMA DeliverProbes ==
    ASSUME IInv, NetInv, ProbeInv, NEW d \in inNet, Deliver(d)
    PROVE  ProbeInv'
<1>1. natMap' = natMap /\ Recv(d)
  BY DEF Deliver
<1>2. CASE OnCenterServerResponse(d)
  <2>1. status = "WAIT_CS_PHASE1" /\ status' = "WAIT_CS_PHASE2"
    BY <1>2, NextStates DEF OnCenterServerResponse
  <2>2. MIP1' = natMap[CenterServer] /\ mCS2' = AuxServer /\ mode' = mode
    BY <1>2, <2>1, AnswerTruth DEF OnCenterServerResponse, IsAnswer
  <2> QED
    BY <1>1, <2>1, <2>2 DEF ProbeInv, DirectMeansOneMapping
<1>3. CASE OnCenterServerResponse2(d)
  <2>1. /\ status = "WAIT_CS_PHASE2" /\ status' = "WAIT_CS_PHASE3"
        /\ UNCHANGED <<MIP1, mCS2>>
    BY <1>3, NextStates DEF OnCenterServerResponse2
  <2>2. d.addr = natMap[Server1Port2]
    BY <1>3, <2>1, AnswerTruth DEF OnCenterServerResponse2, IsAnswer
  <2>3. IF MIP1 # d.addr THEN mode' = "REMOTE_RELAY_MODE" ELSE mode' = mode
    BY <1>3, MappedModes DEF OnCenterServerResponse2, SetMappedIPAddress
  <2> QED
    BY <1>1, <2>1, <2>2, <2>3 DEF ProbeInv, DirectMeansOneMapping
<1>4. CASE OnAuxServerResponse(d)
  <2>1. status = "WAIT_CS_PHASE3" /\ status' = "WAIT_DNS"
    BY <1>4, NextStates DEF OnAuxServerResponse
  <2>2. d.addr = natMap[AuxServer] /\ MIP1 = natMap[CenterServer]
    BY <1>4, <2>1, AnswerTruth DEF OnAuxServerResponse, IsAnswer, ProbeInv
  <2>3. MappedMode(MIP1) = "REMOTE_DIRECT_MODE"
    BY <2>2, PublicMode DEF Probed
  <2>4. IF MIP1 # d.addr THEN mode' = "REMOTE_RELAY_MODE"
        ELSE mode' = "REMOTE_DIRECT_MODE" /\ mIP' = MIP1
    BY <1>4, <2>3, MappedModes DEF OnAuxServerResponse, SetMappedIPAddress
  <2> QED
    BY <1>1, <2>1, <2>2, <2>4 DEF ProbeInv, DirectMeansOneMapping
<1>5. CASE OnDSRegisterResponse(d) \/ ProcessClientRequests(d) \/ IgnoreDatagram(d)
  BY <1>1, <1>5
     DEF OnDSRegisterResponse, ProcessClientRequests, IgnoreDatagram, ProbeInv,
         DirectMeansOneMapping
<1> QED
  BY <1>1, <1>2, <1>3, <1>4, <1>5 DEF Recv

LEMMA PollProbes ==
    ASSUME IInv, ProbeInv, PollEmpty, natMap' = natMap
    PROVE  ProbeInv'
<1>1. CASE GiveUpPhase1 \/ GiveUpDNS
  BY <1>1, MappedModes
     DEF GiveUpPhase1, GiveUpDNS, SetMappedIPAddress, ProbeInv, DirectMeansOneMapping
<1>2. CASE GiveUpPhase23
  BY <1>2, MappedModes, NextStates
     DEF GiveUpPhase23, SetMappedIPAddress, ProbeInv, DirectMeansOneMapping
<1>3. CASE Retransmit
  <2>1. status' = status
    BY <1>3, NextStates DEF Retransmit
  <2> QED
    BY <1>3, <2>1 DEF Retransmit, ProbeInv, DirectMeansOneMapping
<1>4. CASE KeepPolling
  BY <1>4 DEF KeepPolling, ProbeInv, DirectMeansOneMapping
<1> QED
  BY <1>1, <1>2, <1>3, <1>4 DEF PollEmpty

\* A stray datagram is no answer to a probe: it is served, ignored, or taken for
\* the acknowledgement.
LEMMA StrayIsNoProbe ==
    ASSUME NetInv, ProbeInv, NEW d \in arrived, Recv(d)
    PROVE  OnDSRegisterResponse(d) \/ ProcessClientRequests(d) \/ IgnoreDatagram(d)
<1>1. d.cmd \notin Binding \/ d.from \notin Probed
  BY SystemAssumption DEF NetInv
<1>2. IsAnswer(d) => status = "WAIT_DNS"
  BY <1>1 DEF IsAnswer, Binding, Probed, Server1Port2, ProbeInv
<1> QED
  BY <1>2
     DEF Recv, OnCenterServerResponse, OnCenterServerResponse2, OnAuxServerResponse

LEMMA ProbeStep ==
    ASSUME IInv, NetInv, ProbeInv, [SysNext]_sysVars
    PROVE  ProbeInv'
<1>1. CASE Boot
  BY <1>1, NextStates
     DEF Boot, DSInit, DSInitFails, IInv, BootFirst, ProbeInv, DirectMeansOneMapping
<1>2. CASE NothingArrives
  BY <1>2, PollProbes DEF NothingArrives
<1>3. ASSUME NEW d \in arrived, DeliverStray(d)
      PROVE  ProbeInv'
  <2>1. OnDSRegisterResponse(d) \/ ProcessClientRequests(d) \/ IgnoreDatagram(d)
    BY <1>3, StrayIsNoProbe DEF DeliverStray
  <2> QED
    BY <1>3, <2>1
       DEF DeliverStray, OnDSRegisterResponse, ProcessClientRequests, IgnoreDatagram,
           ProbeInv, DirectMeansOneMapping
<1>4. ASSUME NEW d \in inNet, Deliver(d)
      PROVE  ProbeInv'
  BY <1>4, DeliverProbes
<1>5. CASE Beat
  BY <1>5
     DEF Beat, HeartBeat, HeartBeatCompose, HeartBeatSend, ProbeInv,
         DirectMeansOneMapping
<1>6. ASSUME NEW m \in outNet, ServerHandles(m)
      PROVE  ProbeInv'
  BY <1>6 DEF ServerHandles, ProbeInv, DirectMeansOneMapping
<1>7. CASE LoseOut \/ LoseIn \/ StrayArrives \/ UNCHANGED sysVars
  BY <1>7
     DEF LoseOut, OutNetDrained, LoseIn, StrayArrives, sysVars, dsVars, ProbeInv,
         DirectMeansOneMapping
<1> QED
  BY <1>1, <1>2, <1>3, <1>4, <1>5, <1>6, <1>7 DEF SysNext, Iteration

\* The probing invariant holds in the system, with the device server's own.
THEOREM ProbesTrue == SysSpec => [](IInv /\ NetInv /\ ProbeInv)
<1>1. IInv /\ NetInv /\ ProbeInv /\ [SysNext]_sysVars => ProbeInv'
  BY ProbeStep
<1> QED
  BY <1>1, ProbeInit, NetSafe, SystemImplementsDeviceServer, Invariance, PTL DEF SysSpec

\* A server that calls itself directly reachable has one public endpoint for
\* both servers, and holds it.
THEOREM DirectIsReachable == SysSpec => []DirectMeansOneMapping
<1>1. ProbeInv => DirectMeansOneMapping
  BY DEF ProbeInv
<1> QED
  BY <1>1, ProbesTrue, PTL
-----------------------------------------------------------------------------
(***************************************************************************)
(* What is registered.                                                     *)
(***************************************************************************)

LEMMA DirectIsBacked ==
    ASSUME NetInv, ProbeInv, mode = "REMOTE_DIRECT_MODE",
           status \in {"WAIT_CS_PHASE3", "WAIT_DNS", "ONLINE"}
    PROVE  Backed
BY DEF ProbeInv, DirectMeansOneMapping, Backed

LEMMA SendRegistrable ==
    ASSUME NEW ms, Registrable(ms), Registrable(outNet), Send(ms)
    PROVE  Registrable(outNet')
BY DEF Send, Registrable

LEMMA PingsRegistrable ==
    ASSUME Registrable(outNet),
           PingCenterServer \/ PingCenterServerAgain \/ PingAuxServer
    PROVE  Registrable(outNet')
BY DEF PingCenterServer, PingCenterServerAgain, PingAuxServer, Send, Registrable, Msg

LEMMA RegisterRegistrable ==
    ASSUME Registrable(outNet), NEW m, RegisterDS(m),
           m = "REMOTE_RELAY_MODE" \/ mode = "LOCAL_MODE" \/ Backed
    PROVE  Registrable(outNet')
BY DEF RegisterDS, Send, Registrable, RegisterMsg, ModeFlag

LEMMA RepliesRegistrable ==
    ASSUME Registrable(outNet), NEW d, Send(Replies(d))
    PROVE  Registrable(outNet')
<1>1. \A m \in Replies(d) : m.cmd # "REGIST_DS_IP_TO_DNS_SERVER"
  BY DEF Replies, Msg, RelayMsg
<1> QED
  BY <1>1 DEF Send, Registrable

LEMMA RecvRegistrable ==
    ASSUME IInv, NetInv, ProbeInv, Registrable(outNet), NEW d, Recv(d)
    PROVE  Registrable(outNet')
<1>1. CASE OnCenterServerResponse(d) \/ OnCenterServerResponse2(d)
  BY <1>1, PingsRegistrable DEF OnCenterServerResponse, OnCenterServerResponse2
<1>2. CASE OnAuxServerResponse(d)
  <2>1. status = "WAIT_CS_PHASE3" /\ mode \in RunningMode
    BY <1>2 DEF OnAuxServerResponse, IInv, TypeOK
  <2>2. mode = "REMOTE_RELAY_MODE" \/ mode = "LOCAL_MODE" \/ Backed
    BY <2>1, DirectIsBacked DEF RunningMode
  <2> QED
    BY <1>2, <2>2, RegisterRegistrable DEF OnAuxServerResponse
<1>3. CASE ProcessClientRequests(d)
  BY <1>3, RepliesRegistrable DEF ProcessClientRequests
<1>4. CASE OnDSRegisterResponse(d) \/ IgnoreDatagram(d)
  BY <1>4 DEF OnDSRegisterResponse, IgnoreDatagram, Registrable
<1> QED
  BY <1>1, <1>2, <1>3, <1>4 DEF Recv

LEMMA PollRegistrable ==
    ASSUME IInv, NetInv, ProbeInv, Registrable(outNet), PollEmpty
    PROVE  Registrable(outNet')
<1>1. CASE GiveUpPhase1 \/ GiveUpDNS \/ KeepPolling
  BY <1>1 DEF GiveUpPhase1, GiveUpDNS, KeepPolling, Registrable
<1>2. CASE GiveUpPhase23
  <2>1. mode' = "REMOTE_RELAY_MODE"
    BY <1>2, MappedModes DEF GiveUpPhase23, SetMappedIPAddress
  <2> QED
    BY <1>2, <2>1, RegisterRegistrable DEF GiveUpPhase23
<1>3. CASE Retransmit
  <2>1. CASE status = "WAIT_DNS" /\ RegisterDS(mode)
    <3>1. mode = "REMOTE_RELAY_MODE" \/ mode = "LOCAL_MODE" \/ Backed
      BY <2>1, DirectIsBacked DEF IInv, TypeOK, RunningMode
    <3> QED
      BY <2>1, <3>1, RegisterRegistrable
  <2>2. CASE PingCenterServer \/ PingCenterServerAgain \/ PingAuxServer
    BY <2>2, PingsRegistrable
  <2> QED
    BY <1>3, <2>1, <2>2 DEF Retransmit
<1> QED
  BY <1>1, <1>2, <1>3 DEF PollEmpty

LEMMA BeatRegistrable ==
    ASSUME IInv, NetInv, ProbeInv, HeartbeatTellsMode, Registrable(outNet), HeartBeat
    PROVE  Registrable(outNet')
<1>1. PICK i \in DOMAIN heartbeats : HeartBeatCompose(i) \/ HeartBeatSend(i)
  BY DEF HeartBeat
<1>2. CASE HeartBeatCompose(i)
  BY <1>2 DEF HeartBeatCompose, Registrable
<1>3. CASE HeartBeatSend(i)
  <2>1. heartbeats[i] \in {"R", "D"} /\ heartbeats # <<>>
    BY <1>1, <1>3 DEF HeartBeatSend, IInv, TypeOK
  <2>2. heartbeats[i] = "D" /\ mode # "LOCAL_MODE" => mode = "REMOTE_DIRECT_MODE"
    BY <1>1, <2>1 DEF HeartbeatTellsMode, ModeFlag, IInv, TypeOK, RunningMode
  <2>3. status \in {"WAIT_DNS", "ONLINE"}
    BY <2>1 DEF IInv, OneHeartbeat
  <2>4. heartbeats[i] = "D" /\ mode # "LOCAL_MODE" => Backed
    BY <2>2, <2>3, DirectIsBacked
  <2>5. Registrable({RegisterMsg(CenterServer, heartbeats[i])})
    BY <2>1, <2>4 DEF Registrable, RegisterMsg
  <2> QED
    BY <1>3, <2>5, SendRegistrable DEF HeartBeatSend
<1> QED
  BY <1>1, <1>2, <1>3

\* Local mode is for good.
LEMMA LocalStays ==
    ASSUME IInv, NetInv, ProbeInv, [SysNext]_sysVars, mode' # "LOCAL_MODE"
    PROVE  mode # "LOCAL_MODE"
<1>1. [DSNext]_dsVars
  BY SysStepIsDSStep
<1>2. status = "ONLINE" => mode' = mode
  BY <1>1, OnlineStays
<1> QED
  BY <1>2 DEF ProbeInv

\* Sending and losing registrations keeps the claim.
LEMMA ClaimKept ==
    ASSUME IInv, NetInv, ProbeInv, [SysNext]_sysVars, natMap' = natMap,
           Registrable(outNet'),
           registration' = "D" /\ mode # "LOCAL_MODE" => Backed
    PROVE  ClaimInv'
<1>1. mode' # "LOCAL_MODE" => mode # "LOCAL_MODE"
  BY LocalStays
<1>2. Backed' = Backed
  BY DEF Backed
<1> QED
  BY <1>1, <1>2 DEF ClaimInv, Registrable, DirectClaimConfirmed, Backed

LEMMA ClaimStep ==
    ASSUME IInv, HeartbeatTellsMode, NetInv, ProbeInv, ClaimInv, [SysNext]_sysVars
    PROVE  ClaimInv'
<1>1. Registrable(outNet) /\ (registration = "D" /\ mode # "LOCAL_MODE" => Backed)
  BY DEF ClaimInv, DirectClaimConfirmed, Backed
<1>2. CASE Boot
  <2>1. Registrable(outNet')
    BY <1>1, <1>2, PingsRegistrable DEF Boot, DSInit, DSInitFails, Registrable
  <2> QED
    BY <1>1, <1>2, <2>1, ClaimKept DEF Boot
<1>3. CASE NothingArrives
  <2>1. Registrable(outNet')
    BY <1>1, <1>3, PollRegistrable DEF NothingArrives
  <2> QED
    BY <1>1, <1>3, <2>1, ClaimKept DEF NothingArrives
<1>4. ASSUME NEW d \in arrived, DeliverStray(d)
      PROVE  ClaimInv'
  <2>1. Registrable(outNet')
    BY <1>1, <1>4, RecvRegistrable DEF DeliverStray
  <2> QED
    BY <1>1, <1>4, <2>1, ClaimKept DEF DeliverStray
<1>5. ASSUME NEW d \in inNet, Deliver(d)
      PROVE  ClaimInv'
  <2>1. Registrable(outNet')
    BY <1>1, <1>5, RecvRegistrable DEF Deliver
  <2> QED
    BY <1>1, <1>5, <2>1, ClaimKept DEF Deliver
<1>6. CASE Beat
  <2>1. Registrable(outNet')
    BY <1>1, <1>6, BeatRegistrable DEF Beat
  <2> QED
    BY <1>1, <1>6, <2>1, ClaimKept DEF Beat
<1>7. ASSUME NEW m \in outNet, ServerHandles(m)
      PROVE  ClaimInv'
  <2>1. Registrable(outNet')
    BY <1>1, <1>7 DEF ServerHandles, Registrable
  <2>2. registration' = "D" /\ mode # "LOCAL_MODE" => Backed
    BY <1>1, <1>7 DEF ServerHandles, Registrable
  <2> QED
    BY <1>7, <2>1, <2>2, ClaimKept DEF ServerHandles
<1>8. CASE LoseOut \/ LoseIn \/ StrayArrives \/ UNCHANGED sysVars
  <2>1. outNet' \subseteq outNet /\ UNCHANGED <<natMap, registration>>
    BY <1>8 DEF LoseOut, OutNetDrained, LoseIn, StrayArrives, sysVars, dsVars
  <2>2. Registrable(outNet')
    BY <1>1, <2>1 DEF Registrable
  <2> QED
    BY <1>1, <2>1, <2>2, ClaimKept
<1> QED
  BY <1>2, <1>3, <1>4, <1>5, <1>6, <1>7, <1>8 DEF SysNext, Iteration

\* The center server never takes a server for directly reachable unless one of
\* its later probes confirmed the first: the record at the center server is
\* backed by what the NAT does.
THEOREM ClaimsConfirmed == SysSpec => []DirectClaimConfirmed
<1>1. SysInit => ClaimInv
  BY DEF SysInit, DSInitial, ClaimInv, Registrable, DirectClaimConfirmed
<1>2. IInv /\ HeartbeatTellsMode /\ NetInv /\ ProbeInv /\ ClaimInv /\ [SysNext]_sysVars
        => ClaimInv'
  BY ClaimStep
<1>3. ClaimInv => DirectClaimConfirmed
  BY DEF ClaimInv
<1> QED
  BY <1>1, <1>2, <1>3, ProbesTrue, SystemImplementsDeviceServer, HeartbeatTruthful, PTL
     DEF SysSpec

LEMMA RecordStep ==
    ASSUME ClaimInv, RecordInv, [SysNext]_sysVars
    PROVE  RecordInv'
<1>1. CASE Boot \/ NothingArrives \/ Beat \/ LoseOut \/ StrayArrives \/ UNCHANGED sysVars
  BY <1>1
     DEF Boot, NothingArrives, Beat, LoseOut, StrayArrives, sysVars, RecordInv,
         Acknowledgement, Answer
<1>2. ASSUME NEW d \in inNet, Deliver(d)
      PROVE  RecordInv'
  BY <1>2 DEF Deliver, RecordInv, Acknowledgement, Answer
<1>3. ASSUME NEW d \in arrived, DeliverStray(d)
      PROVE  RecordInv'
  BY <1>3 DEF DeliverStray, RecordInv, Acknowledgement, Answer
<1>4. ASSUME NEW m \in outNet, ServerHandles(m)
      PROVE  RecordInv'
  <2>1. CASE m.cmd = "REGIST_DS_IP_TO_DNS_SERVER"
    <3>1. registration' \in {"R", "D"}
      BY <1>4, <2>1 DEF ServerHandles, ClaimInv, Registrable
    <3> QED
      BY <3>1 DEF RecordInv
  <2>2. CASE m.cmd # "REGIST_DS_IP_TO_DNS_SERVER"
    <3>1. Acknowledgement \notin Answers(m)
      BY <2>2 DEF Answers, Acknowledgement, Answer
    <3> QED
      BY <1>4, <2>2, <3>1 DEF ServerHandles, RecordInv, Acknowledgement, Answer
  <2> QED
    BY <2>1, <2>2
<1>5. CASE LoseIn
  BY <1>5 DEF LoseIn, RecordInv, Acknowledgement, Answer
<1> QED
  BY <1>1, <1>2, <1>3, <1>4, <1>5 DEF SysNext, Iteration

\* Who takes the server online, other than in local mode, without a stray: the
\* acknowledgement of a recorded registration.
LEMMA GoesOnline ==
    ASSUME IInv, NetInv, ProbeInv, RecordInv, [SysNext]_sysVars,
           status # "ONLINE", status' = "ONLINE", mode' # "LOCAL_MODE"
    PROVE  registration # "none" \/ StrayAcknowledges
<1>1. CASE Boot
  BY <1>1, NextStates DEF Boot, DSInit, DSInitFails
<1>2. CASE NothingArrives
  <2>1. CASE GiveUpPhase1 \/ GiveUpDNS
    BY <2>1, MappedModes DEF GiveUpPhase1, GiveUpDNS, SetMappedIPAddress
  <2>2. CASE GiveUpPhase23 \/ Retransmit
    BY <2>2, NextStates DEF GiveUpPhase23, Retransmit, Waiting
  <2>3. CASE KeepPolling
    BY <2>3 DEF KeepPolling
  <2> QED
    BY <1>2, <2>1, <2>2, <2>3 DEF NothingArrives, PollEmpty
<1>3. ASSUME NEW d, Recv(d)
      PROVE  OnDSRegisterResponse(d) /\ d.cmd = "REGIST_DS_IP_TO_DNS_SERVER"
  <2>1. OnDSRegisterResponse(d)
    BY <1>3, NextStates
       DEF Recv, OnCenterServerResponse, OnCenterServerResponse2, OnAuxServerResponse,
           ProcessClientRequests, IgnoreDatagram
  <2> QED
    BY <2>1 DEF OnDSRegisterResponse, IsAnswer
<1>4. ASSUME NEW d \in inNet, Deliver(d)
      PROVE  registration # "none"
  <2>1. d = Acknowledgement
    BY <1>3, <1>4, AnswerTruth DEF Deliver
  <2> QED
    BY <2>1 DEF RecordInv
<1>5. ASSUME NEW d \in arrived, DeliverStray(d)
      PROVE  StrayAcknowledges
  BY <1>3, <1>5 DEF DeliverStray, StrayAcknowledges
<1>6. CASE Beat
  BY <1>6 DEF Beat, HeartBeat, HeartBeatCompose, HeartBeatSend
<1>7. ASSUME NEW m \in outNet, ServerHandles(m)
      PROVE  FALSE
  BY <1>7 DEF ServerHandles
<1>8. CASE LoseOut \/ LoseIn \/ StrayArrives \/ UNCHANGED sysVars
  BY <1>8 DEF LoseOut, OutNetDrained, LoseIn, StrayArrives, sysVars, dsVars
<1> QED
  BY <1>1, <1>2, <1>4, <1>5, <1>6, <1>7, <1>8 DEF SysNext, Iteration

\* A registration is acknowledged only when it is on record.
THEOREM RecordsTrue == SysSpec => [](ClaimInv /\ RecordInv)
<1>1. SysInit => ClaimInv /\ RecordInv
  BY DEF SysInit, DSInitial, ClaimInv, Registrable, DirectClaimConfirmed, RecordInv
<1>2. IInv /\ HeartbeatTellsMode /\ NetInv /\ ProbeInv /\ ClaimInv /\ [SysNext]_sysVars
        => ClaimInv'
  BY ClaimStep
<1>3. ClaimInv /\ RecordInv /\ [SysNext]_sysVars => RecordInv'
  BY RecordStep
<1> QED
  BY <1>1, <1>2, <1>3, ProbesTrue, SystemImplementsDeviceServer, HeartbeatTruthful, PTL
     DEF SysSpec

\* Unless a stray datagram passes for the acknowledgement, a server gets online,
\* other than in local mode, only when the center server has it on record
\* (OnDSRegisterResponse, and the three ways to give up).
THEOREM AcknowledgementsTrue == SysSpec => AcknowledgedWhenRecorded
<1>1. IInv /\ NetInv /\ ProbeInv /\ RecordInv /\ [SysNext]_sysVars =>
        [status # "ONLINE" /\ status' = "ONLINE" /\ mode' # "LOCAL_MODE" =>
            registration # "none" \/ StrayAcknowledges]_sysVars
  BY GoesOnline
<1> QED
  BY <1>1, ProbesTrue, RecordsTrue, PTL DEF SysSpec, AcknowledgedWhenRecorded

\* The record of the DNS server, the NAT's mappings and the datagrams on the
\* wire keep their types under every step of the server, the servers and the
\* clients.
THEOREM SysTypeCorrect == SysSpec => []SysTypeOK
<1>1. NetInv /\ RecordInv => SysTypeOK
  BY NetInbound DEF RecordInv, SysTypeOK, NetInv
<1> QED
  BY <1>1, NetSafe, RecordsTrue, PTL
-----------------------------------------------------------------------------
(***************************************************************************)
(* The record is repaired step by step.                                    *)
(***************************************************************************)

\* Every registration in flight after a step was so before or tells the mode.
OnlyTrueLettersSent ==
    \A m \in outNet' : m.cmd = "REGIST_DS_IP_TO_DNS_SERVER" =>
        m \in outNet \/ m.flag = ModeFlag(mode)

LEMMA AnnouncedRecv ==
    ASSUME status \in {"WAIT_DNS", "ONLINE"}, NEW d, Recv(d)
    PROVE  mode' = mode /\ OnlyTrueLettersSent
<1>1. CASE ProcessClientRequests(d)
  <2>1. \A m \in Replies(d) : m.cmd # "REGIST_DS_IP_TO_DNS_SERVER"
    BY DEF Replies, Msg, RelayMsg
  <2> QED
    BY <1>1, <2>1 DEF ProcessClientRequests, Send, OnlyTrueLettersSent
<1>2. CASE OnDSRegisterResponse(d) \/ IgnoreDatagram(d)
  BY <1>2 DEF OnDSRegisterResponse, IgnoreDatagram, OnlyTrueLettersSent
<1> QED
  BY <1>1, <1>2
     DEF Recv, OnCenterServerResponse, OnCenterServerResponse2, OnAuxServerResponse

LEMMA AnnouncedPoll ==
    ASSUME status \in {"WAIT_DNS", "ONLINE"}, PollEmpty, mode' # "LOCAL_MODE"
    PROVE  mode' = mode /\ OnlyTrueLettersSent
<1>1. CASE GiveUpDNS
  BY <1>1, MappedModes DEF GiveUpDNS, SetMappedIPAddress
<1>2. CASE Retransmit
  <2>1. RegisterDS(mode) /\ mode' = mode
    BY <1>2 DEF Retransmit, Waiting
  <2> QED
    BY <2>1 DEF RegisterDS, Send, RegisterMsg, OnlyTrueLettersSent
<1>3. CASE KeepPolling
  BY <1>3 DEF KeepPolling, OnlyTrueLettersSent
<1> QED
  BY <1>1, <1>2, <1>3 DEF PollEmpty, GiveUpPhase1, GiveUpPhase23

LEMMA AnnouncedBeat ==
    ASSUME HeartbeatTellsMode, mode # "LOCAL_MODE", HeartBeat
    PROVE  mode' = mode /\ OnlyTrueLettersSent
<1>1. PICK i \in DOMAIN heartbeats : HeartBeatCompose(i) \/ HeartBeatSend(i)
  BY DEF HeartBeat
<1>2. CASE HeartBeatCompose(i)
  BY <1>2 DEF HeartBeatCompose, OnlyTrueLettersSent
<1>3. CASE HeartBeatSend(i)
  <2>1. heartbeats[i] = ModeFlag(mode)
    BY <1>3 DEF HeartBeatSend, HeartbeatTellsMode
  <2> QED
    BY <1>3, <2>1 DEF HeartBeatSend, Send, RegisterMsg, OnlyTrueLettersSent
<1> QED
  BY <1>1, <1>2, <1>3

\* What a step that sends only true letters does to the record.
LEMMA TrueLettersRepair ==
    ASSUME mode' = mode, OnlyTrueLettersSent, registration' = registration
    PROVE  /\ WrongLetters' \subseteq WrongLetters
           /\ RecordRight => RecordRight'
BY DEF OnlyTrueLettersSent, WrongLetters, RecordRight

LEMMA RecordRepairStep ==
    ASSUME IInv, HeartbeatTellsMode, NetInv, ProbeInv, [SysNext]_sysVars, StaysAnnounced
    PROVE  /\ WrongLetters' \subseteq WrongLetters
           /\ RecordRight => RecordRight'
<1>1. status \in {"WAIT_DNS", "ONLINE"} /\ mode' # "LOCAL_MODE" /\ mode # "LOCAL_MODE"
  BY LocalStays DEF StaysAnnounced
<1>2. CASE Boot
  BY <1>1, <1>2 DEF Boot, DSInit, DSInitFails, IInv, BootFirst
<1>3. CASE NothingArrives
  BY <1>1, <1>3, AnnouncedPoll, TrueLettersRepair DEF NothingArrives
<1>4. ASSUME NEW d \in arrived, DeliverStray(d)
      PROVE  mode' = mode /\ OnlyTrueLettersSent /\ registration' = registration
  BY <1>1, <1>4, AnnouncedRecv DEF DeliverStray
<1>5. ASSUME NEW d \in inNet, Deliver(d)
      PROVE  mode' = mode /\ OnlyTrueLettersSent /\ registration' = registration
  BY <1>1, <1>5, AnnouncedRecv DEF Deliver
<1>6. CASE Beat
  BY <1>1, <1>6, AnnouncedBeat, TrueLettersRepair DEF Beat
<1>7. ASSUME NEW m \in outNet, ServerHandles(m)
      PROVE  /\ WrongLetters' \subseteq WrongLetters
             /\ RecordRight => RecordRight'
  <2>1. mode' = mode /\ outNet' \subseteq outNet
    BY <1>7 DEF ServerHandles
  <2>2. \/ registration' = registration
        \/ m.cmd = "REGIST_DS_IP_TO_DNS_SERVER" /\ registration' = m.flag
    BY <1>7 DEF ServerHandles
  <2> QED
    BY <2>1, <2>2 DEF WrongLetters, RecordRight
<1>8. CASE LoseOut \/ LoseIn \/ StrayArrives \/ UNCHANGED sysVars
  <2>1. outNet' \subseteq outNet /\ mode' = mode /\ registration' = registration
    BY <1>8 DEF LoseOut, OutNetDrained, LoseIn, StrayArrives, sysVars, dsVars
  <2> QED
    BY <2>1 DEF WrongLetters, RecordRight
<1> QED
  BY <1>2, <1>3, <1>4, <1>5, <1>6, <1>7, <1>8, TrueLettersRepair DEF SysNext, Iteration

\* Once registration has started, wrong letters only get fewer, and a right record
\* that none of them threatens stays right: what RegistrationRepaired needs of the
\* steps, for every NAT and network.
THEOREM WrongLettersDwindle == SysSpec => WrongLettersDieOut
<1>1. IInv /\ HeartbeatTellsMode /\ NetInv /\ ProbeInv /\ [SysNext]_sysVars =>
        [/\ StaysAnnounced => WrongLetters' \subseteq WrongLetters
         /\ StaysAnnounced /\ RecordRight => RecordRight']_sysVars
  BY RecordRepairStep
<1> QED
  BY <1>1, ProbesTrue, SystemImplementsDeviceServer, HeartbeatTruthful, PTL
     DEF SysSpec, WrongLettersDieOut

\* The server is online and on record as what it is, with no wrong letter in flight.
Repaired == status = "ONLINE" /\ mode # "LOCAL_MODE" /\ RecordRight

\* From then on the center server always knows the mode the server runs in, whatever
\* is lost, late or reordered: RegistrationRepaired is left with the task of getting
\* there once.
THEOREM RepairIsFinal == SysSpec => [](Repaired => []Repaired)
<1>1. ASSUME IInv, HeartbeatTellsMode, NetInv, ProbeInv, [SysNext]_sysVars, Repaired
      PROVE  Repaired'
  <2>1. [DSNext]_dsVars
    BY <1>1, SysStepIsDSStep
  <2>2. mode' = mode
    BY <1>1, <2>1, OnlineStays DEF Repaired
  <2>3. status' = "ONLINE"
    <3>1. StatusRank(status') >= 5 /\ IInv'
      BY <1>1, <2>1, StatusMovesOn, StepInvariant DEF Repaired, StatusRank
    <3>2. status' \in DS_STATUS
      BY <3>1 DEF IInv, TypeOK
    <3> QED
      BY <3>1, <3>2 DEF StatusRank, DS_STATUS
  <2>4. RecordRight'
    BY <1>1, <2>2, RecordRepairStep DEF Repaired, StaysAnnounced
  <2> QED
    BY <1>1, <2>2, <2>3, <2>4 DEF Repaired
<1> QED
  BY <1>1, ProbesTrue, SystemImplementsDeviceServer, HeartbeatTruthful, PTL DEF SysSpec

\* In its network, too, no datagram, whoever sent it, gives the server polls back
\* that it has used up (DTPLink_DSLoop).
THEOREM SystemProgress == SysSpec => EmptyPollsRunOut
BY SystemImplementsDeviceServer, PollsRunOut
=============================================================================
