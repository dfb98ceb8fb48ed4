----------------------------- MODULE BootProofs -----------------------------
(***************************************************************************)
(* Theorems about start-up, for every set of names, any number of          *)
(* descriptors and both network layers.                                    *)
(***************************************************************************)
EXTENDS Boot, FiniteSetTheorems, TLAPS

\* Nothing has happened to the context yet that the loop works with.
Idle ==
    /\ status = "STARTUP"
    /\ mode = "REMOTE_DIRECT_MODE"
    /\ recvRetry = 0
    /\ sendRetry = 0
    /\ heartbeats = <<>>
    /\ outNet = {}

Socket == {"open", "INVALID_SOCKET"}

StartTypeOK ==
    /\ bootPc \in {"start", "resolve", "internet", "intranet", "ping", "failed",
                   "loop", "crashed"}
    /\ endpoint \in [EP -> Socket]
    /\ mRemoteFd \in {"zero"} \cup Socket
    /\ mLocalFd \in {"zero"} \cup Socket
    /\ owner \in [EP -> {"nobody", "self", "other"}]
    /\ lost \in Nat
    /\ FdsUsed <= FdMax
    /\ nameService \in {"address", "zero", "failed"}

BootInv ==
    /\ StartTypeOK
    /\ OwnEndpoints
    /\ FailedStaysQuiet
    /\ bootPc # "loop" => Idle
    /\ bootPc = "ping" => mRemoteFd = "open" /\ mLocalFd = "open"
    /\ bootPc = "intranet" => mRemoteFd = endpoint["INTERNET_EP"]

LEMMA Open ==
    ASSUME NEW e
    PROVE  /\ IsFiniteSet({p \in EP : e[p] = "open"})
           /\ Cardinality({p \in EP : e[p] = "open"}) \in Nat
           /\ Cardinality({p \in EP : e[p] = "open"}) <= 2
<1>1. IsFiniteSet(EP) /\ Cardinality(EP) <= 2
  <2>1. IsFiniteSet({"INTRANET_EP"}) /\ Cardinality({"INTRANET_EP"}) = 1
    BY FS_Singleton
  <2>2. EP = {"INTRANET_EP"} \cup {"INTERNET_EP"}
    BY DEF EP
  <2>3. IsFiniteSet(EP) /\ Cardinality(EP) = 2
    BY <2>1, <2>2, FS_AddElement
  <2> QED BY <2>3
<1>2. {p \in EP : e[p] = "open"} \subseteq EP
  OBVIOUS
<1>3. IsFiniteSet({p \in EP : e[p] = "open"})
  BY <1>1, <1>2, FS_Subset
<1>4. Cardinality({p \in EP : e[p] = "open"}) <= Cardinality(EP)
  BY <1>1, <1>2, FS_Subset
<1>5. Cardinality({p \in EP : e[p] = "open"}) \in Nat /\ Cardinality(EP) \in Nat
  BY <1>1, <1>3, FS_CardinalityType
<1> QED BY <1>1, <1>3, <1>4, <1>5

\* A failed or successful attempt takes at most one descriptor.
LEMMA OpenPort ==
    ASSUME StartTypeOK, NEW p \in EP, endpoint[p] = "INVALID_SOCKET",
           owner[p] # "self", DTPLink_OpenPort(p)
    PROVE  /\ endpoint' \in [EP -> Socket]
           /\ owner' \in [EP -> {"nobody", "self", "other"}]
           /\ lost' \in Nat
           /\ FdsUsed' <= FdMax
           /\ endpoint'[p] = "open" <=> owner'[p] = "self"
           /\ \A q \in EP \ {p} : endpoint'[q] = endpoint[q] /\ owner'[q] = owner[q]
<1> DEFINE O == {q \in EP : endpoint[q] = "open"}
           P == {q \in EP : endpoint'[q] = "open"}
<1>1. /\ IsFiniteSet(O) /\ Cardinality(O) \in Nat /\ lost \in Nat /\ FdMax \in Nat
      /\ lost + Cardinality(O) <= FdMax
  BY Open, BootAssumption DEF StartTypeOK, FdsUsed
<1>2. CASE UNCHANGED <<owner, lost>> /\ endpoint' = [endpoint EXCEPT ![p] = "INVALID_SOCKET"]
  <2>1. endpoint' = endpoint
    BY <1>2 DEF StartTypeOK
  <2> QED BY <1>2, <2>1 DEF StartTypeOK, FdsUsed
<1>3. CASE /\ FdsUsed < FdMax
           /\ endpoint' = [endpoint EXCEPT ![p] = "open"]
           /\ owner' = [owner EXCEPT ![p] = "self"]
           /\ UNCHANGED lost
  <2>1. P = O \cup {p} /\ p \notin O
    BY <1>3 DEF StartTypeOK
  <2>2. Cardinality(P) = Cardinality(O) + 1
    <3> HIDE DEF O, P
    <3> QED BY <1>1, <2>1, FS_AddElement
  <2>3. lost + Cardinality(O) < FdMax
    BY <1>3 DEF FdsUsed
  <2>4. lost' + Cardinality(P) <= FdMax
    <3> HIDE DEF O, P
    <3> QED BY <1>1, <1>3, <2>2, <2>3
  <2>5. FdsUsed' <= FdMax
    BY <2>4 DEF FdsUsed
  <2> QED BY <1>3, <2>5 DEF StartTypeOK, Socket
<1>4. CASE /\ FdsUsed < FdMax
           /\ endpoint' = [endpoint EXCEPT ![p] = "INVALID_SOCKET"]
           /\ lost' = lost + 1
           /\ UNCHANGED owner
  <2>1. endpoint' = endpoint
    BY <1>4 DEF StartTypeOK
  <2>2. lost + Cardinality(O) < FdMax
    BY <1>4 DEF FdsUsed
  <2>3. lost' + Cardinality(O) <= FdMax /\ lost' \in Nat
    <3> HIDE DEF O
    <3> QED BY <1>1, <1>4, <2>2
  <2>4. FdsUsed' <= FdMax
    BY <2>1, <2>3 DEF FdsUsed
  <2> QED BY <1>4, <2>1, <2>3, <2>4 DEF StartTypeOK, Socket
<1> QED BY <1>2, <1>3, <1>4 DEF DTPLink_OpenPort
-----------------------------------------------------------------------------
(***************************************************************************)
(* The inductive invariant: before the loop the context is as the program  *)
(* found it, the caches and the ports agree, and the copies of the caches  *)
(* in the context are right when they are used.                            *)
(***************************************************************************)
LEMMA InitialBoot == ASSUME BootInit PROVE BootInv
<1> DEFINE O == {p \in EP : endpoint[p] = "open"}
<1>1. O = {}
  BY DEF BootInit
<1>2. FdsUsed <= FdMax
  <2>1. lost + Cardinality(O) = 0
    BY <1>1, FS_EmptySet DEF BootInit
  <2> QED BY <2>1, BootAssumption DEF FdsUsed
<1> QED BY <1>2 DEF BootInit, BootInv, StartTypeOK, OwnEndpoints, FailedStaysQuiet,
                    Idle, Socket, EP

LEMMA GotoInvariant ==
    ASSUME BootInv, NEW from, NEW to, Goto(from, to),
           from \subseteq {"start", "resolve", "failed"},
           to \in {"resolve", "internet", "failed", "loop"}
    PROVE  BootInv'
<1>1. bootPc \in {"start", "resolve", "failed"} /\ Idle
  BY DEF Goto, BootInv
<1>2. UNCHANGED <<mRemoteFd, mLocalFd, machineVars, nameService, loopVars>> /\ bootPc' = to
  BY DEF Goto
<1>3. StartTypeOK'
  BY <1>2 DEF BootInv, StartTypeOK, FdsUsed, machineVars
<1>4. OwnEndpoints'
  BY <1>1, <1>2 DEF BootInv, OwnEndpoints, machineVars
<1>5. Idle'
  BY <1>1, <1>2 DEF Idle, loopVars
<1>6. FailedStaysQuiet'
  BY <1>5 DEF Idle, FailedStaysQuiet
<1> QED BY <1>2, <1>3, <1>4, <1>5, <1>6 DEF BootInv

\* The two steps that open an endpoint.
LEMMA EndpointInvariant ==
    ASSUME BootInv, NEW p \in EP, DTPLink_GetLocalEndpoint(p)
    PROVE  /\ endpoint' \in [EP -> Socket]
           /\ owner' \in [EP -> {"nobody", "self", "other"}]
           /\ lost' \in Nat
           /\ FdsUsed' <= FdMax
           /\ \A q \in EP : endpoint'[q] = "open" <=> owner'[q] = "self"
           /\ \A q \in EP \ {p} : endpoint'[q] = endpoint[q] /\ owner'[q] = owner[q]
<1>1. CASE endpoint[p] = "INVALID_SOCKET"
  <2>1. owner[p] # "self" /\ DTPLink_OpenPort(p) /\ StartTypeOK
    BY <1>1 DEF DTPLink_GetLocalEndpoint, BootInv, OwnEndpoints
  <2>2. /\ endpoint' \in [EP -> Socket]
        /\ owner' \in [EP -> {"nobody", "self", "other"}]
        /\ lost' \in Nat
        /\ FdsUsed' <= FdMax
        /\ endpoint'[p] = "open" <=> owner'[p] = "self"
        /\ \A q \in EP \ {p} : endpoint'[q] = endpoint[q] /\ owner'[q] = owner[q]
    BY <1>1, <2>1, OpenPort
  <2> QED BY <2>2 DEF BootInv, OwnEndpoints
<1>2. CASE endpoint[p] # "INVALID_SOCKET"
  BY <1>2 DEF DTPLink_GetLocalEndpoint, BootInv, OwnEndpoints, StartTypeOK,
              machineVars, FdsUsed
<1> QED BY <1>1, <1>2

LEMMA OpenInvariant ==
    ASSUME BootInv, OpenInternet \/ OpenIntranet
    PROVE  BootInv'
<1>1. CASE OpenInternet
  <2>1. /\ endpoint' \in [EP -> Socket]
        /\ owner' \in [EP -> {"nobody", "self", "other"}]
        /\ lost' \in Nat
        /\ FdsUsed' <= FdMax
        /\ \A q \in EP : endpoint'[q] = "open" <=> owner'[q] = "self"
        /\ owner'["INTRANET_EP"] = owner["INTRANET_EP"]
    BY <1>1, EndpointInvariant DEF OpenInternet, EP
  <2>2. Idle /\ Idle'
    BY <1>1 DEF OpenInternet, BootInv, Idle, loopVars
  <2>3. StartTypeOK'
    BY <1>1, <2>1 DEF OpenInternet, BootInv, StartTypeOK, EP
  <2>4. OwnEndpoints'
    BY <1>1, <2>1 DEF OpenInternet, BootInv, OwnEndpoints, EP
  <2>5. FailedStaysQuiet'
    BY <2>2 DEF Idle, FailedStaysQuiet
  <2> QED BY <1>1, <2>2, <2>3, <2>4, <2>5 DEF OpenInternet, BootInv
<1>2. CASE OpenIntranet
  <2>1. /\ endpoint' \in [EP -> Socket]
        /\ owner' \in [EP -> {"nobody", "self", "other"}]
        /\ lost' \in Nat
        /\ FdsUsed' <= FdMax
        /\ \A q \in EP : endpoint'[q] = "open" <=> owner'[q] = "self"
        /\ owner'["INTERNET_EP"] = owner["INTERNET_EP"]
        /\ endpoint'["INTERNET_EP"] = endpoint["INTERNET_EP"]
    BY <1>2, EndpointInvariant DEF OpenIntranet, EP
  <2>2. Idle /\ Idle'
    BY <1>2 DEF OpenIntranet, BootInv, Idle, D!ResetAllRetryCounts
  <2>3. mRemoteFd \in Socket /\ mLocalFd' \in Socket /\ mRemoteFd' = mRemoteFd
    BY <1>2, <2>1 DEF OpenIntranet, BootInv, StartTypeOK, EP
  <2>4. StartTypeOK'
    BY <1>2, <2>1, <2>3 DEF OpenIntranet, BootInv, StartTypeOK
  <2>5. OwnEndpoints'
    BY <1>2, <2>1, <2>3 DEF OpenIntranet, BootInv, OwnEndpoints, EP
  <2>6. FailedStaysQuiet'
    BY <2>2 DEF Idle, FailedStaysQuiet
  <2>7. bootPc' = "ping" => mRemoteFd' = "open" /\ mLocalFd' = "open"
    BY <1>2, <2>3 DEF OpenIntranet, Socket
  <2>8. bootPc' # "intranet" /\ bootPc' # "loop"
    BY <1>2 DEF OpenIntranet
  <2> QED BY <2>2, <2>4, <2>5, <2>6, <2>7, <2>8 DEF BootInv
<1> QED BY <1>1, <1>2

\* The loop of a server that lacks an endpoint only counts.
LEMMA QuietLoop ==
    ASSUME BootInv, Loop, mRemoteFd # "open" \/ mLocalFd # "open"
    PROVE  status' = "STARTUP" /\ outNet' = {} /\ heartbeats' = <<>>
<1>1. status = "STARTUP" /\ outNet = {} /\ heartbeats = <<>>
  BY DEF BootInv, FailedStaysQuiet
<1>2. CASE D!PollEmpty
  BY <1>1, <1>2 DEF D!PollEmpty, D!GiveUpPhase1, D!GiveUpPhase23, D!GiveUpDNS,
       D!Retransmit, D!KeepPolling, D!Waiting
<1>3. ASSUME NEW d \in Inbound, D!Recv(d)
      PROVE  status' = "STARTUP" /\ outNet' = {} /\ heartbeats' = <<>>
  BY <1>1, <1>3 DEF D!Recv, D!OnCenterServerResponse, D!OnCenterServerResponse2,
       D!OnAuxServerResponse, D!OnDSRegisterResponse, D!ProcessClientRequests,
       D!IgnoreDatagram
<1>4. CASE D!HeartBeat
  <2>1. DOMAIN heartbeats = {}
    BY <1>1
  <2> QED BY <1>4, <2>1 DEF D!HeartBeat
<1>5. CASE D!OutNetDrained
  BY <1>1, <1>5 DEF D!OutNetDrained
<1> QED BY <1>2, <1>3, <1>4, <1>5 DEF Loop, D!DSLoop

\* Before the loop there is no keep-alive thread and nothing to drain.
LEMMA LoopOnlyLater == ASSUME BootInv, Loop PROVE bootPc = "loop"
<1>1. SUFFICES ASSUME bootPc # "loop" PROVE FALSE
  OBVIOUS
<1>2. heartbeats = <<>> /\ outNet = {}
  BY <1>1 DEF BootInv, Idle
<1>3. ~D!PollEmpty
  BY <1>1 DEF D!PollEmpty
<1>4. ASSUME NEW d \in Inbound PROVE ~D!Recv(d)
  BY <1>1 DEF D!Recv
<1>5. ~D!HeartBeat
  <2>1. DOMAIN heartbeats = {}
    BY <1>2
  <2> QED BY <2>1 DEF D!HeartBeat
<1>6. ~D!OutNetDrained
  BY <1>2 DEF D!OutNetDrained
<1> QED BY <1>3, <1>4, <1>5, <1>6 DEF Loop, D!DSLoop

LEMMA LoopInvariant == ASSUME BootInv, Loop PROVE BootInv'
<1>1. bootPc = "loop"
  BY LoopOnlyLater
<1>2. UNCHANGED <<bootPc, mRemoteFd, mLocalFd, machineVars, nameService>>
  BY DEF Loop
<1>3. StartTypeOK'
  BY <1>2 DEF BootInv, StartTypeOK, FdsUsed, machineVars
<1>4. OwnEndpoints'
  BY <1>2 DEF BootInv, OwnEndpoints, machineVars
<1>5. FailedStaysQuiet'
  BY <1>2, QuietLoop DEF FailedStaysQuiet
<1> QED BY <1>1, <1>2, <1>3, <1>4, <1>5 DEF BootInv

LEMMA CrashInvariant == ASSUME BootInv, ResolveCrashes PROVE BootInv'
<1> DEFINE P == {p \in EP : endpoint'[p] = "open"}
<1>1. P = {}
  BY DEF ResolveCrashes
<1>2. FdsUsed' <= FdMax
  <2>1. lost' + Cardinality(P) = 0
    BY <1>1, FS_EmptySet DEF ResolveCrashes
  <2> QED BY <2>1, BootAssumption DEF FdsUsed
<1>3. StartTypeOK'
  BY <1>2 DEF ResolveCrashes, BootInv, StartTypeOK, Socket
<1>4. OwnEndpoints'
  BY DEF ResolveCrashes, BootInv, StartTypeOK, OwnEndpoints
<1>5. Idle /\ Idle'
  BY DEF ResolveCrashes, BootInv, Idle, loopVars
<1>6. FailedStaysQuiet'
  BY <1>5 DEF Idle, FailedStaysQuiet
<1> QED BY <1>3, <1>4, <1>5, <1>6 DEF ResolveCrashes, BootInv

LEMMA PingInvariant == ASSUME BootInv, Ping PROVE BootInv'
<1>1. mRemoteFd = "open" /\ mLocalFd = "open" /\ UNCHANGED <<mRemoteFd, mLocalFd>>
  BY DEF Ping, BootInv
<1>2. StartTypeOK'
  BY DEF Ping, BootInv, StartTypeOK, FdsUsed, machineVars
<1>3. OwnEndpoints'
  BY DEF Ping, BootInv, OwnEndpoints, machineVars
<1>4. FailedStaysQuiet'
  BY <1>1 DEF FailedStaysQuiet
<1> QED BY <1>2, <1>3, <1>4 DEF Ping, BootInv

\* Other processes only take and release ports this one has not bound.
LEMMA MachineInvariant == ASSUME BootInv, Machine PROVE BootInv'
<1>1. UNCHANGED <<bootPc, mRemoteFd, mLocalFd, endpoint, lost, loopVars>>
  BY DEF Machine
<1>2. /\ owner' \in [EP -> {"nobody", "self", "other"}]
      /\ nameService' \in {"address", "zero", "failed"}
  BY DEF Machine, OtherTakesPort, OtherReleasesPort, BootInv, StartTypeOK
<1>3. ASSUME NEW p \in EP PROVE owner'[p] = "self" <=> owner[p] = "self"
  BY DEF Machine, OtherTakesPort, OtherReleasesPort, BootInv, StartTypeOK
<1>4. StartTypeOK'
  BY <1>1, <1>2 DEF BootInv, StartTypeOK, FdsUsed
<1>5. OwnEndpoints'
  BY <1>1, <1>3 DEF BootInv, OwnEndpoints, EP
<1>6. FailedStaysQuiet'
  BY <1>1 DEF BootInv, FailedStaysQuiet, loopVars
<1>7. bootPc # "loop" => Idle'
  BY <1>1 DEF BootInv, Idle, loopVars
<1> QED BY <1>1, <1>4, <1>5, <1>6, <1>7 DEF BootInv

LEMMA StartInvariant == ASSUME BootInv, Start PROVE BootInv'
<1>1. CASE InitNetworkFails
  BY <1>1, GotoInvariant DEF InitNetworkFails
<1>2. CASE RefuseName
  BY <1>2, GotoInvariant DEF RefuseName
<1>3. CASE AcceptName
  BY <1>3, GotoInvariant DEF AcceptName
<1>4. CASE Resolve
  BY <1>4, GotoInvariant DEF Resolve
<1>5. CASE ResolvesToZero
  BY <1>5, GotoInvariant DEF ResolvesToZero
<1>6. CASE EnterLoopAnyway
  BY <1>6, GotoInvariant DEF EnterLoopAnyway
<1> QED BY <1>1, <1>2, <1>3, <1>4, <1>5, <1>6, CrashInvariant, OpenInvariant,
          PingInvariant DEF Start

LEMMA StutterInvariant == ASSUME BootInv, UNCHANGED bootVars PROVE BootInv'
<1>1. /\ UNCHANGED <<bootPc, mRemoteFd, mLocalFd, endpoint, owner, lost, nameService>>
      /\ UNCHANGED <<status, mode, recvRetry, sendRetry, heartbeats, outNet>>
  BY DEF bootVars, machineVars, loopVars
<1>2. StartTypeOK'
  BY <1>1 DEF BootInv, StartTypeOK, FdsUsed
<1> QED BY <1>1, <1>2 DEF BootInv, OwnEndpoints, FailedStaysQuiet, Idle

\* The invariant holds throughout start-up and in the loop it leads to.
THEOREM BootInvariance == BootSpec => []BootInv
<1>1. BootInv /\ [BootNext]_bootVars => BootInv'
  BY StartInvariant, LoopInvariant, MachineInvariant, StutterInvariant DEF BootNext
<1> QED BY InitialBoot, <1>1, PTL DEF BootSpec

\* The steps of start-up keep the types of its variables, and the process never
\* holds more descriptors than it may (InitDSContext, DTPLink_OpenPort).
THEOREM BootTypeCorrect == BootSpec => []BootTypeOK
<1>1. ASSUME BootInv PROVE lost \in 0 .. FdMax
  <2> DEFINE O == {p \in EP : endpoint[p] = "open"}
  <2>1. /\ lost \in Nat /\ FdMax \in Nat /\ Cardinality(O) \in Nat
        /\ lost + Cardinality(O) <= FdMax
    BY <1>1, Open, BootAssumption DEF BootInv, StartTypeOK, FdsUsed
  <2> HIDE DEF O
  <2> QED BY <2>1
<1>2. BootInv => BootTypeOK
  BY <1>1 DEF BootInv, StartTypeOK, BootTypeOK, Socket
<1> QED BY BootInvariance, <1>2, PTL

\* The cached endpoints are the ports this process has bound, over any number
\* of start-ups (the two static variables of DTPLink_GetLocalEndpoint).
THEOREM EndpointsAreOwn == BootSpec => []OwnEndpoints
<1>1. BootInv => OwnEndpoints
  BY DEF BootInv
<1> QED BY BootInvariance, <1>1, PTL

\* A server without both endpoints sends nothing and never gets online, although
\* main enters the loop all the same.
THEOREM FailedStartIsQuiet == BootSpec => []FailedStaysQuiet
<1>1. BootInv => FailedStaysQuiet
  BY DEF BootInv
<1> QED BY BootInvariance, <1>1, PTL
-----------------------------------------------------------------------------
(***************************************************************************)
(* A start-up that finds the machine usable succeeds.                      *)
(***************************************************************************)

\* While an endpoint is missing, a usable machine has a descriptor for it.
LEMMA DescriptorLeft ==
    ASSUME BootInv, Usable, NEW p \in EP, endpoint[p] # "open"
    PROVE  FdsUsed < FdMax
<1> DEFINE O == {q \in EP : endpoint[q] = "open"}
<1>1. PICK r \in EP : EP \ {p} = {r}
  BY DEF EP
<1>2. O \subseteq {r}
  BY <1>1
<1>3. IsFiniteSet({r}) /\ Cardinality({r}) = 1
  BY FS_Singleton
<1>4. Cardinality(O) <= 1
  <2> HIDE DEF O
  <2> QED
    BY <1>2, <1>3, FS_Subset
<1>5. Cardinality(O) \in Nat /\ lost \in Nat /\ FdMax \in Nat
  BY Open, BootAssumption DEF BootInv, StartTypeOK
<1>6. lost + 2 <= FdMax
  BY DEF Usable
<1>7. lost + Cardinality(O) < FdMax
  <2> HIDE DEF O
  <2> QED
    BY <1>4, <1>5, <1>6
<1> QED
  BY <1>7 DEF FdsUsed

\* So the endpoint it asks for is there afterwards, cached or opened now.
LEMMA EndpointObtained ==
    ASSUME BootInv, Usable, NEW p \in EP, DTPLink_GetLocalEndpoint(p)
    PROVE  endpoint'[p] = "open"
<1>1. CASE endpoint[p] = "open"
  BY <1>1 DEF DTPLink_GetLocalEndpoint, machineVars
<1>2. CASE endpoint[p] # "open"
  <2>1. endpoint[p] = "INVALID_SOCKET" /\ endpoint \in [EP -> Socket]
    BY <1>2 DEF BootInv, StartTypeOK, Socket
  <2>2. owner[p] = "nobody"
    <3>1. owner[p] \in {"nobody", "self", "other"}
      BY DEF BootInv, StartTypeOK
    <3> QED
      BY <1>2, <3>1 DEF Usable, BootInv, OwnEndpoints
  <2>3. FdsUsed < FdMax
    BY <1>2, DescriptorLeft
  <2>4. FdsUsed \in Int /\ FdMax \in Int
    BY Open, BootAssumption DEF FdsUsed, BootInv, StartTypeOK
  <2>5. FdsUsed # FdMax
    BY <2>3, <2>4
  <2> QED
    BY <2>1, <2>2, <2>5 DEF DTPLink_GetLocalEndpoint, DTPLink_OpenPort
<1> QED
  BY <1>1, <1>2

LEMMA UsableStep ==
    ASSUME BootInv, OnItsWay, Usable, [BootNext]_bootVars
    PROVE  OnItsWay' \/ bootPc' = "loop"
<1>1. CASE OpenInternet
  <2>1. endpoint'["INTERNET_EP"] = "open"
    BY <1>1, EndpointObtained DEF OpenInternet, EP
  <2> QED
    BY <1>1, <2>1 DEF OpenInternet, OnItsWay
<1>2. CASE OpenIntranet
  <2>1. endpoint'["INTRANET_EP"] = "open"
    BY <1>2, EndpointObtained DEF OpenIntranet, EP
  <2>2. bootPc' = "ping"
    BY <1>2, <2>1 DEF OpenIntranet, OnItsWay
  <2> QED
    BY <2>2 DEF OnItsWay
<1>3. CASE Resolve \/ Ping
  BY <1>3 DEF Resolve, Ping, Goto, OnItsWay
<1>4. CASE InitNetworkFails \/ RefuseName \/ AcceptName \/ EnterLoopAnyway
           \/ ResolvesToZero \/ ResolveCrashes
  BY <1>4
     DEF InitNetworkFails, RefuseName, AcceptName, EnterLoopAnyway, ResolvesToZero,
         ResolveCrashes, Goto, OnItsWay, Usable
<1>5. CASE Loop \/ Machine \/ UNCHANGED bootVars
  BY <1>5 DEF Loop, Machine, bootVars, OnItsWay
<1> QED
  BY <1>1, <1>2, <1>3, <1>4, <1>5 DEF BootNext, Start

\* Earlier failures do no harm but for the descriptors they cost: an attempt that
\* finds the machine usable gets through (the caches of DTPLink_GetLocalEndpoint).
THEOREM UsableStartSucceeds == BootSpec => UsableAttemptSucceeds
<1>1. BootInv /\ [BootNext]_bootVars =>
        [OnItsWay /\ Usable => OnItsWay' \/ bootPc' = "loop"]_bootVars
  BY UsableStep
<1> QED
  BY <1>1, BootInvariance, PTL DEF BootSpec, UsableAttemptSucceeds
-----------------------------------------------------------------------------
(***************************************************************************)
(* Every step of start-up is one of DeviceServer, or none.                 *)
(***************************************************************************)
LEMMA InitialRefines == ASSUME BootInit PROVE D!DSInitial
BY DEF BootInit, D!DSInitial, NoPublicAddr, D!NoPublicAddr

\* A step that does not touch the loop's context and stays before the loop.
LEMMA QuietStepRefines ==
    ASSUME bootPc # "loop", bootPc' # "loop", UNCHANGED loopVars
    PROVE  UNCHANGED D!dsVars
BY DEF D!dsVars, loopVars

LEMMA StartRefines == ASSUME BootInv, Start PROVE [D!DSNext]_(D!dsVars)
<1>1. CASE InitNetworkFails \/ RefuseName \/ AcceptName \/ Resolve \/ ResolvesToZero
  <2>1. bootPc # "loop" /\ bootPc' # "loop" /\ UNCHANGED loopVars
    BY <1>1 DEF InitNetworkFails, RefuseName, AcceptName, Resolve, ResolvesToZero, Goto
  <2> QED BY <2>1, QuietStepRefines
<1>2. CASE ResolveCrashes
  <2>1. bootPc # "loop" /\ bootPc' # "loop" /\ UNCHANGED loopVars
    BY <1>2 DEF ResolveCrashes
  <2> QED BY <2>1, QuietStepRefines
<1>3. CASE OpenInternet
  <2>1. bootPc # "loop" /\ bootPc' # "loop" /\ UNCHANGED loopVars
    BY <1>3 DEF OpenInternet
  <2> QED BY <2>1, QuietStepRefines
<1>4. CASE OpenIntranet
  <2>1. Idle /\ bootPc # "loop" /\ bootPc' # "loop"
    BY <1>4 DEF OpenIntranet, BootInv
  <2>2. UNCHANGED loopVars
    BY <1>4, <2>1 DEF OpenIntranet, Idle, loopVars, D!ResetAllRetryCounts
  <2> QED BY <2>1, <2>2, QuietStepRefines
<1>5. CASE Ping
  <2>1. Idle /\ bootPc = "ping" /\ mRemoteFd = "open" /\ bootPc' = "loop"
    BY <1>5 DEF Ping, BootInv
  <2>2. D!DSInit
    BY <1>5, <2>1 DEF Ping, D!DSInit, Idle, D!ResetAllRetryCounts
  <2> QED BY <2>2 DEF D!DSNext
<1>6. CASE EnterLoopAnyway
  <2>1. bootPc = "failed" /\ bootPc' = "loop" /\ UNCHANGED loopVars
    BY <1>6 DEF EnterLoopAnyway, Goto
  <2>2. D!DSInitFails
    BY <2>1 DEF D!DSInitFails, loopVars
  <2> QED BY <2>2 DEF D!DSNext
<1> QED BY <1>1, <1>2, <1>3, <1>4, <1>5, <1>6 DEF Start

LEMMA StepRefines == ASSUME BootInv, [BootNext]_bootVars PROVE [D!DSNext]_(D!dsVars)
<1>1. CASE Start
  BY <1>1, StartRefines
<1>2. CASE Loop
  BY <1>2 DEF Loop, D!DSNext
<1>3. CASE Machine
  BY <1>3 DEF Machine, loopVars, D!dsVars
<1>4. CASE UNCHANGED bootVars
  BY <1>4 DEF bootVars, loopVars, D!dsVars
<1> QED BY <1>1, <1>2, <1>3, <1>4 DEF BootNext

\* Start-up in all its steps, failures and repetitions is the single step
\* DeviceServer takes for it, so what is proved of DeviceServer holds of a
\* server however it was started.
THEOREM DeviceServerImplemented == BootSpec => ImplementsDeviceServer
<1>1. BootInit => D!DSInitial
  BY InitialRefines
<1>2. BootInv /\ [BootNext]_bootVars => [D!DSNext]_(D!dsVars)
  BY StepRefines
<1> QED BY <1>1, <1>2, BootInvariance, PTL DEF BootSpec, ImplementsDeviceServer, D!DSSpec
-----------------------------------------------------------------------------
(***************************************************************************)
(* What is proved of DeviceServer holds of a server however it was         *)
(* started.  The theorems come with the instance Server of their module,   *)
(* which gives every definition of DeviceServer a second name; that both   *)
(* names mean the same is what the next lemmas say.                        *)
(***************************************************************************)
Server == INSTANCE DeviceServerProofs WITH
    pc <- IF bootPc = "loop" THEN "loop" ELSE "init",
    remoteFd <- bootPc = "loop" /\ mRemoteFd = "open"

\* The assumptions of DeviceServer, which its theorems rest on, are those of Boot.
LEMMA ServerAssumptionsHold ==
    /\ NoHost \in Host /\ RelayHost \in Host /\ NoHost # RelayHost
    /\ Inbound \subseteq Server!InDatagram
    /\ CenterServer \in Server!Endpoint /\ Unset \notin Server!Endpoint
    /\ RecvRetryMax \in Nat \ {0} /\ SendRetryMax \in Nat /\ CounterMod \in Nat
    /\ RecvRetryMax < CounterMod /\ SendRetryMax < CounterMod
<1>1. Server!InDatagram = InDatagram /\ Server!Endpoint = Endpoint
  BY DEF Server!InDatagram, InDatagram, Server!Endpoint, Endpoint, Server!Port, Port,
         Server!Command, Command
<1> QED
  BY <1>1, HostAssumption, ServerAssumption

LEMMA SameVocabulary ==
    /\ D!NoPublicAddr = Server!NoPublicAddr /\ D!RelayAddr = Server!RelayAddr
    /\ \A ep : D!NextPort(ep) = Server!NextPort(ep) /\ D!PrevPort(ep) = Server!PrevPort(ep)
    /\ \A c, ep : D!Msg(c, ep) = Server!Msg(c, ep)
    /\ \A ep, f : D!RegisterMsg(ep, f) = Server!RegisterMsg(ep, f)
    /\ \A c, ep, cl : D!RelayMsg(c, ep, cl) = Server!RelayMsg(c, ep, cl)
    /\ \A m : D!ModeFlag(m) = Server!ModeFlag(m)
    /\ \A ip : D!MappedMode(ip) = Server!MappedMode(ip)
    /\ D!Waiting = Server!Waiting
BY DEF D!NoPublicAddr, Server!NoPublicAddr, D!RelayAddr, Server!RelayAddr, D!NextPort,
       Server!NextPort, D!PrevPort, Server!PrevPort, D!Wrap16, Server!Wrap16, D!Msg,
       Server!Msg, D!RegisterMsg, Server!RegisterMsg, D!RelayMsg, Server!RelayMsg,
       D!ModeFlag, Server!ModeFlag, D!MappedMode, Server!MappedMode, D!Waiting,
       Server!Waiting, D!DS_STATUS, Server!DS_STATUS

LEMMA SameHelpers ==
    /\ D!PingCenterServer = Server!PingCenterServer
    /\ D!PingCenterServerAgain = Server!PingCenterServerAgain
    /\ D!PingAuxServer = Server!PingAuxServer
    /\ \A m : D!RegisterDS(m) = Server!RegisterDS(m)
    /\ \A ip : D!SetMappedIPAddress(ip) = Server!SetMappedIPAddress(ip)
    /\ D!ResetAllRetryCounts = Server!ResetAllRetryCounts
    /\ D!SendBudgetSpent = Server!SendBudgetSpent
    /\ D!RecvRetryBumped = Server!RecvRetryBumped
BY SameVocabulary
   DEF D!PingCenterServer, Server!PingCenterServer, D!PingCenterServerAgain,
       Server!PingCenterServerAgain, D!PingAuxServer, Server!PingAuxServer, D!RegisterDS,
       Server!RegisterDS, D!SetMappedIPAddress, Server!SetMappedIPAddress,
       D!ResetAllRetryCounts, Server!ResetAllRetryCounts, D!SendBudgetSpent,
       Server!SendBudgetSpent, D!RecvRetryBumped, Server!RecvRetryBumped, D!Send,
       Server!Send

LEMMA SameRecv == \A d : D!Recv(d) = Server!Recv(d)
<1>1. \A d : D!Replies(d) = Server!Replies(d)
  BY SameVocabulary DEF D!Replies, Server!Replies
<1> QED
  BY <1>1, SameVocabulary, SameHelpers
     DEF D!Recv, Server!Recv, D!OnCenterServerResponse, Server!OnCenterServerResponse,
         D!OnCenterServerResponse2, Server!OnCenterServerResponse2,
         D!OnAuxServerResponse, Server!OnAuxServerResponse, D!OnDSRegisterResponse,
         Server!OnDSRegisterResponse, D!ProcessClientRequests,
         Server!ProcessClientRequests, D!IgnoreDatagram, Server!IgnoreDatagram,
         D!IsAnswer, Server!IsAnswer, D!Send, Server!Send, D!StartKeepAlive,
         Server!StartKeepAlive

LEMMA SamePoll == D!PollEmpty = Server!PollEmpty
BY SameVocabulary, SameHelpers
   DEF D!PollEmpty, Server!PollEmpty, D!GiveUpPhase1, Server!GiveUpPhase1,
       D!GiveUpPhase23, Server!GiveUpPhase23, D!GiveUpDNS, Server!GiveUpDNS,
       D!Retransmit, Server!Retransmit, D!KeepPolling, Server!KeepPolling

LEMMA SameBeat ==
    D!HeartBeat = Server!HeartBeat /\ D!OutNetDrained = Server!OutNetDrained
BY SameVocabulary
   DEF D!HeartBeat, Server!HeartBeat, D!HeartBeatCompose, Server!HeartBeatCompose,
       D!HeartBeatSend, Server!HeartBeatSend, D!Send, Server!Send, D!OutNetDrained,
       Server!OutNetDrained

LEMMA SameServer == D!DSSpec => Server!DSSpec
<1>1. D!DSInitial => Server!DSInitial
  BY SameVocabulary DEF D!DSInitial, Server!DSInitial
<1>2. [D!DSNext]_(D!dsVars) => [Server!DSNext]_(Server!dsVars)
  BY SameRecv, SamePoll, SameBeat, SameHelpers
     DEF D!DSNext, Server!DSNext, D!DSInit, Server!DSInit, D!DSInitFails,
         Server!DSInitFails, D!DSLoop, Server!DSLoop, D!dsVars, Server!dsVars
<1> QED
  BY <1>1, <1>2, PTL DEF D!DSSpec, Server!DSSpec

\* However often start-up failed before it succeeded, and also when it never did,
\* the loop that main enters keeps the invariants of the device server.
THEOREM BootedServerSafe ==
    BootSpec => [](/\ D!TypeOK /\ D!RetryBudget /\ D!OneHeartbeat
                   /\ D!ProbedBeforeCompared /\ D!ModeMatchesAddress
                   /\ D!HeartbeatTellsMode)
<1>1. Server!DSSpec => [](Server!IInv /\ Server!HeartbeatTellsMode)
  <2>1. Server!DSSpec => []Server!IInv
    BY Server!Invariance, ServerAssumptionsHold
  <2>2. Server!DSSpec => []Server!HeartbeatTellsMode
    BY Server!HeartbeatTruthful, ServerAssumptionsHold
  <2> QED
    BY <2>1, <2>2, PTL
<1>2. Server!IInv => /\ D!TypeOK /\ D!RetryBudget /\ D!OneHeartbeat
                     /\ D!ProbedBeforeCompared /\ D!ModeMatchesAddress
  <2>1. Server!TypeOK => D!TypeOK
    <3>1. /\ D!DS_STATUS = Server!DS_STATUS
          /\ D!RunningMode = Server!RunningMode
      BY DEF D!DS_STATUS, Server!DS_STATUS, D!RunningMode, Server!RunningMode
    <3>2. D!Endpoint = Server!Endpoint
      BY DEF D!Endpoint, Server!Endpoint, D!Port, Server!Port
    <3>3. D!OutDatagram = Server!OutDatagram
      BY <3>2, Zenon DEF D!OutDatagram, Server!OutDatagram, D!Command, Server!Command
    <3> QED
      BY <3>1, <3>2, <3>3, Zenon DEF D!TypeOK, Server!TypeOK
  <2>2. Server!RetryBudget => D!RetryBudget
    BY SameVocabulary, Zenon DEF D!RetryBudget, Server!RetryBudget
  <2>3. Server!OneHeartbeat => D!OneHeartbeat
    BY Zenon DEF D!OneHeartbeat, Server!OneHeartbeat
  <2>4. Server!ProbedBeforeCompared => D!ProbedBeforeCompared
    BY Zenon DEF D!ProbedBeforeCompared, Server!ProbedBeforeCompared
  <2>5. Server!ModeMatchesAddress => D!ModeMatchesAddress
    BY SameVocabulary, Zenon DEF D!ModeMatchesAddress, Server!ModeMatchesAddress
  <2> QED
    BY <2>1, <2>2, <2>3, <2>4, <2>5, Zenon DEF Server!IInv
<1>3. Server!HeartbeatTellsMode => D!HeartbeatTellsMode
  BY SameVocabulary DEF Server!HeartbeatTellsMode, D!HeartbeatTellsMode
<1> QED
  BY <1>1, <1>2, <1>3, DeviceServerImplemented, SameServer, PTL
     DEF ImplementsDeviceServer

\* And it lives the life cycle: a start-up that failed leaves the server idle, one
\* that succeeded leads through probing and registration to online, for good.
THEOREM BootedLifecycle == BootSpec => D!ImplementsLifecycle
<1>1. Server!DSSpec => Server!ImplementsLifecycle
  BY Server!LifecycleImplemented, ServerAssumptionsHold
<1>2. Server!Life!LifeInit => D!Life!LifeInit
  BY DEF Server!Life!LifeInit, D!Life!LifeInit, D!Stage, Server!Stage
<1>3. [Server!Life!LifeNext]_(Server!Life!lifeVars)
        => [D!Life!LifeNext]_(D!Life!lifeVars)
  BY DEF Server!Life!LifeNext, D!Life!LifeNext, Server!Life!lifeVars, D!Life!lifeVars,
         D!Stage, Server!Stage, Server!Life!StartProbing, D!Life!StartProbing,
         Server!Life!Decide, D!Life!Decide, Server!Life!GoLocal, D!Life!GoLocal,
         Server!Life!GoOnline, D!Life!GoOnline
<1>4. Server!ImplementsLifecycle => D!ImplementsLifecycle
  BY <1>2, <1>3, PTL
     DEF Server!ImplementsLifecycle, D!ImplementsLifecycle, Server!Life!LifeSpec,
         D!Life!LifeSpec
<1> QED
  BY <1>1, <1>4, DeviceServerImplemented, SameServer, PTL DEF ImplementsDeviceServer

\* Iterations of the loop use up its budget of polls too, and once online it stays
\* as it is, whatever start-up had to be repeated before.
THEOREM BootedProgress == BootSpec => D!EmptyPollsRunOut /\ D!OnlineIsSettled
<1>1. Server!DSSpec => Server!EmptyPollsRunOut /\ Server!OnlineIsSettled
  BY Server!PollsRunOut, Server!OnlineSettled, ServerAssumptionsHold
<1>2. D!dsVars = Server!dsVars
  BY DEF D!dsVars, Server!dsVars
<1>3. D!dsVars' = Server!dsVars'
  BY DEF D!dsVars, Server!dsVars
<1>4. /\ D!PollsToOnline = Server!PollsToOnline
      /\ D!PollsToOnline' = Server!PollsToOnline'
  BY DEF D!PollsToOnline, Server!PollsToOnline, D!PollsLeft, Server!PollsLeft,
         D!PhasePolls, Server!PhasePolls, D!StatusRank, Server!StatusRank
<1>5. D!DSLoop = Server!DSLoop
  BY SameRecv, SamePoll DEF D!DSLoop, Server!DSLoop
<1>6. D!Waiting = Server!Waiting
  BY SameVocabulary
<1>7. Server!EmptyPollsRunOut => D!EmptyPollsRunOut
  <2>1. [/\ Server!PollsToOnline' <= Server!PollsToOnline
         /\ status \in Server!Waiting /\ Server!DSLoop
              => Server!PollsToOnline' < Server!PollsToOnline]_(Server!dsVars)
          => [/\ D!PollsToOnline' <= D!PollsToOnline
              /\ status \in D!Waiting /\ D!DSLoop
                   => D!PollsToOnline' < D!PollsToOnline]_(D!dsVars)
    BY <1>2, <1>3, <1>4, <1>5, <1>6
  <2> QED
    BY <2>1, PTL DEF D!EmptyPollsRunOut, Server!EmptyPollsRunOut
<1>8. Server!OnlineIsSettled => D!OnlineIsSettled
  <2>1. [/\ Server!StatusRank(status') >= Server!StatusRank(status)
         /\ status = "ONLINE" =>
              /\ UNCHANGED <<mode, mIP>>
              /\ Len(heartbeats') = Len(heartbeats)]_(Server!dsVars)
          => [/\ D!StatusRank(status') >= D!StatusRank(status)
              /\ status = "ONLINE" =>
                   /\ UNCHANGED <<mode, mIP>>
                   /\ Len(heartbeats') = Len(heartbeats)]_(D!dsVars)
    BY <1>2, <1>3 DEF D!StatusRank, Server!StatusRank
  <2> QED
    BY <2>1, PTL DEF D!OnlineIsSettled, Server!OnlineIsSettled
<1> QED
  BY <1>1, <1>7, <1>8, DeviceServerImplemented, SameServer, PTL
     DEF ImplementsDeviceServer
=============================================================================
