------------------------------- MODULE Boot -------------------------------
(***************************************************************************)
(* Start-up: DTPLink_DSInit step by step, on a machine whose name service, *)
(* UDP ports and descriptors it shares with others, until the loop of      *)
(* DeviceServer is entered.  ds.c enters it whatever DTPLink_DSInit        *)
(* returned; an application that looks at the result may try again, which  *)
(* is what the cached endpoints of the network layer are for.              *)
(***************************************************************************)
EXTENDS DTPLink, Sequences, FiniteSets

CONSTANTS
    Inbound, CenterServer, Watched, Unset,      \* as in DeviceServer
    RecvRetryMax, SendRetryMax, CounterMod,
    Platform,       \* "linux" or "windows"
    NameLens,       \* the lengths of the names the application may pass
    MaxDsId,        \* MAX_DS_ID, 256
    FdMax           \* how many descriptors the process may still open

EP == {"INTERNET_EP", "INTRANET_EP"}

ASSUME ServerAssumption ==
    /\ Inbound \subseteq InDatagram
    /\ CenterServer \in Endpoint
    /\ Unset \notin Endpoint
    /\ RecvRetryMax \in Nat \ {0}
    /\ SendRetryMax \in Nat
    /\ CounterMod \in Nat
    /\ RecvRetryMax < CounterMod
    /\ SendRetryMax < CounterMod

ASSUME BootAssumption ==
    /\ Platform \in {"linux", "windows"}
    /\ NameLens \subseteq Nat
    /\ MaxDsId \in Nat
    /\ FdMax \in Nat

VARIABLES
    bootPc,         \* the next step of start-up, or where it ended
    endpoint,       \* the two static variables of DTPLink_GetLocalEndpoint
    mRemoteFd, mLocalFd,
    owner,          \* which process has bound the port of each endpoint
    lost,           \* descriptors of sockets nobody holds any more
    nameService,    \* what gethostbyname does: an address, 0.0.0.0, or NULL
    status, mode, mIP, mCS2, MIP1, recvRetry, sendRetry, punched, heartbeats,
    outNet

loopVars == <<status, mode, mIP, mCS2, MIP1, recvRetry, sendRetry, punched,
              heartbeats, outNet>>

machineVars == <<endpoint, owner, lost>>

bootVars == <<bootPc, mRemoteFd, mLocalFd, machineVars, nameService, loopVars>>

D == INSTANCE DeviceServer WITH
    pc <- IF bootPc = "loop" THEN "loop" ELSE "init",
    remoteFd <- bootPc = "loop" /\ mRemoteFd = "open"

\* The variables of start-up; those of the loop have DeviceServer's types, as
\* ImplementsDeviceServer says.  A socket variable of the context is zero, a
\* descriptor of something else, until it is assigned.
BootTypeOK ==
    /\ bootPc \in {"start", "resolve", "internet", "intranet", "ping", "failed",
                   "loop", "crashed"}
    /\ endpoint \in [EP -> {"open", "INVALID_SOCKET"}]
    /\ mRemoteFd \in {"zero", "open", "INVALID_SOCKET"}
    /\ mLocalFd \in {"zero", "open", "INVALID_SOCKET"}
    /\ owner \in [EP -> {"nobody", "self", "other"}]
    /\ lost \in 0 .. FdMax
    /\ nameService \in {"address", "zero", "failed"}

BootInit ==
    /\ bootPc = "start"
    /\ endpoint = [p \in EP |-> "INVALID_SOCKET"]
    /\ mRemoteFd = "zero"
    /\ mLocalFd = "zero"
    /\ owner \in [EP -> {"nobody", "other"}]
    /\ lost = 0
    /\ nameService \in {"address", "zero", "failed"}
    /\ status = "STARTUP"
    /\ mode = "REMOTE_DIRECT_MODE"
    /\ mIP = NoPublicAddr
    /\ mCS2 = NoPublicAddr
    /\ MIP1 = Unset
    /\ recvRetry = 0
    /\ sendRetry = 0
    /\ punched = {}
    /\ heartbeats = <<>>
    /\ outNet = {}
-----------------------------------------------------------------------------
(***************************************************************************)
(* DTPLink_InitNetwork and the checks of InitDSContext.                    *)
(***************************************************************************)
Goto(from, to) ==
    /\ bootPc \in from
    /\ bootPc' = to
    /\ UNCHANGED <<mRemoteFd, mLocalFd, machineVars, nameService, loopVars>>

InitNetworkFails == Platform = "windows" /\ Goto({"start", "failed"}, "failed")

NameFits(n) == n # 0 /\ n < MaxDsId

RefuseName ==
    /\ \E n \in NameLens : ~NameFits(n)
    /\ Goto({"start", "failed"}, "failed")

AcceptName ==
    /\ \E n \in NameLens : NameFits(n)
    /\ Goto({"start", "failed"}, "resolve")

Resolve == nameService = "address" /\ Goto({"resolve"}, "internet")

ResolvesToZero == nameService = "zero" /\ Goto({"resolve"}, "failed")

\* DTPLink_DNSResolve reads the address out of what gethostbyname returned,
\* also when that is NULL.  The process ends, its sockets are closed.
ResolveCrashes ==
    /\ bootPc = "resolve"
    /\ nameService = "failed"
    /\ bootPc' = "crashed"
    /\ endpoint' = [p \in EP |-> "INVALID_SOCKET"]
    /\ owner' = [p \in EP |-> IF owner[p] = "self" THEN "nobody" ELSE owner[p]]
    /\ lost' = 0
    /\ UNCHANGED <<mRemoteFd, mLocalFd, nameService, loopVars>>
-----------------------------------------------------------------------------
(***************************************************************************)
(* The endpoints.                                                          *)
(***************************************************************************)
\* Mutant: as if a socket that could not be bound were gone.
FdsUsedOpenOnly == Cardinality({p \in EP : endpoint[p] = "open"})

FdsUsed == lost + Cardinality({p \in EP : endpoint[p] = "open"})

\* A socket whose port cannot be bound is not closed.
DTPLink_OpenPort(p) ==
    \/ /\ FdsUsed = FdMax
       /\ endpoint' = [endpoint EXCEPT ![p] = "INVALID_SOCKET"]
       /\ UNCHANGED <<owner, lost>>
    \/ /\ FdsUsed < FdMax
       /\ owner[p] = "nobody"
       /\ endpoint' = [endpoint EXCEPT ![p] = "open"]
       /\ owner' = [owner EXCEPT ![p] = "self"]
       /\ UNCHANGED lost
    \/ /\ FdsUsed < FdMax
       /\ owner[p] # "nobody"
       /\ endpoint' = [endpoint EXCEPT ![p] = "INVALID_SOCKET"]
       /\ lost' = lost + 1
       /\ UNCHANGED owner

\* Mutant: every call opens the port.
DTPLink_GetLocalEndpointAlwaysOpens(p) == DTPLink_OpenPort(p)

\* Mutant: after a port could not be bound, none is opened any more.
DTPLink_GetLocalEndpointOnce(p) ==
    IF endpoint[p] = "INVALID_SOCKET" /\ lost = 0 THEN DTPLink_OpenPort(p)
    ELSE UNCHANGED machineVars

DTPLink_GetLocalEndpoint(p) ==
    IF endpoint[p] = "INVALID_SOCKET" THEN DTPLink_OpenPort(p)
    ELSE UNCHANGED machineVars

OpenInternet ==
    /\ bootPc = "internet"
    /\ DTPLink_GetLocalEndpoint("INTERNET_EP")
    /\ mRemoteFd' = endpoint'["INTERNET_EP"]
    /\ bootPc' = "intranet"
    /\ UNCHANGED <<mLocalFd, nameService, loopVars>>

\* Mutant: one of the two endpoints is enough.
OpenIntranetEither ==
    /\ bootPc = "intranet"
    /\ DTPLink_GetLocalEndpoint("INTRANET_EP")
    /\ mLocalFd' = endpoint'["INTRANET_EP"]
    /\ bootPc' = IF mRemoteFd = "INVALID_SOCKET" /\ mLocalFd' = "INVALID_SOCKET"
                 THEN "failed" ELSE "ping"
    /\ UNCHANGED <<mRemoteFd, nameService, loopVars>>

\* What InitDSContext then assigns to the context is what is there: nothing
\* has changed it since the program started.
OpenIntranet ==
    /\ bootPc = "intranet"
    /\ DTPLink_GetLocalEndpoint("INTRANET_EP")
    /\ mLocalFd' = endpoint'["INTRANET_EP"]
    /\ bootPc' = IF mRemoteFd = "INVALID_SOCKET" \/ mLocalFd' = "INVALID_SOCKET"
                 THEN "failed" ELSE "ping"
    /\ status' = IF bootPc' = "ping" THEN "STARTUP" ELSE status
    /\ mode' = IF bootPc' = "ping" THEN "REMOTE_DIRECT_MODE" ELSE mode
    /\ IF bootPc' = "ping" THEN D!ResetAllRetryCounts
       ELSE UNCHANGED <<recvRetry, sendRetry>>
    /\ UNCHANGED <<mRemoteFd, nameService, mIP, mCS2, MIP1, punched, heartbeats,
                   outNet>>

\* DTPLink_DSInit returns TRUE and the application enters the loop.
Ping ==
    /\ bootPc = "ping"
    /\ bootPc' = "loop"
    /\ D!PingCenterServer
    /\ UNCHANGED <<mRemoteFd, mLocalFd, machineVars, nameService, mode, mIP, mCS2,
                   MIP1, recvRetry, sendRetry, heartbeats>>

\* ds.c does not look at the result.
EnterLoopAnyway == Goto({"failed"}, "loop")
-----------------------------------------------------------------------------
Start ==
    \/ InitNetworkFails
    \/ RefuseName
    \/ AcceptName
    \/ Resolve
    \/ ResolvesToZero
    \/ ResolveCrashes
    \/ OpenInternet
    \/ OpenIntranet
    \/ Ping
    \/ EnterLoopAnyway

Loop ==
    /\ UNCHANGED <<bootPc, mRemoteFd, mLocalFd, machineVars, nameService>>
    /\ D!DSLoop \/ D!HeartBeat \/ D!OutNetDrained

\* Other processes, and the name service.  Nothing in the loop depends on them.
OtherTakesPort ==
    \E p \in EP : owner[p] = "nobody" /\ owner' = [owner EXCEPT ![p] = "other"]

OtherReleasesPort ==
    \E p \in EP : owner[p] = "other" /\ owner' = [owner EXCEPT ![p] = "nobody"]

Machine ==
    /\ bootPc # "loop"
    /\ \/ OtherTakesPort /\ UNCHANGED nameService
       \/ OtherReleasesPort /\ UNCHANGED nameService
       \/ nameService' \in {"address", "zero", "failed"} /\ UNCHANGED owner
    /\ UNCHANGED <<bootPc, mRemoteFd, mLocalFd, endpoint, lost, loopVars>>

BootNext == Start \/ Loop \/ Machine

BootSpec == BootInit /\ [][BootNext]_bootVars

\* The main thread does not stop, and an application that keeps calling
\* DTPLink_DSInit gets past its checks now and then.
FairBootSpec == BootSpec /\ WF_bootVars(Start) /\ SF_bootVars(AcceptName)
-----------------------------------------------------------------------------
(***************************************************************************)
(* Properties.                                                             *)
(***************************************************************************)

\* Whatever fails during start-up, and however often it is repeated, the loop
\* starts from a state DeviceServer promises: probing with an open socket, or
\* idle.
ImplementsDeviceServer == D!DSSpec

\* The cached endpoints are the ports this process has bound, so a second call
\* of DTPLink_DSInit never competes with the first one for a port.
OwnEndpoints ==
    /\ \A p \in EP : endpoint[p] = "open" <=> owner[p] = "self"
    /\ mRemoteFd = "open" /\ bootPc # "crashed" => owner["INTERNET_EP"] = "self"
    /\ mLocalFd = "open" /\ bootPc # "crashed" => owner["INTRANET_EP"] = "self"

\* main ignores the result of DTPLink_DSInit; a server that lacks an endpoint
\* still sends nothing, starts no thread and never gets online.
FailedStaysQuiet ==
    mRemoteFd # "open" \/ mLocalFd # "open" =>
        status = "STARTUP" /\ outNet = {} /\ heartbeats = <<>>

Usable ==
    /\ nameService = "address"
    /\ \A p \in EP : owner[p] # "other"
    /\ lost + 2 <= FdMax

\* An attempt is in hand that has its sockets so far.
OnItsWay ==
    \/ bootPc \in {"resolve", "internet", "ping"}
    \/ bootPc = "intranet" /\ mRemoteFd = "open"

\* The safety half of RetryStartsUp: an attempt that finds the machine usable,
\* whatever earlier attempts have left in the caches and however many sockets they
\* have lost, does not fail (DTPLink_GetLocalEndpoint, DTPLink_OpenPort).
UsableAttemptSucceeds ==
    [][OnItsWay /\ Usable => OnItsWay' \/ bootPc' = "loop"]_bootVars

\* A start-up that is repeated succeeds once the ports are free and the name
\* service answers (or the application gives up, or a lookup has ended the
\* process), unless failed attempts have used up the descriptors: a socket that
\* DTPLink_OpenPort cannot bind it does not close.
RetryStartsUp == <>[]Usable => <>(bootPc \in {"loop", "crashed"})

\* InitDSContext tests for an address that was not found and reports it: a
\* failed lookup does not end the process.
LookupFailureReported == bootPc # "crashed"
=============================================================================
