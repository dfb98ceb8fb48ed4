------------------------------ MODULE DSSystem ------------------------------
(***************************************************************************)
(* The device server of DeviceServer put to work: it reaches the center    *)
(* server and the auxiliary server through a NAT and a network that loses, *)
(* delays, reorders and (inbound) duplicates datagrams.  The servers and   *)
(* the NAT are not in the repository: they do what the device server       *)
(* relies on, no more.  A bind request is answered from the endpoint it    *)
(* was sent to with the public endpoint the NAT gave it; a registration is *)
(* recorded and acknowledged; a punching datagram is dropped.  Anybody     *)
(* else may send to the server's port, too.                                *)
(***************************************************************************)
EXTENDS DeviceServer

CONSTANTS
    AuxServer,  \* the second server, as the center server announces it
    NatMaps,    \* the NATs considered: server endpoint -> public endpoint
    Strays,     \* what anybody else may send at any time
    DupsMax     \* bound on the duplicated deliveries of a behaviour

Server1Port2 == NextPort(CenterServer)

Probed == {CenterServer, Server1Port2, AuxServer}

\* The requests a server answers, and the answer: public is the endpoint the
\* request came from, as the server saw it.
Binding ==
    {"BIND_REQ_TO_SERVER1_PORT1", "BIND_REQ_TO_SERVER1_PORT2",
     "BIND_REQ_TO_SERVER2_PORT1"}

Asking == Binding \cup {"REGIST_DS_IP_TO_DNS_SERVER"}

Answer(c, ep, public, cs2) ==
    [cmd |-> c, from |-> ep, addr |-> public, cs2 |-> cs2, named |-> FALSE]

BindAnswers(nat) ==
    {Answer("BIND_REQ_TO_SERVER1_PORT1", CenterServer, nat[CenterServer], AuxServer),
     Answer("BIND_REQ_TO_SERVER1_PORT2", Server1Port2, nat[Server1Port2], NoPublicAddr),
     Answer("BIND_REQ_TO_SERVER2_PORT1", AuxServer, nat[AuxServer], NoPublicAddr)}

Acknowledgement ==
    Answer("REGIST_DS_IP_TO_DNS_SERVER", CenterServer, NoPublicAddr, NoPublicAddr)

\* A stray datagram may be of any kind and have any source, except that nobody
\* but a probed server sends bind answers from its endpoint.
ASSUME SystemAssumption ==
    /\ AuxServer \in Endpoint
    /\ NatMaps \subseteq [Probed -> (Host \ {NoHost, RelayHost}) \X Port]
    /\ \A nat \in NatMaps : BindAnswers(nat) \cup {Acknowledgement} \subseteq Inbound
    /\ Strays \subseteq {d \in Inbound : d.cmd \notin Binding \/ d.from \notin Probed}
    /\ DupsMax \in Nat

VARIABLES
    natMap,         \* the public endpoint behind which each server sees us
    inNet,          \* answers on their way to the device server
    arrived,        \* stray datagrams in the device server's socket
    registration,   \* the letter the center server has on record, or "none"
    dups            \* deliveries duplicated so far

sysVars == <<dsVars, natMap, inNet, arrived, registration, dups>>

SysInit ==
    /\ DSInitial
    /\ natMap \in NatMaps
    /\ inNet = {}
    /\ arrived = {}
    /\ registration = "none"
    /\ dups = 0
-----------------------------------------------------------------------------
\* What the servers answer to datagram m.
Answers(m) == {d \in BindAnswers(natMap) \cup {Acknowledgement} :
                 d.cmd = m.cmd /\ d.from = m.to}

\* Mutant: whatever arrives is recorded as a registration.
ServerHandlesCarelessly(m) ==
    /\ m \in outNet
    /\ outNet' = outNet \ {m}
    /\ inNet' = inNet \cup Answers(m)
    /\ registration' = m.flag
    /\ UNCHANGED <<pc, remoteFd, status, mode, mIP, mCS2, MIP1, recvRetry,
                   sendRetry, punched, heartbeats, natMap, arrived, dups>>

\* A server, or the client whose reply it is, takes datagram m off the wire.
ServerHandles(m) ==
    /\ m \in outNet
    /\ outNet' = outNet \ {m}
    /\ inNet' = inNet \cup Answers(m)
    /\ registration' = IF m.cmd = "REGIST_DS_IP_TO_DNS_SERVER" THEN m.flag
                       ELSE registration
    /\ UNCHANGED <<pc, remoteFd, status, mode, mIP, mCS2, MIP1, recvRetry,
                   sendRetry, punched, heartbeats, natMap, arrived, dups>>

LoseOut == OutNetDrained /\ UNCHANGED <<natMap, inNet, arrived, registration, dups>>

LoseIn ==
    /\ \E d \in inNet : inNet' = inNet \ {d}
    /\ UNCHANGED <<dsVars, natMap, arrived, registration, dups>>
-----------------------------------------------------------------------------
Boot ==
    /\ DSInit \/ DSInitFails
    /\ UNCHANGED <<natMap, inNet, arrived, registration, dups>>

Deliver(d) ==
    /\ d \in inNet
    /\ Recv(d)
    /\ \/ inNet' = inNet \ {d} /\ UNCHANGED dups
       \/ dups < DupsMax /\ dups' = dups + 1 /\ UNCHANGED inNet
    /\ UNCHANGED <<natMap, arrived, registration>>

\* Clients and others send when they like; the poll that finds what has arrived
\* is a step of the server.
StrayArrives ==
    /\ remoteFd
    /\ \E d \in Strays \ arrived : arrived' = arrived \cup {d}
    /\ UNCHANGED <<dsVars, natMap, inNet, registration, dups>>

DeliverStray(d) ==
    /\ d \in arrived
    /\ Recv(d)
    /\ arrived' = arrived \ {d}
    /\ UNCHANGED <<natMap, inNet, registration, dups>>

\* A poll finds nothing if nothing is in the socket, though an answer may be
\* on its way: the network may be slow.
NothingArrives ==
    /\ arrived = {} \/ ~remoteFd
    /\ PollEmpty
    /\ UNCHANGED <<natMap, inNet, arrived, registration, dups>>

Iteration ==
    \/ NothingArrives
    \/ \E d \in inNet : Deliver(d)
    \/ \E d \in arrived : DeliverStray(d)

Beat == HeartBeat /\ UNCHANGED <<natMap, inNet, arrived, registration, dups>>

SysNext ==
    \/ Boot
    \/ Iteration
    \/ Beat
    \/ \E m \in outNet : ServerHandles(m)
    \/ StrayArrives
    \/ LoseOut
    \/ LoseIn

SysSpec == SysInit /\ [][SysNext]_sysVars

\* The main thread keeps iterating and the keep-alive thread keeps beating
\* (both are endless loops around a sleep); a registration that is sent again
\* and again gets through again and again.
SysFairness ==
    /\ WF_sysVars(Boot)
    /\ WF_sysVars(Iteration)
    /\ WF_sysVars(Beat)
    /\ \A f \in {"R", "D"} :
         SF_sysVars(ServerHandles(RegisterMsg(CenterServer, f)))

FairSysSpec == SysSpec /\ SysFairness
-----------------------------------------------------------------------------
SysTypeOK ==
    /\ natMap \in NatMaps
    /\ inNet \subseteq Inbound
    /\ arrived \subseteq Strays
    /\ registration \in {"none", "R", "D"}
    /\ dups \in 0 .. DupsMax

\* Whatever is lost, late, repeated or reordered, a server that calls itself
\* directly reachable has been seen behind one public endpoint by the center
\* server and by the auxiliary server, and that endpoint is the one it holds
\* (lines 536 to 570 of dtplink_ds.c).
DirectMeansOneMapping ==
    status \in {"WAIT_DNS", "ONLINE"} /\ mode = "REMOTE_DIRECT_MODE" =>
        mIP = natMap[CenterServer] /\ mIP = natMap[AuxServer]

\* The server takes a stray datagram for the acknowledgement: line 573 looks at
\* the command alone.
StrayAcknowledges ==
    \E d \in arrived : d.cmd = "REGIST_DS_IP_TO_DNS_SERVER" /\ DeliverStray(d)

\* A server gets online, other than in local mode, only when the center server has
\* it on record: no late, repeated or lost answer of the servers passes for the
\* acknowledgement (lines 572 to 580).  Only somebody else's datagram with the
\* command of a registration does.
AcknowledgedWhenRecorded ==
    [][status # "ONLINE" /\ status' = "ONLINE" /\ mode' # "LOCAL_MODE" =>
         registration # "none" \/ StrayAcknowledges]_sysVars

\* The center server never sends clients directly to a server none of whose
\* later probes confirmed the first one, though the registration may leave
\* before the mode is final and the keep-alive thread repeats an old reading
\* (RegisterDS, DTPLink_DSHeartBeat).  A server that fell back to local mode is
\* exempt: a slow keep-alive thread reads that mode and says D.
DirectClaimConfirmed ==
    registration = "D" /\ mode # "LOCAL_MODE" =>
        natMap[CenterServer] \in {natMap[Server1Port2], natMap[AuxServer]}

\* The registrations in flight that contradict the running mode.
WrongLetters ==
    {m \in outNet : m.cmd = "REGIST_DS_IP_TO_DNS_SERVER" /\ m.flag # ModeFlag(mode)}

RecordRight == WrongLetters = {} /\ registration = ModeFlag(mode)

StaysAnnounced == status \in {"WAIT_DNS", "ONLINE"} /\ mode' # "LOCAL_MODE"

\* The safety half of RegistrationRepaired: once registration has started, no
\* retransmission and no keep-alive thread sends another wrong letter, and when
\* those in flight are gone, a right record stays right (RegisterDS,
\* DTPLink_DSHeartBeat), until the server falls back to local mode.
WrongLettersDieOut ==
    [][/\ StaysAnnounced => WrongLetters' \subseteq WrongLetters
       /\ StaysAnnounced /\ RecordRight => RecordRight']_sysVars
-----------------------------------------------------------------------------
(***************************************************************************)
(* Liveness.                                                               *)
(***************************************************************************)

\* Unless stray datagrams keep coming for ever, a server that has begun to probe
\* gets online: every phase is answered or given up, whatever is lost.  The
\* premise is needed: a datagram that is no answer takes a poll (line 535) and
\* counts for none of the retry counters.
GetsOnline ==
    <>[][~StrayArrives]_sysVars =>
        (status \in Waiting ~> status = "ONLINE")

\* The center server may first record a letter that contradicts the running
\* mode (RegisterDS runs before SetMappedIPAddress); where a keep-alive thread
\* runs, the record is corrected in the end and stays correct.
RegistrationRepaired ==
    <>[](heartbeats # <<>> /\ mode # "LOCAL_MODE" => registration = ModeFlag(mode))
-----------------------------------------------------------------------------
(***************************************************************************)
(* What the source says of itself and does not do.                         *)
(***************************************************************************)


\* DTPLink_StartKeepAlive is there to "keep connection alive between DS and CS":
\* a server that clients reach through the center server runs a keep-alive
\* thread.
RelayKeptAlive ==
    status = "ONLINE" /\ mode = "REMOTE_RELAY_MODE" => heartbeats # <<>>

\* A second probe that contradicts the first ends in "Relay communication via
\* centerial server".
MismatchMeansRelay ==
    status \in {"WAIT_DNS", "ONLINE"} /\ natMap[Server1Port2] # natMap[CenterServer]
        => mode # "REMOTE_DIRECT_MODE"
=============================================================================
