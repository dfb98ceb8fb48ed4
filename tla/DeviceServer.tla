---------------------------- MODULE DeviceServer ----------------------------
(***************************************************************************)
(* The device server of dtplink_ds.c: DTPLink_DSInit, the main loop        *)
(* DTPLink_DSLoop with its probe, registration, retry and give-up branches *)
(* and the keep-alive threads running DTPLink_DSHeartBeat.  The network is *)
(* an arbitrary environment: at any poll of the socket any datagram of     *)
(* Inbound may arrive, or none, and what the server has sent may vanish at *)
(* any time.                                                               *)
(*                                                                         *)
(* One step of DTPLink_DSLoop is one iteration of its while loop: it polls *)
(* the non-blocking socket once and runs the branch of the current state   *)
(* to the end.  Only mode is shared with another thread; that thread reads *)
(* it once, in a step of its own.                                          *)
(***************************************************************************)
EXTENDS DTPLink, Sequences

CONSTANTS
    Inbound,        \* the datagrams the environment may deliver
    CenterServer,   \* mCS1 and mDNS: the resolved address with STUN_PORT
    Watched,        \* the commands whose datagrams outNet keeps; the others
                    \* go to receivers that are not modelled
    Unset,          \* what the uninitialised local MIP1 holds
    RecvRetryMax,   \* RECV_RETRY_COUNT_MAX, 8
    SendRetryMax,   \* SEND_RETRY_COUNT_MAX, 8
    CounterMod      \* the retry counters are UInt8: 256

ASSUME InboundAssumption == Inbound \subseteq InDatagram

ASSUME AddressAssumption ==
    /\ CenterServer \in Endpoint
    /\ Unset \notin Endpoint

ASSUME RetryAssumption ==
    /\ RecvRetryMax \in Nat \ {0}
    /\ SendRetryMax \in Nat
    /\ CounterMod \in Nat
    /\ RecvRetryMax < CounterMod
    /\ SendRetryMax < CounterMod

VARIABLES
    pc,           \* "init" until DTPLink_DSInit has returned, then "loop"
    remoteFd,     \* TRUE iff mRemoteFd is a usable socket
    status,       \* mStatus
    mode,         \* mRunningMode
    mIP,          \* mIP
    mCS2,         \* mCS2
    MIP1,         \* the local MIP1 of DTPLink_DSLoop
    recvRetry,    \* mRecvRetryCount
    sendRetry,    \* mSendRetryCount
    punched,      \* servers whose static first_time flag is spent
    heartbeats,   \* one entry per keep-alive thread: the flag it sends
    outNet        \* datagrams sent and still in flight

dsVars == <<pc, remoteFd, status, mode, mIP, mCS2, MIP1, recvRetry, sendRetry,
            punched, heartbeats, outNet>>

TypeOK ==
    /\ pc \in {"init", "loop"}
    /\ remoteFd \in BOOLEAN
    /\ status \in DS_STATUS
    /\ mode \in RunningMode
    /\ mIP \in Endpoint
    /\ mCS2 \in Endpoint
    /\ MIP1 \in Endpoint \cup {Unset}
    /\ recvRetry \in 0 .. CounterMod - 1
    /\ sendRetry \in 0 .. CounterMod - 1
    /\ punched \subseteq {"CS1", "CS2"}
    /\ heartbeats \in Seq({"unread", "R", "D"})
    /\ outNet \subseteq OutDatagram

\* The context is a global: zero before DTPLink_DSInit, where zero means
\* DS_STATUS_STARTUP and REMOTE_DIRECT_MODE.
DSInitial ==
    /\ pc = "init"
    /\ remoteFd = FALSE
    /\ status = "STARTUP"
    /\ mode = "REMOTE_DIRECT_MODE"
    /\ mIP = NoPublicAddr
    /\ mCS2 = NoPublicAddr
    /\ MIP1 = Unset
    /\ recvRetry = 0
    /\ sendRetry = 0
    /\ punched = {}
    /\ heartbeats = <<>>
    /\ outNet = {}
-----------------------------------------------------------------------------
(***************************************************************************)
(* The helpers of the main loop.                                           *)
(***************************************************************************)
Send(ms) == outNet' = outNet \cup {m \in ms : m.cmd \in Watched}

ResetAllRetryCounts == recvRetry' = 0 /\ sendRetry' = 0

\* Mutant: only the relay address changes the mode.
SetMappedIPAddressRelayOnly(ip) ==
    /\ mIP' = ip
    /\ mode' = IF ip = RelayAddr THEN "REMOTE_RELAY_MODE" ELSE mode

SetMappedIPAddress(ip) == mIP' = ip /\ mode' = MappedMode(ip)

PingCenterServer ==
    /\ Send({Msg("BIND_REQ_TO_SERVER1_PORT1", CenterServer)} \cup
            IF "CS1" \in punched THEN {}
            ELSE {Msg("SERVER_PUNCHING", CenterServer),
                  Msg("SERVER_PUNCHING", NextPort(CenterServer))})
    /\ punched' = punched \cup {"CS1"}
    /\ status' = "WAIT_CS_PHASE1"

PingCenterServerAgain ==
    /\ Send({Msg("BIND_REQ_TO_SERVER1_PORT2", NextPort(CenterServer))})
    /\ status' = "WAIT_CS_PHASE2"
    /\ UNCHANGED punched

PingAuxServer ==
    /\ Send({Msg("BIND_REQ_TO_SERVER2_PORT1", mCS2)} \cup
            IF "CS2" \in punched THEN {}
            ELSE {Msg("SERVER_PUNCHING", mCS2),
                  Msg("SERVER_PUNCHING", PrevPort(mCS2))})
    /\ punched' = punched \cup {"CS2"}
    /\ status' = "WAIT_CS_PHASE3"

\* m is the running mode at the moment of the call.
RegisterDS(m) ==
    /\ Send({RegisterMsg(CenterServer, ModeFlag(m))})
    /\ status' = "WAIT_DNS"
    /\ UNCHANGED punched

\* Mutant: the thread is given its letter before the mode is final.
StartKeepAliveComposed == heartbeats' = Append(heartbeats, ModeFlag(mode))

StartKeepAlive == heartbeats' = Append(heartbeats, "unread")
-----------------------------------------------------------------------------
(***************************************************************************)
(* DTPLink_DSInit.  ds.c ignores its result and enters the loop either     *)
(* way.  The failures are those before DS_SET_STATUS; the socket for the   *)
(* Internet may already be open when the other one fails.                  *)
(***************************************************************************)
DSInit ==
    /\ pc = "init"
    /\ pc' = "loop"
    /\ remoteFd' = TRUE
    /\ mode' = "REMOTE_DIRECT_MODE"
    /\ ResetAllRetryCounts
    /\ PingCenterServer
    /\ UNCHANGED <<mIP, mCS2, MIP1, heartbeats>>

DSInitFails ==
    /\ pc = "init"
    /\ pc' = "loop"
    /\ remoteFd' \in BOOLEAN
    /\ UNCHANGED <<status, mode, mIP, mCS2, MIP1, recvRetry, sendRetry,
                   punched, heartbeats, outNet>>
-----------------------------------------------------------------------------
(***************************************************************************)
(* An iteration of the loop that receives datagram d.                      *)
(***************************************************************************)
\* Mutant: any datagram counts as the acknowledgement.
IsAnswerAnyAck(d) ==
    \/ /\ status = "WAIT_CS_PHASE1"
       /\ d.cmd = "BIND_REQ_TO_SERVER1_PORT1"
    \/ /\ status = "WAIT_CS_PHASE2"
       /\ d.cmd = "BIND_REQ_TO_SERVER1_PORT2"
    \/ /\ status = "WAIT_CS_PHASE3"
       /\ d.cmd = "BIND_REQ_TO_SERVER2_PORT1"
    \/ status = "WAIT_DNS"

IsAnswer(d) ==
    \/ /\ status = "WAIT_CS_PHASE1"
       /\ d.cmd = "BIND_REQ_TO_SERVER1_PORT1"
       /\ d.from = CenterServer
    \/ /\ status = "WAIT_CS_PHASE2"
       /\ d.cmd = "BIND_REQ_TO_SERVER1_PORT2"
       /\ d.from = NextPort(CenterServer)
    \/ /\ status = "WAIT_CS_PHASE3"
       /\ d.cmd = "BIND_REQ_TO_SERVER2_PORT1"
       /\ d.from = mCS2
    \/ /\ status = "WAIT_DNS"
       /\ d.cmd = "REGIST_DS_IP_TO_DNS_SERVER"

OnCenterServerResponse(d) ==
    /\ status = "WAIT_CS_PHASE1"
    /\ IsAnswer(d)
    /\ ResetAllRetryCounts
    /\ MIP1' = d.addr
    /\ mCS2' = d.cs2
    /\ PingCenterServerAgain
    /\ UNCHANGED <<mode, mIP, heartbeats>>

\* Mutant: the two mapped addresses are not compared.
OnCenterServerResponse2NoCompare(d) ==
    /\ status = "WAIT_CS_PHASE2"
    /\ IsAnswer(d)
    /\ ResetAllRetryCounts
    /\ PingAuxServer
    /\ UNCHANGED <<mode, mIP, mCS2, MIP1, heartbeats>>

OnCenterServerResponse2(d) ==
    /\ status = "WAIT_CS_PHASE2"
    /\ IsAnswer(d)
    /\ ResetAllRetryCounts
    /\ PingAuxServer
    /\ IF MIP1 # d.addr
       THEN SetMappedIPAddress(RelayAddr)
       ELSE UNCHANGED <<mode, mIP>>
    /\ UNCHANGED <<mCS2, MIP1, heartbeats>>

\* Mutant: the third probe is trusted without comparing it with the first.
OnAuxServerResponseNoCompare(d) ==
    /\ status = "WAIT_CS_PHASE3"
    /\ IsAnswer(d)
    /\ ResetAllRetryCounts
    /\ RegisterDS(mode)
    /\ SetMappedIPAddress(MIP1)
    /\ StartKeepAlive
    /\ UNCHANGED <<mCS2, MIP1>>

\* Mutant: a repeated answer of the auxiliary server is handled again.
OnAuxServerResponseLate(d) ==
    /\ status \in {"WAIT_CS_PHASE3", "WAIT_DNS"}
    /\ d.cmd = "BIND_REQ_TO_SERVER2_PORT1"
    /\ d.from = mCS2
    /\ ResetAllRetryCounts
    /\ RegisterDS(mode)
    /\ SetMappedIPAddress(IF MIP1 # d.addr THEN RelayAddr ELSE MIP1)
    /\ StartKeepAlive
    /\ UNCHANGED <<mCS2, MIP1>>

\* The registration goes out before the mapped address is known to the
\* context, so it carries the mode the second probe left.
OnAuxServerResponse(d) ==
    /\ status = "WAIT_CS_PHASE3"
    /\ IsAnswer(d)
    /\ ResetAllRetryCounts
    /\ RegisterDS(mode)
    /\ SetMappedIPAddress(IF MIP1 # d.addr THEN RelayAddr ELSE MIP1)
    /\ StartKeepAlive
    /\ UNCHANGED <<mCS2, MIP1>>

OnDSRegisterResponse(d) ==
    /\ status = "WAIT_DNS"
    /\ IsAnswer(d)
    /\ status' = "ONLINE"
    /\ ResetAllRetryCounts
    /\ UNCHANGED <<mode, mIP, mCS2, MIP1, punched, heartbeats, outNet>>

ProcessClientRequests(d) ==
    /\ status = "ONLINE"
    /\ Send(Replies(d))
    /\ UNCHANGED <<status, mode, mIP, mCS2, MIP1, recvRetry, sendRetry,
                   punched, heartbeats>>

\* Any other datagram uses up this poll and changes nothing, the retry
\* counters included.
IgnoreDatagram(d) ==
    /\ status # "ONLINE"
    /\ ~IsAnswer(d)
    /\ UNCHANGED <<status, mode, mIP, mCS2, MIP1, recvRetry, sendRetry,
                   punched, heartbeats, outNet>>

Recv(d) ==
    /\ pc = "loop"
    /\ remoteFd
    /\ \/ OnCenterServerResponse(d)
       \/ OnCenterServerResponse2(d)
       \/ OnAuxServerResponse(d)
       \/ OnDSRegisterResponse(d)
       \/ ProcessClientRequests(d)
       \/ IgnoreDatagram(d)
    /\ UNCHANGED <<pc, remoteFd>>
-----------------------------------------------------------------------------
(***************************************************************************)
(* An iteration whose DTPLink_Recv returns FALSE: nothing had arrived, or  *)
(* what arrived was empty or too large, or the call failed.  The receive   *)
(* counter is bumped first, in every state, and wraps.                     *)
(***************************************************************************)
\* Mutant: a counter without width.
RecvRetryUnwrapped == recvRetry + 1

RecvRetryBumped == (recvRetry + 1) % CounterMod

\* Mutant: one retransmission too many.
SendBudgetOverspent == sendRetry > SendRetryMax

SendBudgetSpent == sendRetry >= SendRetryMax

\* Mutant: an unanswered first probe is followed by the second one.
GiveUpPhase1ProbesOn ==
    /\ status = "WAIT_CS_PHASE1"
    /\ SendBudgetSpent
    /\ PingCenterServerAgain
    /\ ResetAllRetryCounts
    /\ UNCHANGED <<mode, mIP, mCS2, MIP1, heartbeats>>

\* No answer to the first probe at all: the server works without Internet.
GiveUpPhase1 ==
    /\ status = "WAIT_CS_PHASE1"
    /\ SendBudgetSpent
    /\ SetMappedIPAddress(NoPublicAddr)
    /\ status' = "ONLINE"
    /\ ResetAllRetryCounts
    /\ UNCHANGED <<mCS2, MIP1, punched, heartbeats, outNet>>

\* Mutant: giving up a probe registers without asking to be relayed.
GiveUpPhase23StillDirect ==
    /\ status \in {"WAIT_CS_PHASE2", "WAIT_CS_PHASE3"}
    /\ SendBudgetSpent
    /\ RegisterDS(mode)
    /\ ResetAllRetryCounts
    /\ UNCHANGED <<mode, mIP, mCS2, MIP1, heartbeats>>

\* A later probe unanswered: the server is relayed and registers as such.
GiveUpPhase23 ==
    /\ status \in {"WAIT_CS_PHASE2", "WAIT_CS_PHASE3"}
    /\ SendBudgetSpent
    /\ SetMappedIPAddress(RelayAddr)
    /\ RegisterDS(mode')
    /\ ResetAllRetryCounts
    /\ UNCHANGED <<mCS2, MIP1, heartbeats>>

\* Mutant: a registration without answer starts the probes over.
GiveUpDNSProbesAgain ==
    /\ status = "WAIT_DNS"
    /\ SendBudgetSpent
    /\ PingCenterServer
    /\ ResetAllRetryCounts
    /\ UNCHANGED <<mode, mIP, mCS2, MIP1, heartbeats>>

\* Mutant: it is repeated for ever.
GiveUpDNSNever ==
    /\ status = "WAIT_DNS"
    /\ SendBudgetSpent
    /\ RegisterDS(mode)
    /\ ResetAllRetryCounts
    /\ UNCHANGED <<mode, mIP, mCS2, MIP1, heartbeats>>

GiveUpDNS ==
    /\ status = "WAIT_DNS"
    /\ SendBudgetSpent
    /\ SetMappedIPAddress(NoPublicAddr)
    /\ status' = "ONLINE"
    /\ ResetAllRetryCounts
    /\ UNCHANGED <<mCS2, MIP1, punched, heartbeats, outNet>>

\* Mutant: a retransmission is not counted.
RetransmitUncounted ==
    /\ status \in Waiting
    /\ ~SendBudgetSpent
    /\ RecvRetryBumped >= RecvRetryMax
    /\ recvRetry' = 0
    /\ \/ status = "WAIT_CS_PHASE1" /\ PingCenterServer
       \/ status = "WAIT_CS_PHASE2" /\ PingCenterServerAgain
       \/ status = "WAIT_CS_PHASE3" /\ PingAuxServer
       \/ status = "WAIT_DNS" /\ RegisterDS(mode)
    /\ UNCHANGED <<sendRetry, mode, mIP, mCS2, MIP1, heartbeats>>

Retransmit ==
    /\ status \in Waiting
    /\ ~SendBudgetSpent
    /\ RecvRetryBumped >= RecvRetryMax
    /\ recvRetry' = 0
    /\ sendRetry' = (sendRetry + 1) % CounterMod
    /\ \/ status = "WAIT_CS_PHASE1" /\ PingCenterServer
       \/ status = "WAIT_CS_PHASE2" /\ PingCenterServerAgain
       \/ status = "WAIT_CS_PHASE3" /\ PingAuxServer
       \/ status = "WAIT_DNS" /\ RegisterDS(mode)
    /\ UNCHANGED <<mode, mIP, mCS2, MIP1, heartbeats>>

KeepPolling ==
    /\ status \in Waiting => ~SendBudgetSpent /\ RecvRetryBumped < RecvRetryMax
    /\ recvRetry' = RecvRetryBumped
    /\ UNCHANGED <<status, mode, mIP, mCS2, MIP1, sendRetry, punched,
                   heartbeats, outNet>>

PollEmpty ==
    /\ pc = "loop"
    /\ \/ GiveUpPhase1
       \/ GiveUpPhase23
       \/ GiveUpDNS
       \/ Retransmit
       \/ KeepPolling
    /\ UNCHANGED <<pc, remoteFd>>
-----------------------------------------------------------------------------
(***************************************************************************)
(* Keep-alive thread i: it composes its registration once, from the mode   *)
(* it then reads, and sends that same datagram for ever.                   *)
(***************************************************************************)
HeartBeatCompose(i) ==
    /\ heartbeats[i] = "unread"
    /\ heartbeats' = [heartbeats EXCEPT ![i] = ModeFlag(mode)]
    /\ UNCHANGED <<pc, remoteFd, status, mode, mIP, mCS2, MIP1, recvRetry,
                   sendRetry, punched, outNet>>

\* Mutant: the keep-alive stops once the server is online.
HeartBeatSendUntilOnline(i) ==
    /\ status # "ONLINE"
    /\ heartbeats[i] # "unread"
    /\ Send({RegisterMsg(CenterServer, heartbeats[i])})
    /\ UNCHANGED <<pc, remoteFd, status, mode, mIP, mCS2, MIP1, recvRetry,
                   sendRetry, punched, heartbeats>>

HeartBeatSend(i) ==
    /\ heartbeats[i] # "unread"
    /\ Send({RegisterMsg(CenterServer, heartbeats[i])})
    /\ UNCHANGED <<pc, remoteFd, status, mode, mIP, mCS2, MIP1, recvRetry,
                   sendRetry, punched, heartbeats>>

HeartBeat == \E i \in DOMAIN heartbeats : HeartBeatCompose(i) \/ HeartBeatSend(i)
-----------------------------------------------------------------------------
\* The environment takes datagrams off the wire: it delivers or loses them.
OutNetDrained ==
    /\ \E m \in outNet : outNet' = outNet \ {m}
    /\ UNCHANGED <<pc, remoteFd, status, mode, mIP, mCS2, MIP1, recvRetry,
                   sendRetry, punched, heartbeats>>

DSLoop == PollEmpty \/ \E d \in Inbound : Recv(d)

DSNext == DSInit \/ DSInitFails \/ DSLoop \/ HeartBeat \/ OutNetDrained

DSSpec == DSInitial /\ [][DSNext]_dsVars
-----------------------------------------------------------------------------
(***************************************************************************)
(* Safety.                                                                 *)
(***************************************************************************)

\* The retry counters in a waiting state: fewer than RecvRetryMax empty polls
\* since the last transmission, at most SendRetryMax retransmissions, and no
\* empty poll at all after the last of them.  So each phase gives up at the
\* first empty poll after the last retransmission (DTPLink_DSLoop tests the
\* send counter before the receive counter), and no counter ever wraps while
\* it is compared.
RetryBudget ==
    status \in Waiting =>
        /\ recvRetry < RecvRetryMax
        /\ sendRetry <= SendRetryMax
        /\ sendRetry = SendRetryMax => recvRetry = 0

\* DTPLink_StartKeepAlive runs at most once: two threads would double the
\* registration traffic and could send contradicting letters.
OneHeartbeat ==
    /\ Len(heartbeats) <= 1
    /\ heartbeats # <<>> => status \in {"WAIT_DNS", "ONLINE"}

\* MIP1, a local without initialiser, is written before any branch of the
\* loop compares it.
ProbedBeforeCompared ==
    status \in {"WAIT_CS_PHASE2", "WAIT_CS_PHASE3"} => MIP1 # Unset

\* Once registration starts, the running mode is the one the mapped address
\* in the context stands for, on every path that leads there.
ModeMatchesAddress ==
    status \in {"WAIT_DNS", "ONLINE"} => mode = MappedMode(mIP)

\* The keep-alive thread reads the running mode once and repeats it for ever.
\* Unless the server has fallen back to local mode since, what it repeats is the
\* current mode (DTPLink_DSHeartBeat, started after the mode is final).
HeartbeatTellsMode ==
    \A i \in DOMAIN heartbeats :
        mode # "LOCAL_MODE" => heartbeats[i] \in {"unread", ModeFlag(mode)}
-----------------------------------------------------------------------------
(***************************************************************************)
(* What a step may never do.                                               *)
(***************************************************************************)

\* The empty polls a waiting state has left before it gives up, and those the
\* server has left before it is online if nothing is ever answered.
PollsLeft ==
    (SendRetryMax - sendRetry) * RecvRetryMax + (RecvRetryMax - recvRetry)

PhasePolls == (SendRetryMax + 1) * RecvRetryMax

PollsToOnline ==
    CASE status = "STARTUP" -> 4 * PhasePolls
      [] status = "ONLINE"  -> 0
      [] OTHER              -> (4 - StatusRank(status)) * PhasePolls + PollsLeft

\* The retries of the whole start-up are bounded together: no late, repeated or
\* foreign datagram and no retransmission ever gives polls back, and an iteration
\* of the loop that does anything at all before the server is online uses some up
\* (the counters are reset in every branch of DTPLink_DSLoop that moves on).
EmptyPollsRunOut ==
    [][/\ PollsToOnline' <= PollsToOnline
       /\ status \in Waiting /\ DSLoop => PollsToOnline' < PollsToOnline]_dsVars

\* The states are passed in the order of DS_STATUS, and once online the mode,
\* the mapped address and the number of keep-alive threads are settled: no
\* late answer restarts or alters what was decided.
OnlineIsSettled ==
    [][/\ StatusRank(status') >= StatusRank(status)
       /\ status = "ONLINE" =>
            /\ UNCHANGED <<mode, mIP>>
            /\ Len(heartbeats') = Len(heartbeats)]_dsVars
-----------------------------------------------------------------------------
(***************************************************************************)
(* Refinement: the server implements Lifecycle.  While it probes, mode     *)
(* holds intermediate values that nothing outside the loop has seen.       *)
(***************************************************************************)
Stage ==
    CASE status = "STARTUP"  -> "idle"
      [] status = "WAIT_DNS" -> "registering"
      [] status = "ONLINE"   -> "online"
      [] OTHER               -> "probing"

Life == INSTANCE Lifecycle WITH
    stage <- Stage,
    reach <- IF status \in {"WAIT_DNS", "ONLINE"} THEN mode ELSE "undecided",
    keepAlive <- heartbeats # <<>>

\* How the server is reachable is decided once, when registration starts; a
\* server that claims to be directly reachable has had all probes answered and
\* keeps its NAT binding alive; going online, it keeps the decision or falls
\* back to local mode (the order of the branches of DTPLink_DSLoop).
ImplementsLifecycle == Life!LifeSpec
=============================================================================
