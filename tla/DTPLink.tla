------------------------------ MODULE DTPLink ------------------------------
(***************************************************************************)
(* Vocabulary of the DTPLink protocol shared by every module: UDP          *)
(* endpoints, the commands of dtplink_ds.h, the states and running modes   *)
(* of a device server, and the datagrams it sends and receives.            *)
(***************************************************************************)
EXTENDS Integers

CONSTANTS
    Host,       \* IPv4 addresses (model values)
    NoHost,     \* the address 0: NOPUBLIC_IP_PORT, and what zeroed memory reads as
    RelayHost   \* the address 0xFFFFFFFF: RELAY_IP_PORT (-1)

ASSUME HostAssumption ==
    /\ NoHost \in Host
    /\ RelayHost \in Host
    /\ NoHost # RelayHost

(***************************************************************************)
(* Endpoints: an IPv4Address is an address and a 16-bit port.              *)
(***************************************************************************)
Port == 0 .. 65535

Endpoint == Host \X Port

Wrap16(n) == n % 65536

NextPort(ep) == <<ep[1], Wrap16(ep[2] + 1)>>

PrevPort(ep) == <<ep[1], Wrap16(ep[2] - 1)>>

NoPublicAddr == <<NoHost, 0>>

RelayAddr == <<RelayHost, 65535>>

(***************************************************************************)
(* The states of the main loop, in the order of the enumeration DS_STATUS, *)
(* and the running modes.                                                  *)
(***************************************************************************)
DS_STATUS == {"STARTUP", "WAIT_CS_PHASE1", "WAIT_CS_PHASE2", "WAIT_CS_PHASE3",
              "WAIT_DNS", "ONLINE"}

\* The states in which the server has asked something and awaits the answer.
Waiting == DS_STATUS \ {"STARTUP", "ONLINE"}

StatusRank(s) ==
    CASE s = "STARTUP"        -> 0
      [] s = "WAIT_CS_PHASE1" -> 1
      [] s = "WAIT_CS_PHASE2" -> 2
      [] s = "WAIT_CS_PHASE3" -> 3
      [] s = "WAIT_DNS"       -> 4
      [] s = "ONLINE"         -> 5

RunningMode == {"REMOTE_DIRECT_MODE", "REMOTE_RELAY_MODE", "LOCAL_MODE"}

\* The running mode that SetMappedIPAddress2 derives from a mapped address:
\* only the address part is compared with the two reserved values.
MappedMode(ip) ==
    IF ip[1] = RelayHost THEN "REMOTE_RELAY_MODE"
    ELSE IF ip[1] = NoHost THEN "LOCAL_MODE"
    ELSE "REMOTE_DIRECT_MODE"

\* The letter a registration carries: every mode but the relay one says D.
ModeFlag(m) == IF m = "REMOTE_RELAY_MODE" THEN "R" ELSE "D"

(***************************************************************************)
(* Commands and datagrams.                                                 *)
(***************************************************************************)
Command ==
    {"BIND_REQ_TO_SERVER1_PORT1", "BIND_REQ_TO_SERVER1_PORT2",
     "BIND_REQ_TO_SERVER2_PORT1", "REGIST_DS_IP_TO_DNS_SERVER",
     "QUERY_DS_IP_TO_DNS_SERVER", "QUERY_DS_IP_TO_LOCAL_DS",
     "QUERY_DATA_TO_REMOTE_DS", "REMOTE_DS_DATA_RESP_TO_CLIENT",
     "QUERY_DATA_TO_LOCAL_DS", "LOCAL_DS_DATA_RESP_TO_CLIENT",
     "QUERY_DATA_RELAY_TO_REMOTE_DS", "REMOTE_DS_DATA_RESP_RELAY_TO_CLIENT",
     "QUERY_DATA_HTTP_TO_REMOTE_DS", "REMOTE_DS_DATA_RESP_HTTP_TO_CLIENT",
     "SERVER_PUNCHING"}

(***************************************************************************)
(* What the device server receives.  addr is the 6-byte address a body     *)
(* starts with (the mapped address of a bind response, the client of a     *)
(* query passed on by the center server), cs2 the second one of the first  *)
(* bind response, named tells whether a name query asks for this server.   *)
(* The receive buffer is cleared before each datagram, so a field that is  *)
(* not in the datagram reads as zero.                                      *)
(***************************************************************************)
InDatagram ==
    [cmd : Command, from : Endpoint, addr : Endpoint, cs2 : Endpoint,
     named : BOOLEAN]

(***************************************************************************)
(* What it sends: flag is the letter of a registration ("-" elsewhere),    *)
(* client the address a relayed reply is for (zero elsewhere).             *)
(***************************************************************************)
OutDatagram ==
    [cmd : Command, to : Endpoint, flag : {"R", "D", "-"}, client : Endpoint]

Msg(c, ep) == [cmd |-> c, to |-> ep, flag |-> "-", client |-> NoPublicAddr]

RegisterMsg(ep, f) ==
    [cmd |-> "REGIST_DS_IP_TO_DNS_SERVER", to |-> ep, flag |-> f,
     client |-> NoPublicAddr]

RelayMsg(c, ep, cl) == [cmd |-> c, to |-> ep, flag |-> "-", client |-> cl]
-----------------------------------------------------------------------------
\* What ProcessClientRequests answers to d (the payload of a data reply is
\* left out; a local data query gets the reply of a remote one).
Replies(d) ==
    CASE d.cmd = "QUERY_DS_IP_TO_DNS_SERVER" ->
             {Msg("SERVER_PUNCHING", d.addr)}
      [] d.cmd = "QUERY_DS_IP_TO_LOCAL_DS" /\ d.named ->
             {Msg("QUERY_DS_IP_TO_LOCAL_DS", d.from)}
      [] d.cmd \in {"QUERY_DATA_TO_REMOTE_DS", "QUERY_DATA_TO_LOCAL_DS"} ->
             {Msg("REMOTE_DS_DATA_RESP_TO_CLIENT", d.from)}
      [] d.cmd = "QUERY_DATA_RELAY_TO_REMOTE_DS" ->
             {RelayMsg("REMOTE_DS_DATA_RESP_RELAY_TO_CLIENT", d.from, d.addr)}
      [] d.cmd = "QUERY_DATA_HTTP_TO_REMOTE_DS" ->
             {RelayMsg("REMOTE_DS_DATA_RESP_HTTP_TO_CLIENT", d.from, d.addr)}
      [] OTHER -> {}
=============================================================================
