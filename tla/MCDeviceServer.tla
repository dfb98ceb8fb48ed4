--------------------------- MODULE MCDeviceServer ---------------------------
(***************************************************************************)
(* A small instance of DeviceServer: two mapped addresses that a probe may *)
(* report, answers from the right and from a wrong endpoint, and one query *)
(* of each kind that leads to a reply of its own.                          *)
(***************************************************************************)
EXTENDS DeviceServer

CONSTANTS Dns, Aux, Nat1, Nat2

MCCenterServer == <<Dns, 3478>>

AuxServer == <<Aux, 3479>>

Mapped == {<<Nat1, 20012>>, <<Nat2, 20012>>}

In(c, ep, a, b) == [cmd |-> c, from |-> ep, addr |-> a, cs2 |-> b, named |-> TRUE]

MCInbound ==
    {In("BIND_REQ_TO_SERVER1_PORT1", MCCenterServer, a, AuxServer) : a \in Mapped}
    \cup {In("BIND_REQ_TO_SERVER1_PORT2", ep, a, NoPublicAddr) :
            ep \in {MCCenterServer, NextPort(MCCenterServer)}, a \in Mapped}
    \cup {In("BIND_REQ_TO_SERVER2_PORT1", ep, a, NoPublicAddr) :
            ep \in {MCCenterServer, AuxServer}, a \in Mapped}
    \cup {In(c, MCCenterServer, <<Nat2, 20022>>, NoPublicAddr) :
            c \in {"REGIST_DS_IP_TO_DNS_SERVER", "QUERY_DS_IP_TO_DNS_SERVER",
                   "QUERY_DATA_RELAY_TO_REMOTE_DS", "SERVER_PUNCHING"}}
    \cup {In("QUERY_DATA_TO_LOCAL_DS", <<Nat2, 20022>>, NoPublicAddr, NoPublicAddr)}
=============================================================================
