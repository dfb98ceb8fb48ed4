------------------------------ MODULE MCBoot ------------------------------
(***************************************************************************)
(* A small instance of Boot: one answer to each probe, from a server that  *)
(* sees the device server behind one address, and three kinds of names.    *)
(***************************************************************************)
EXTENDS Boot

CONSTANTS Dns, Aux, Nat1

MCCenterServer == <<Dns, 3478>>

AuxServer == <<Aux, 3479>>

In(c, ep) ==
    [cmd |-> c, from |-> ep, addr |-> <<Nat1, 20012>>, cs2 |-> AuxServer,
     named |-> FALSE]

MCInbound ==
    {In("BIND_REQ_TO_SERVER1_PORT1", MCCenterServer),
     In("BIND_REQ_TO_SERVER1_PORT2", NextPort(MCCenterServer)),
     In("BIND_REQ_TO_SERVER2_PORT1", AuxServer),
     In("REGIST_DS_IP_TO_DNS_SERVER", MCCenterServer)}

MCWatched == {"BIND_REQ_TO_SERVER1_PORT1"}
=============================================================================
