----------------------------- MODULE MCDSSystem -----------------------------
(***************************************************************************)
(* A small instance of DSSystem.  The public endpoint is Nat1 for the      *)
(* first probe; each later probe may find the same or another one, which   *)
(* covers cone NATs, symmetric ones and those that change their mind.      *)
(***************************************************************************)
EXTENDS DSSystem

CONSTANTS Dns, Aux, Nat1, Nat2

MCCenterServer == <<Dns, 3478>>

MCAuxServer == <<Aux, 3479>>

Public == {<<Nat1, 20012>>, <<Nat2, 20012>>}

MCNatMaps == {f \in [Probed -> Public] : f[CenterServer][1] = Nat1}

Stray(c, ep) == [cmd |-> c, from |-> ep, addr |-> NoPublicAddr,
                 cs2 |-> NoPublicAddr, named |-> FALSE]

\* A client that asks for data before or after the server is online, and
\* somebody who sends a datagram with the command of a registration.
MCStrays ==
    {Stray("QUERY_DATA_TO_REMOTE_DS", <<Nat2, 20022>>),
     Stray("REGIST_DS_IP_TO_DNS_SERVER", <<Nat2, 20012>>)}

\* A bind answer from a port that was not asked.
MCMoreStrays ==
    MCStrays \cup {Stray("BIND_REQ_TO_SERVER1_PORT1", <<Dns, 3480>>)}

MCInbound ==
    MCMoreStrays \cup {Acknowledgement} \cup UNION {BindAnswers(nat) : nat \in MCNatMaps}
=============================================================================
