-------------------------- MODULE MCClientRequests --------------------------
(***************************************************************************)
(* A small instance of ClientRequests: a client in the same network, one   *)
(* relayed by the center server, and two in the tunnel that share their    *)
(* public address.  Near runs on a machine of its own kind, whose unsigned *)
(* long has NearWords cells.                                               *)
(***************************************************************************)
EXTENDS ClientRequests

CONSTANTS Dns, Site, Near, Far, Tunnel1, Tunnel2, NearWords

MCCenterServer == <<Dns, 3478>>

At(c, ep, f, w) == [cmd |-> c, addr |-> ep, fd |-> f, words |-> w]

Ask2(i, ps) == [id |-> i, params |-> ps]

MCClient == {Near, Far, Tunnel1, Tunnel2}

MCProfile ==
    [c \in MCClient |->
        CASE c = Near ->
                 At("QUERY_DATA_TO_LOCAL_DS", <<Site, 20021>>, 0, NearWords)
          [] c = Far ->
                 At("QUERY_DATA_RELAY_TO_REMOTE_DS", <<Site, 20022>>, 0, 2)
          [] c = Tunnel1 ->
                 At("QUERY_DATA_HTTP_TO_REMOTE_DS", <<Site, 20022>>, 5, 2)
          [] OTHER ->
                 At("QUERY_DATA_HTTP_TO_REMOTE_DS", <<Site, 20022>>, 6, 2)]

\* A request without its second parameter; a message the application does not
\* know; a sum that wraps; and a request that nearly fills the receive buffer.
MCMessages ==
    [c \in MCClient |->
        CASE c = Near    -> {Ask2(1, <<3>>)}
          [] c = Far     -> {Ask2(2, <<>>)}
          [] c = Tunnel1 -> {Ask2(1, <<3, 2>>)}
          [] OTHER       -> {Ask2(1, <<1, 1>>), Ask2(1, <<3, 3, 3, 3, 3, 3>>)}]

\* Complete requests only.
MCFullMessages ==
    [c \in MCClient |->
        IF c = Near THEN {Ask2(1, <<1, 2>>)}
        ELSE {q \in MCMessages[c] : Len(q.params) = 2}]

Notice(c, ep, cl, n, l) ==
    [cmd |-> c, from |-> ep, client |-> cl, relayFd |-> 0, named |-> n,
     len |-> l, body |-> <<>>]

\* Queries of one byte, and two that end right before the last byte of the header.
MCCutOff ==
    {Notice("QUERY_DATA_TO_REMOTE_DS", <<Site, 20022>>, NoPublicAddr, FALSE, 1),
     Notice("QUERY_DATA_RELAY_TO_REMOTE_DS", <<Site, 20022>>, NoPublicAddr, FALSE, 1),
     Notice("QUERY_DATA_RELAY_TO_REMOTE_DS", MCCenterServer, <<Site, 20022>>, FALSE, 8),
     Notice("QUERY_DATA_HTTP_TO_REMOTE_DS", MCCenterServer, <<Site, 20022>>, FALSE, 13)}

MCNotices ==
    MCCutOff \cup
    {Notice("SERVER_PUNCHING", <<Site, 20022>>, NoPublicAddr, FALSE, 1),
     Notice("REGIST_DS_IP_TO_DNS_SERVER", MCCenterServer, NoPublicAddr, FALSE, 2),
     Notice("QUERY_DS_IP_TO_DNS_SERVER", MCCenterServer, <<Site, 20022>>, FALSE, 8),
     Notice("QUERY_DS_IP_TO_LOCAL_DS", <<Site, 20021>>, NoPublicAddr, TRUE, 4),
     Notice("QUERY_DS_IP_TO_LOCAL_DS", <<Site, 20021>>, NoPublicAddr, FALSE, 4)}
=============================================================================
