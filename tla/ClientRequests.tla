--------------------------- MODULE ClientRequests ---------------------------
(***************************************************************************)
(* ProcessClientRequests of dtplink_ds.c, what an online server does with  *)
(* a datagram: the two buffers all requests share, the lengths computed    *)
(* from the datagram's, the headers of relayed requests, the unpacking and *)
(* packing of dsapp.c and the application of ds.c.  Clients, center server *)
(* and network are those of RequestService, which this implements.         *)
(*                                                                         *)
(* Handling a datagram is one step: nothing else touches the buffers.      *)
(***************************************************************************)
EXTENDS RequestService

CONSTANT Platform       \* which network layer dtplink_io.c includes

ASSUME PlatformAssumption == Platform \in {"linux", "windows"}

VARIABLES
    REQUEST_INFO, RESPONSE_INFO,    \* the buffers of the context
    overrunBy       \* the datagrams that were copied past REQUEST_INFO

reqVars == <<asked, inNet, outNet, REQUEST_INFO, RESPONSE_INFO, overrunBy>>

Cell == Value \cup {Text}

UInt16 == 0 .. 65535

DataReply ==
    {"REMOTE_DS_DATA_RESP_TO_CLIENT", "REMOTE_DS_DATA_RESP_RELAY_TO_CLIENT",
     "REMOTE_DS_DATA_RESP_HTTP_TO_CLIENT"}

ReqTypeOK ==
    /\ \A c \in Client : asked[c] \subseteq Messages[c]
    /\ overrunBy \subseteq Request
    /\ inNet \subseteq Request
    /\ outNet \subseteq [cmd : Command, to : Endpoint, client : Endpoint,
                         relayFd : Nat, body : Seq(Cell)]
    /\ REQUEST_INFO \in [content : Seq(Value), head : Nat, length : UInt16]
    /\ RESPONSE_INFO \in [content : Seq(Cell), tail : Nat, length : UInt16]

\* Mutant: only the request buffer is emptied.
DTPLink_ResetBuffersRequestOnly ==
    [req  |-> [content |-> <<>>, head |-> 0, length |-> 0],
     resp |-> RESPONSE_INFO]

\* content holds the bytes written to a buffer; those after it are zero.
DTPLink_ResetBuffers ==
    [req  |-> [content |-> <<>>, head |-> 0, length |-> 0],
     resp |-> [content |-> <<>>, tail |-> 0, length |-> 0]]

ReqInit ==
    /\ ServiceInit
    /\ REQUEST_INFO = [content |-> <<>>, head |-> 0, length |-> 0]
    /\ RESPONSE_INFO = [content |-> <<>>, tail |-> 0, length |-> 0]
    /\ overrunBy = {}
-----------------------------------------------------------------------------
(***************************************************************************)
(* Receiving n bytes into an array of BufSize.  recvfrom cuts off what     *)
(* does not fit on Linux and fails on Windows.                             *)
(***************************************************************************)
RecvLinux(n) ==
    LET len == IF n > BufSize THEN BufSize ELSE n
    IN  len # 0 /\ ~(len + 1 >= BufSize)

RecvWindows(n) == n <= BufSize /\ n # 0 /\ ~(n + 1 >= BufSize)

DTPLink_Recv(d) ==
    IF Platform = "linux" THEN RecvLinux(d.len) ELSE RecvWindows(d.len)

\* msgLen - 2, an Int16 that the data handlers take as a UInt16.
imsgLen(d) == Wrap16(d.len - 2)
-----------------------------------------------------------------------------
(***************************************************************************)
(* The library.  A handler's state h holds both buffers and the request    *)
(* structure: fields[1] and fields[2] are d1 and d2, fields[3] is what     *)
(* lies behind it.  No reader or writer reports what it refuses.           *)
(***************************************************************************)
LongSize == 4 * LongWords

\* The cell at head: the word comes first, then cells of four bytes.
AtHead(h) ==
    LET i == (h.req.head + 6) \div 4
    IN  IF i \in DOMAIN h.req.content THEN h.req.content[i] ELSE 0

WordAtHead(h) ==
    IF h.req.head + 2 <= h.req.length THEN AtHead(h) ELSE 0

READ_WORD(h) ==
    IF h.req.head + 2 <= h.req.length
    THEN [h EXCEPT !.req = [h.req EXCEPT !.head = @ + 2]]
    ELSE h

\* A ULong32 is stored over field i: one of two cells overwrites the next
\* field with its zero half, and behind the last one, where the makefile's build
\* has the response structure, still all zero, what is zero already.
Stored(f, i, v) ==
    [j \in 1 .. 3 |-> IF j = i THEN v
                      ELSE IF j = i + 1 /\ LongWords = 2 THEN 0
                      ELSE f[j]]

READ_DWORD(h, i) ==
    IF h.req.head + LongSize <= h.req.length
    THEN [req    |-> [h.req EXCEPT !.head = @ + LongSize],
          resp   |-> h.resp,
          fields |-> Stored(h.fields, i, AtHead(h))]
    ELSE h

Put(h, cells, n) ==
    IF h.resp.length + n <= BufSize
    THEN [h EXCEPT !.resp = [content |-> @.content \o cells,
                             tail |-> @.tail + n, length |-> @.tail + n]]
    ELSE h

WRITE_WORD(h, v) == Put(h, <<v>>, 2)

WRITE_DWORD(h, v) == Put(h, Long(v), LongSize)

\* fifteen characters and the byte that ends them
WRITE_STRING(h) == Put(h, Greeting, 16)

\* Mutant: the fields are read in another order than they are written.
CRequest_index_unpackSwapped(h) == READ_DWORD(READ_DWORD(h, 2), 1)

CRequest_index_unpack(h) == READ_DWORD(READ_DWORD(h, 1), 2)

CResponse_index_packup(h, d1, d2, r1) ==
    WRITE_STRING(WRITE_DWORD(WRITE_DWORD(WRITE_DWORD(h, d1), d2), r1))

\* The sum of two Int32 wraps, as the compilers of the project make it.
device_server_main(h, id) ==
    IF id = 1
    THEN LET req == CRequest_index_unpack(h)
             d1  == req.fields[1]
             d2  == req.fields[2]
         IN  CResponse_index_packup(req, d1, d2, Plus(d1, d2))
    ELSE h

\* From the body's len bytes in the request buffer to the response buffer.
Processed(b, len) ==
    LET r == DTPLink_ResetBuffers
        h == [req    |-> [content |-> b, head |-> 0, length |-> len],
              resp   |-> r.resp,
              fields |-> <<0, 0, 0>>]
        id == WordAtHead(h)
    IN  device_server_main(WRITE_WORD(READ_WORD(h), id), id)
-----------------------------------------------------------------------------
(***************************************************************************)
(* The handlers.                                                           *)
(***************************************************************************)
Handled(d, h, replies) ==
    /\ overrunBy = {}
    /\ DTPLink_Recv(d)
    /\ REQUEST_INFO' = h.req
    /\ RESPONSE_INFO' = h.resp
    /\ outNet' = outNet \cup replies
    /\ Taken(d)
    /\ UNCHANGED <<asked, overrunBy>>

\* A memcpy of more than the request buffer holds, a negative length being a huge
\* one.  What the program does from there on is undefined: the model notes it in
\* overrunBy and ends.
Overrun(d) ==
    /\ overrunBy = {}
    /\ DTPLink_Recv(d)
    /\ overrunBy' = {d}
    /\ Taken(d)
    /\ UNCHANGED <<asked, outNet, REQUEST_INFO, RESPONSE_INFO>>

\* The copy of the len bytes behind the header, none of which is checked.
Copied(d, len, h, replies) ==
    IF len \in 0 .. BufSize THEN Handled(d, h, replies) ELSE Overrun(d)

OnReceiveDNSQueryRequest(d) ==
    /\ d.cmd = "QUERY_DS_IP_TO_DNS_SERVER"
    /\ Handled(d, DTPLink_ResetBuffers,
               {Reply("SERVER_PUNCHING", d.client, NoPublicAddr, 0, <<>>)})

OnReceiveLocalDNSQueryRequest(d) ==
    /\ d.cmd = "QUERY_DS_IP_TO_LOCAL_DS"
    /\ Handled(d, DTPLink_ResetBuffers,
               IF d.named
               THEN {Reply("QUERY_DS_IP_TO_LOCAL_DS", d.from, NoPublicAddr, 0, <<>>)}
               ELSE {})

\* A local query is answered with the command of a remote one.
ProcessRemoteDataQueryRequest(d) ==
    LET len == imsgLen(d)
        h   == Processed(d.body, len)
    IN  Copied(d, len, h, {Reply("REMOTE_DS_DATA_RESP_TO_CLIENT", d.from,
                                 NoPublicAddr, 0, h.resp.content)})

\* Mutant: whatever is not dispatched otherwise is taken for a data query.
OnReceiveDataQueryRequestOrElse(d) ==
    /\ d.cmd \in {"QUERY_DATA_TO_REMOTE_DS", "QUERY_DATA_TO_LOCAL_DS",
                  "SERVER_PUNCHING"}
    /\ ProcessRemoteDataQueryRequest(d)

OnReceiveDataQueryRequest(d) ==
    /\ d.cmd \in {"QUERY_DATA_TO_REMOTE_DS", "QUERY_DATA_TO_LOCAL_DS"}
    /\ ProcessRemoteDataQueryRequest(d)

\* What precedes the body: the client's address and a separator.  The result is
\* an Int32, negative if they did not come.
ParseRelayInfoOnDS(d) == imsgLen(d) - 7

\* And in the tunnel its connection and another separator.
ParseRelayHttpInfoOnDS(d) == imsgLen(d) - 12

OnReceiveRelayDataQueryRequest(d) ==
    LET len == ParseRelayInfoOnDS(d)
        h   == Processed(d.body, len)
    IN  /\ d.cmd = "QUERY_DATA_RELAY_TO_REMOTE_DS"
        /\ Copied(d, len, h, {Reply("REMOTE_DS_DATA_RESP_RELAY_TO_CLIENT", d.from,
                                    d.client, 0, h.resp.content)})

\* Mutant: the connection is parsed but not put into the reply's header.
OnReceiveHttpDataQueryRequestFdLost(d) ==
    LET len == ParseRelayHttpInfoOnDS(d)
        h   == Processed(d.body, len)
    IN  /\ d.cmd = "QUERY_DATA_HTTP_TO_REMOTE_DS"
        /\ Copied(d, len, h, {Reply("REMOTE_DS_DATA_RESP_HTTP_TO_CLIENT", d.from,
                                    d.client, 0, h.resp.content)})

OnReceiveHttpDataQueryRequest(d) ==
    LET len == ParseRelayHttpInfoOnDS(d)
        h   == Processed(d.body, len)
    IN  /\ d.cmd = "QUERY_DATA_HTTP_TO_REMOTE_DS"
        /\ Copied(d, len, h, {Reply("REMOTE_DS_DATA_RESP_HTTP_TO_CLIENT", d.from,
                                    d.client, d.relayFd, h.resp.content)})

\* Late answers, acknowledgements and keep-alives only empty the buffers.
OnReceiveOther(d) ==
    /\ d.cmd \notin DataQuery \cup {"QUERY_DS_IP_TO_DNS_SERVER",
                                    "QUERY_DS_IP_TO_LOCAL_DS"}
    /\ Handled(d, DTPLink_ResetBuffers, {})

ProcessClientRequests(d) ==
    \/ OnReceiveDNSQueryRequest(d)
    \/ OnReceiveLocalDNSQueryRequest(d)
    \/ OnReceiveDataQueryRequest(d)
    \/ OnReceiveRelayDataQueryRequest(d)
    \/ OnReceiveHttpDataQueryRequest(d)
    \/ OnReceiveOther(d)

RecvFails(d) ==
    /\ overrunBy = {}
    /\ ~DTPLink_Recv(d)
    /\ Taken(d)
    /\ UNCHANGED <<asked, outNet, REQUEST_INFO, RESPONSE_INFO, overrunBy>>

NetworkStep ==
    /\ overrunBy = {}
    /\ LoseRequest \/ ReplyLeaves \/ \E c \in Client : Ask(c)
    /\ UNCHANGED <<REQUEST_INFO, RESPONSE_INFO, overrunBy>>

Ended == overrunBy # {} /\ UNCHANGED reqVars

ReqNext ==
    \/ \E d \in inNet \cup Notices : ProcessClientRequests(d) \/ RecvFails(d)
    \/ NetworkStep
    \/ Ended

ReqSpec == ReqInit /\ [][ReqNext]_reqVars
-----------------------------------------------------------------------------
(***************************************************************************)
(* Properties.                                                             *)
(***************************************************************************)

\* Every reply is what RequestService promises for one request alone, though
\* all of them are built in one pair of buffers (ProcessClientRequests empties
\* them first) and though no reader reports a parameter that did not come.
ImplementsService == ServiceSpec

\* The request buffer is overrun only by a data query that ends inside its own
\* header: the length that the handlers compute from the datagram's, in 16 bits
\* and unchecked, then wraps or is negative (line 582 of dtplink_ds.c and
\* ParseRelayInfoOnDS).  Every whole query, up to the longest that DTPLink_Recv lets in, and
\* every other datagram, the single byte of a keep-alive included, leaves lengths
\* within the buffer, and no reader passes the end of what came.
RequestInside ==
    /\ \A d \in overrunBy : d.cmd \in DataQuery /\ d.len < HeaderLen(d.cmd)
    /\ REQUEST_INFO.length <= BufSize
    /\ REQUEST_INFO.head <= REQUEST_INFO.length

\* The response buffer is as large as the array the reply is put together in,
\* header included, and only WRITE_ checks it: the replies of the application
\* still fit the array behind the longest header, and a receiver that uses the
\* same DTPLink_Recv accepts them.
RepliesFit == \A m \in outNet : HeaderLen(m.cmd) + BodyLen(m.body) + 1 < BufSize

\* The reply m as a client whose unsigned long has w cells unpacks it.
CResponse_index_unpack(w, m) ==
    LET at(i) == IF 2 + i * w \in DOMAIN m.body THEN m.body[2 + i * w] ELSE 0
    IN  [id |-> Id(m.body), d1 |-> at(0), d2 |-> at(1), r1 |-> at(2)]

AddressedTo(m, c) ==
    LET p == Profile[c]
    IN  CASE m.cmd = "REMOTE_DS_DATA_RESP_TO_CLIENT" ->
                 p.cmd \notin Relayed /\ m.to = p.addr
          [] m.cmd = "REMOTE_DS_DATA_RESP_RELAY_TO_CLIENT" ->
                 /\ p.cmd = "QUERY_DATA_RELAY_TO_REMOTE_DS"
                 /\ m.client = p.addr
          [] m.cmd = "REMOTE_DS_DATA_RESP_HTTP_TO_CLIENT" ->
                 /\ p.cmd = "QUERY_DATA_HTTP_TO_REMOTE_DS"
                 /\ m.client = p.addr
                 /\ m.relayFd = p.fd
          [] OTHER -> FALSE

Given(q, k) == IF k \in DOMAIN q.params THEN q.params[k] ELSE 0

\* The reply m tells the sum of the two parameters of q.
Sums(w, m, q) ==
    LET r == CResponse_index_unpack(w, m)
    IN  /\ r.id = q.id
        /\ q.id = 1 => /\ r.d1 = Given(q, 1)
                       /\ r.d2 = Given(q, 2)
                       /\ r.r1 = Plus(r.d1, r.d2)

\* A data reply under way has a client it is for, and shows that client, if
\* built for the same size of unsigned long, the answer to something it asked:
\* through the relay headers (address and tunnel connection), the order of the
\* generated functions, parameters left out, and a READ_DWORD that overwrites
\* the field after its own.
AnswersReach ==
    \A m \in outNet : m.cmd \in DataReply =>
        /\ \E c \in Client : AddressedTo(m, c)
        /\ \A c \in Client :
             AddressedTo(m, c) /\ Profile[c].words = LongWords
                 => \E q \in asked[c] : Sums(LongWords, m, q)

\* The same for every client: config.json declares the parameters as INT32 and
\* dsapp.h as Int32, whatever the size of an unsigned long.
SumReachesAll ==
    \A m \in outNet, c \in Client :
        m.cmd \in DataReply /\ AddressedTo(m, c)
            => \E q \in asked[c] : Sums(Profile[c].words, m, q)
=============================================================================
