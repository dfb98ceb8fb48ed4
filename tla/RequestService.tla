--------------------------- MODULE RequestService ---------------------------
(***************************************************************************)
(* What an online device server promises its clients: every whole request  *)
(* it receives is answered, once, to where it came from, with a reply that *)
(* is a function of that request alone.  Clients ask directly or through   *)
(* the center server, over UDP or an HTTP tunnel; the network loses,       *)
(* delays, reorders and repeats what they send.  The buffers in which the  *)
(* program builds its replies are those of ClientRequests, which           *)
(* implements this.                                                        *)
(*                                                                         *)
(* A body is a sequence: the identifier of the message (a word of two      *)
(* bytes) and then cells of four bytes.                                    *)
(***************************************************************************)
EXTENDS DTPLink, Sequences

CONSTANTS
    CenterServer,   \* where relayed requests come from
    BufSize,        \* MAX_RTP_MSG_SIZE, 256
    LongWords,      \* cells of a ULong32, an unsigned long: 1 or 2
    ValueMod,       \* an Int32 holds 0 .. ValueMod - 1 (as unsigned), 2^32
    Text,           \* four bytes of the string "Hello, DTPLink!"
    Client,         \* the clients
    Profile,        \* how each of them reaches the server
    Messages,       \* what each of them may ask
    Notices         \* other datagrams, which come at any time

Value == 0 .. ValueMod - 1

DataQuery ==
    {"QUERY_DATA_TO_REMOTE_DS", "QUERY_DATA_TO_LOCAL_DS",
     "QUERY_DATA_RELAY_TO_REMOTE_DS", "QUERY_DATA_HTTP_TO_REMOTE_DS"}

Relayed == {"QUERY_DATA_RELAY_TO_REMOTE_DS", "QUERY_DATA_HTTP_TO_REMOTE_DS"}

\* client and relayFd are the header of a relayed request: the client's
\* address and, in the HTTP tunnel, its connection at the center server.  len
\* is the length of the datagram, which may end before that header does.
Request ==
    [cmd : Command, from : Endpoint, client : Endpoint, relayFd : Nat,
     named : BOOLEAN, len : Nat \ {0}, body : Seq(Value)]

\* The length of a buffer is kept in an Int16.
ASSUME SizeAssumption ==
    /\ BufSize \in Nat /\ BufSize >= 64 /\ BufSize < 32768
    /\ LongWords \in {1, 2}
    /\ ValueMod \in Nat \ {0}

ASSUME ServiceAssumption ==
    /\ CenterServer \in Endpoint
    /\ Profile \in [Client -> [cmd : DataQuery, addr : Endpoint, fd : Nat,
                               words : {1, 2}]]
    /\ Messages \in [Client -> SUBSET [id : Value, params : Seq(Value)]]
    /\ Notices \subseteq Request

\* No two clients are the same to the center server or to the device server:
\* UDP clients differ in their address, those in the tunnel in the connection.
ASSUME ProfileAssumption ==
    \A c1, c2 \in Client :
        /\ Profile[c1].addr # CenterServer
        /\ \/ c1 = c2
           \/ Profile[c1].cmd # Profile[c2].cmd /\ Profile[c1].cmd \in Relayed
           \/ Profile[c1].cmd # Profile[c2].cmd /\ Profile[c2].cmd \in Relayed
           \/ /\ Profile[c1].addr # Profile[c2].addr
              /\ Profile[c1].cmd # "QUERY_DATA_HTTP_TO_REMOTE_DS"
           \/ /\ Profile[c1].fd # Profile[c2].fd
              /\ Profile[c1].cmd = "QUERY_DATA_HTTP_TO_REMOTE_DS"

VARIABLES
    asked,      \* what each client has asked so far
    inNet,      \* requests on their way to the device server
    outNet      \* its replies on their way

serviceVars == <<asked, inNet, outNet>>

ServiceInit ==
    /\ asked = [c \in Client |-> {}]
    /\ inNet = {}
    /\ outNet = {}
-----------------------------------------------------------------------------
(***************************************************************************)
(* Requests.                                                               *)
(***************************************************************************)
\* The parameters ps as a sender packs them whose unsigned long has w cells.
Wire(w, ps) ==
    [i \in 1 .. w * Len(ps) |->
        IF w = 1 THEN ps[i] ELSE IF i % 2 = 1 THEN ps[(i + 1) \div 2] ELSE 0]

\* Command and space; then the address and its separator; then the
\* connection and its separator.
HeaderLen(cmd) ==
    CASE cmd \in {"QUERY_DATA_RELAY_TO_REMOTE_DS",
                  "REMOTE_DS_DATA_RESP_RELAY_TO_CLIENT"} -> 9
      [] cmd \in {"QUERY_DATA_HTTP_TO_REMOTE_DS",
                  "REMOTE_DS_DATA_RESP_HTTP_TO_CLIENT"} -> 14
      [] OTHER -> 2

BodyLen(b) == IF b = <<>> THEN 0 ELSE 4 * Len(b) - 2

\* Message q of client c as it arrives, the center server having put its
\* header before a relayed one.
RequestOf(c, q) ==
    LET p == Profile[c]
        b == <<q.id>> \o Wire(p.words, q.params)
    IN  [cmd     |-> p.cmd,
         from    |-> IF p.cmd \in Relayed THEN CenterServer ELSE p.addr,
         client  |-> IF p.cmd \in Relayed THEN p.addr ELSE NoPublicAddr,
         relayFd |-> IF p.cmd = "QUERY_DATA_HTTP_TO_REMOTE_DS" THEN p.fd ELSE 0,
         named   |-> FALSE,
         len     |-> HeaderLen(p.cmd) + BodyLen(b),
         body    |-> b]

Receivable(d) == d.len + 1 < BufSize

\* The header of a data query has come completely.
Whole(d) == d.cmd \in DataQuery => d.len >= HeaderLen(d.cmd)

\* What is not a message of a client is no data query, or one that ends inside
\* its header.
ASSUME NoticeAssumption ==
    \A d \in Notices : d.cmd \in DataQuery => ~Whole(d)
-----------------------------------------------------------------------------
(***************************************************************************)
(* Replies.                                                                *)
(***************************************************************************)
Id(b) == IF b = <<>> THEN 0 ELSE b[1]

\* Parameter k of a request; one that did not come counts as zero.
Param(b, k) ==
    IF 1 + k * LongWords <= Len(b) THEN b[2 + (k - 1) * LongWords] ELSE 0

\* Mutant: a sum without width.
PlusUnwrapped(a, b) == a + b

Plus(a, b) == (a + b) % ValueMod

Long(v) == IF LongWords = 1 THEN <<v>> ELSE <<v, 0>>

Greeting == <<Text, Text, Text, Text>>

\* The sample application knows one message: it returns the two parameters,
\* their sum and a greeting.
Result(b) ==
    IF Id(b) = 1
    THEN <<1>> \o Long(Param(b, 1)) \o Long(Param(b, 2))
               \o Long(Plus(Param(b, 1), Param(b, 2))) \o Greeting
    ELSE <<Id(b)>>

Reply(c, ep, cl, fd, b) ==
    [cmd |-> c, to |-> ep, client |-> cl, relayFd |-> fd, body |-> b]

AnswersTo(d) ==
    CASE d.cmd = "QUERY_DS_IP_TO_DNS_SERVER" ->
             {Reply("SERVER_PUNCHING", d.client, NoPublicAddr, 0, <<>>)}
      [] d.cmd = "QUERY_DS_IP_TO_LOCAL_DS" /\ d.named ->
             {Reply("QUERY_DS_IP_TO_LOCAL_DS", d.from, NoPublicAddr, 0, <<>>)}
      [] d.cmd \in {"QUERY_DATA_TO_REMOTE_DS", "QUERY_DATA_TO_LOCAL_DS"} ->
             {Reply("REMOTE_DS_DATA_RESP_TO_CLIENT", d.from, NoPublicAddr, 0,
                    Result(d.body))}
      [] d.cmd = "QUERY_DATA_RELAY_TO_REMOTE_DS" ->
             {Reply("REMOTE_DS_DATA_RESP_RELAY_TO_CLIENT", d.from, d.client, 0,
                    Result(d.body))}
      [] d.cmd = "QUERY_DATA_HTTP_TO_REMOTE_DS" ->
             {Reply("REMOTE_DS_DATA_RESP_HTTP_TO_CLIENT", d.from, d.client,
                    d.relayFd, Result(d.body))}
      [] OTHER -> {}
-----------------------------------------------------------------------------
Ask(c) ==
    /\ \E q \in Messages[c] :
         /\ asked' = [asked EXCEPT ![c] = @ \cup {q}]
         /\ inNet' = inNet \cup {RequestOf(c, q)}
    /\ UNCHANGED outNet

\* A request taken from the network may come again.
Taken(d) == inNet' = inNet \/ inNet' = inNet \ {d}

Serve(d) ==
    /\ Receivable(d) /\ Whole(d)
    /\ outNet' = outNet \cup AnswersTo(d)
    /\ Taken(d)
    /\ UNCHANGED asked

\* DTPLink_Recv refuses a datagram that nearly fills its buffer, and nobody
\* gets an answer to a query that ends inside its header.
Refuse(d) ==
    /\ ~Receivable(d) \/ ~Whole(d)
    /\ Taken(d)
    /\ UNCHANGED <<asked, outNet>>

LoseRequest ==
    /\ \E d \in inNet : inNet' = inNet \ {d}
    /\ UNCHANGED <<asked, outNet>>

\* A reply is lost, or reaches the client it is for.
ReplyLeaves ==
    /\ \E m \in outNet : outNet' = outNet \ {m}
    /\ UNCHANGED <<asked, inNet>>

ServiceNext ==
    \/ \E c \in Client : Ask(c)
    \/ \E d \in inNet \cup Notices : Serve(d) \/ Refuse(d)
    \/ LoseRequest
    \/ ReplyLeaves

ServiceSpec == ServiceInit /\ [][ServiceNext]_serviceVars
=============================================================================
