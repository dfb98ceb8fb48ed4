# OpenDSLite in TLA+

OpenDSLite is the device-server side of DTPLink: a small C program that runs on
a device behind a NAT, finds out which public address the device has, registers
the device under a name at a *center server*, and then answers clients, either
directly (after UDP hole punching) or relayed through the center server. It has
one main thread, one keep-alive thread, one UDP socket in use, and no
acknowledgement, sequence number or checksum of its own: everything it believes
comes from datagrams that may be lost, late, duplicated or somebody else's.

This directory models that program. Line numbers are those of
`src/OpenDSLite/`; `PROJECT.json` maps every definition to its lines.

## 1. Inventory

| component | source | state | operations | in this project |
|---|---|---|---|---|
| main loop | `dtplink_ds.c` 138-293, 510-654 | `mStatus`, `mRunningMode`, `mIP`, `mCS2`, `mRecvRetryCount`, `mSendRetryCount` of the context; the local `MIP1`; the two `first_time` statics | one iteration of `DTPLink_DSLoop`: poll once, then the branch for (state, datagram) or (state, nothing) | `DeviceServer` |
| keep-alive thread | `dtplink_ds.c` 656-675, `dtplink_linux_netio.c` 232-244 | the datagram composed when it starts | compose once, then wait and send for ever | `DeviceServer` |
| network, NAT, servers, other senders | external | address mapping, datagrams in flight and in the socket, the record at the center server | answer, lose, delay, duplicate, reorder, send unasked | `DSSystem` |
| client requests, relay headers | `dtplink_ds.c` 295-484, `dtplink_util.c` 30-82 | `REQUEST_INFO`, `RESPONSE_INFO` | reset, dispatch, parse, unpack, application, reply | promise: `RequestService`; handlers: `ClientRequests`; which reply goes where: `DeviceServer` |
| codec | `dtplink_util.c`, `dtplink_buffer.c` | `head`, `tail`, `length`, bytes | `WRITE_*`, `READ_*`, reset | `Codec` |
| start-up | `ds.c`, `dtplink_ds.c` 97-136, 487-508 | context, cached endpoints | `DTPLink_DSInit` step by step | steps: `Boot`; outcome: `DeviceServer` |
| network layer | `platform/linux/dtplink_linux_netio.c` | two cached sockets | open, receive, send, resolve, wait, start a thread | receive/send outcomes: `DeviceServer`, `DSSystem`; lengths: `ClientRequests`; endpoints, resolution: `Boot` |
| network layer, Windows | `platform/windows/*` | same | same, and `DTPLink_InitNetwork` | what differs: `ClientRequests` (a datagram too large), `Boot` (Winsock) |
| application | `dsapp.c`, `ds.c` 13-37 | none | pack and unpack generated messages, add two numbers | `RequestService`, `ClientRequests`; as callers of the codec: `Codec` |
| configuration, types | `dtplink_config.h`, `dtplink_datastruct.h`, `dtplink_ds.h` | constants | - | `DTPLink`, constants of the modules |

How they interact. `main` calls `DTPLink_DSInit` (whose result it ignores) and
then `DTPLink_DSLoop`, which never returns. The loop polls the non-blocking
socket every 500 ms. The third probe's answer starts the keep-alive thread,
which shares the context with the loop without any lock; the only field of it
that changes while both run is `mRunningMode`, read once by the new thread. All
other interaction is by datagram.

What is hard, and what makes each part correct (the list at its lines is
`hazards` in `PROJECT.json`):

- *Ordering inside a handler.* `RegisterDS` reads the running mode; whether the
  handler sets the mode before or after calling it differs between branches.
  Correct: what is registered, what the keep-alive repeats and what the context
  says agree.
- *Late and repeated answers.* Probes are retransmitted with no identifier;
  their answers are told apart only by command, source and current state.
  Correct: a stale answer never moves the server backwards, never starts a second
  thread, and a server that calls itself direct really has been seen behind that
  one address.
- *Retries.* Two counters, one of which is a `UInt8` bumped in every state, and
  the give-up test precedes the retransmission test. Correct: every waiting state
  has a fixed budget of empty polls and the counters mean what their names say.
- *Liveness.* A datagram that is no answer consumes a poll and is counted
  nowhere; once online, nothing but the keep-alive thread repairs a wrong record.
- *Partial failure.* Giving a probe up skips what the answered path does;
  start-up may stop half way, `main` does not look, and what a failed attempt
  leaves behind (cached sockets, a descriptor nobody closes) meets the next one.
  Correct: the loop starts idle or probing and nothing else; start-up never
  competes with itself for a port; repeated, it succeeds once it can.
- *Shared buffers.* Requests of all clients go through one pair of buffers, whose
  readers and writers check bounds in six different ways and report to callers
  that do not look. Correct: a reply is a function of one request, fits its
  array behind its header, and reaches the client that asked.

## 2. Modules

`DTPLink` (vocabulary: endpoints, states, modes, commands, datagrams)
: `MappedMode` is the macro `SetMappedIPAddress2`, `ModeFlag` the letter chosen
  in `RegisterDS` and `DTPLink_DSHeartBeat`, `NextPort`/`PrevPort` the 16-bit
  `port+1`/`port-1`. Addresses are model values; the two reserved ones
  (0 and -1) are constants.

`DeviceServer` (the program)
: One action per branch of the loop, named after the handler it runs
  (`OnCenterServerResponse`, ..., `OnDSRegisterResponse`, `ProcessClientRequests`,
  `IgnoreDatagram`) or after what an empty poll does (`GiveUpPhase1`,
  `GiveUpPhase23`, `GiveUpDNS`, `Retransmit`, `KeepPolling`), `DSInit` and
  `DSInitFails` for start-up, and `HeartBeatCompose`/`HeartBeatSend` for the
  thread. An iteration is one atomic step: the loop has one socket read per
  iteration, at its start, and the only thing shared with the other thread is
  `mRunningMode`, which that thread reads once, in a step of its own; where in the
  iteration it falls matters only for the old and the new value, and both are
  reached by putting the read before or after the step. The thread is created
  last in its iteration, after the mode is set. The environment is arbitrary:
  any datagram of `Inbound` may arrive at any poll, and `outNet` may lose
  anything at any time (`OutNetDrained`).

| variable | code |
|---|---|
| `pc` | whether `DTPLink_DSInit` has returned |
| `remoteFd` | `mRemoteFd` is a usable socket; receiving from any other fails, which is an empty poll |
| `status`, `mode`, `mIP`, `mCS2`, `recvRetry`, `sendRetry` | `mStatus`, `mRunningMode`, `mIP`, `mCS2`, `mRecvRetryCount`, `mSendRetryCount` |
| `MIP1` | the local of `DTPLink_DSLoop`, `Unset` while uninitialised |
| `punched` | the `first_time` statics of `PingCenterServer` and `PingAuxServer` |
| `heartbeats` | one entry per running keep-alive thread: `"unread"` or the letter it sends |
| `outNet` | datagrams sent and in flight (a set: a repeated datagram is the same datagram) |

`Lifecycle` (what the program promises)
: idle, probing, registering, online; how the server is reached is decided once;
  who does not ask to be relayed keeps its registration alive. `DeviceServer`
  implements it (`ImplementsLifecycle`), hiding the mode while it probes.

`DSSystem` (the program in its network)
: `DeviceServer` with the arbitrary environment replaced by the one it is meant
  for: a fixed but arbitrary NAT (`natMap`), a center and an auxiliary server that
  answer with the address they saw and keep a `registration`, a network that
  loses, delays, reorders and duplicates (`inNet`, `outNet`, `dups`), and everybody
  else who may send to the server's port. Such a datagram (`Strays`) may have any
  command, that of an acknowledgement included, and any source; the one thing ruled
  out is a bind answer from an endpoint the server probes, which only the server
  probed there sends. It arrives in the socket (`StrayArrives`, `arrived`), and the
  poll that takes it from there (`DeliverStray`) is a step even if the loop ignores
  it: it empties the socket and counts nowhere (line 535). While something is in the
  socket no poll comes back empty. The servers are not in the repository; they are
  external and do only what the code relies on.

`Codec` (the two message buffers)
: One message after the other through the library: packed field by field with
  `WRITE_*` into the response buffer of one side, carried in a datagram, unpacked
  with `READ_*` from the request buffer of the other, in the order of the
  generated functions of `dsapp.c`, whose habit of ignoring results it has too.
  Values are left out; a field is its kind and size, and what can go wrong is
  where it is written, where it is read, and what ends it. `WRITE_FIXED` and
  `READ_FIXED` stand for the byte, word, dword and float functions, which differ
  only in the size (the dword's is that of `unsigned long`, four or eight). Each
  side clears its buffers before a message; `zeroFrom` says from where the
  response buffer holds zeros, for `WRITE_STRING` skips the byte that ends the
  string and trusts it to be zero. A reader that is out of step (after a field
  that was refused) finds any size. `WRITE_RAW` can leave the buffer; and a
  message longer than the array behind its header is copied past the end of that
  array (`CarryOverrun`), while one that just fits is sent and refused by
  `DTPLink_Recv` (`CarryTooLarge`). At an overrun the model stops, and so this module
  is the only one checked without deadlock.

`RequestService` (what an online server promises its clients)
: Clients ask (`Ask`) directly or through the center server, over UDP or in an
  HTTP tunnel; the network loses, reorders and repeats (`Taken` may leave a request
  where it was); the server answers a request it can receive whole (`Serve`) with
  `AnswersTo(d)`, a function of that request alone. What else arrives (`Notices`) is
  late answers, keep-alives, name queries, and data queries that end inside their own
  header, to which nobody owes an answer (`Refuse`). There is no buffer in it. A
  body is a sequence of cells: the identifier, two bytes, and then four bytes
  each, so that an `unsigned long` is one cell or two (`LongWords`). `Profile` says
  how each client reaches the server.

`ClientRequests` (the handlers; implements `RequestService`)
: `REQUEST_INFO` and `RESPONSE_INFO` with what they contain, `head`, `tail` and
  `length`. One action per handler `ProcessClientRequests` dispatches to:
  `OnReceiveDNSQueryRequest`, `OnReceiveLocalDNSQueryRequest`,
  `OnReceiveDataQueryRequest` (remote and local, which the code treats alike),
  `OnReceiveRelayDataQueryRequest`, `OnReceiveHttpDataQueryRequest`,
  `OnReceiveOther` (which only resets the buffers), and `RecvFails`. Under the data
  handlers is the whole path: the length `msgLen - 2` and what the relay parsers
  subtract from it, in 16 bits; `READ_WORD` and `WRITE_WORD` of the identifier;
  `device_server_main` with the generated unpack and pack functions; the header.
  Nothing in the code checks that length. For a query that ends inside its header it
  is 65535 or negative, a huge size for the `memcpy` into `REQUEST_INFO`: `Copied`
  then goes to `Overrun`, which notes the datagram in `overrunBy`. What the program
  does after that is undefined, and the model ends there (`Ended`), so that
  `ImplementsService` and `AnswersReach` speak of the time before it.
  `READ_DWORD` is given the address of a four-byte field and writes an `unsigned
  long` there (`Stored`): where that has eight bytes the next field is overwritten
  with zero and then read itself; after the last field the zero goes behind the
  structure (`fields[3]`), where the build of the makefile has nothing that is read
  afterwards (section 7). The sum wraps, as the compilers of the project make it.
  `DTPLink_Recv` is that of the platform: Linux cuts a large datagram off, Windows
  fails.

`Boot` (start-up; implements `DeviceServer`)
: The steps of `DTPLink_DSInit` in order: Winsock (Windows only), the checks of the
  name, resolution (an address, 0.0.0.0, or NULL, which ends the process), the
  endpoint for the Internet, the one for the intranet, the first ping.
  `DTPLink_GetLocalEndpoint` keeps both sockets in statics and opens a port only
  while it has none; `DTPLink_OpenPort` leaves a socket it cannot bind open
  (`lost`). The other processes of the machine take and release the ports, the
  name service changes its mind, descriptors run out at `FdMax`. After a failure
  `ds.c` enters the loop (`EnterLoopAnyway`); an application that looks at the
  result may call `DTPLink_DSInit` again (the first steps are enabled at
  `"failed"` too), which `ds.c` never does but the cached statics are written for.
  In the loop the machine stands still, for nothing there depends on it.

`DeviceServerProofs`, `DSSystemProofs`, `CodecProofs`, `ClientRequestsProofs`,
`BootProofs` (theorems), `MCDeviceServer`, `MCDSSystem`, `MCClientRequests`,
`MCBoot` (instances for TLC).

How they fit together: `Boot` implements `DeviceServer`, which implements
`Lifecycle`; `DSSystem` is `DeviceServer` in its network and implements it;
`ClientRequests` opens up the one step `ProcessClientRequests` of `DeviceServer`,
whose `Replies` are those of `RequestService` without lengths and bodies
(theorem `SameReplies`); `Codec` is the library under it for any message, where
`ClientRequests` has the messages of the sample application.

Definitions marked `Mutant:` sit before the definition they vary. They are
plausible mistakes (a guard dropped, a comparison missing, a wrong order); with
one of them in place TLC finds the property named in `PROJECT.json` violated,
which shows that the property constrains this code.

## 3. Runs

| run | module, cfg | question |
|---|---|---|
| `ds_core` | `MCDeviceServer` | do the loop and the thread keep their invariants, action properties and the life cycle whatever arrives? 368 163 states |
| `ds_system` | `MCDSSystem`, `MCDSSystem.cfg` | behind every NAT of the instance, over a bad network and with datagrams from anybody, is what the server concludes true? 923 696 states |
| `ds_live` | `MCDSSystem`, `MCDSSystemLive.cfg` | does the server get online, and is a wrong record repaired? 125 840 states |
| `stale_registration` | `MCRecordMatchesMode.cfg` | finding 1 |
| `relay_not_kept_alive` | `MCRelayKeptAlive.cfg` | finding 2 |
| `mismatch_overridden` | `MCMismatchMeansRelay.cfg` | finding 3 |
| `codec` | `Codec`, `Codec.cfg` | does what is written and sent come back as it was, and who leaves the buffers? 15 454 states |
| `codec_raw_tail` | `CodecWrittenIsSent.cfg` | finding 4 |
| `client_requests` | `MCClientRequests`, `MCClientRequests.cfg` | is every request answered to who asked, with its own answer, and what overruns the buffer? 157 500 states |
| `width_mismatch` | `MCSumReachesAll.cfg` | finding 5 |
| `boot` | `MCBoot`, `MCBoot.cfg` | does start-up, however it fails and however often it is repeated, lead where `DeviceServer` starts? 1 443 states |
| `lookup_failure` | `MCLookupFailure.cfg` | finding 6 |

`ds_core` checks `TypeOK`, `RetryBudget` (at most `SendRetryMax` retransmissions,
fewer than `RecvRetryMax` empty polls since the last, none after the last one),
`OneHeartbeat`, `ProbedBeforeCompared` (`MIP1` has no initialiser),
`ModeMatchesAddress`, `HeartbeatTellsMode` (the one unsynchronised read),
`EmptyPollsRunOut` (a variant for the whole of start-up: `PollsToOnline` never
rises, and every iteration that does anything before the server is online lowers
it), `OnlineIsSettled` (no late answer undoes a decision) and `ImplementsLifecycle`
(which includes that no path to direct mode, through retries and late answers,
leaves out the keep-alive thread; finding 2 is that paths to relay mode do).

`ds_system` checks `DirectMeansOneMapping` (who calls itself direct holds the
address both servers saw), `AcknowledgedWhenRecorded` (no late, repeated or lost
answer of the servers gets an unrecorded server online; only a stray datagram with
the command of a registration does, see section 6), `DirectClaimConfirmed` (the record never says D for a server
whose later probes all contradicted the first) and `WrongLettersDieOut` (once
registration has started, registrations in flight that contradict the mode only
get fewer, and a right record that none of them threatens stays right). `ds_live` checks `GetsOnline` and
`RegistrationRepaired`. `codec` checks `OnlyRawOverruns` (each `WRITE_*` checks the
space on its own; only `WRITE_RAW` gets it wrong), `ReadsBack` (the round trip, up
to the first field that was refused or not sent) and `ReadsStayInside` (a reader
thrown out of step by a refused field still stays inside the buffer).

`client_requests` checks `RequestInside` (the request buffer is overrun by nothing but
a data query that ends inside its header; everything else, the longest query that
`DTPLink_Recv` accepts and the one-byte keep-alive included, leaves a length within
the buffer, and no reader passes what came), `RepliesFit` (only the response is checked
against the array it shares with a header), `AnswersReach` (from client to client:
the reply is for somebody, and shows that client the sum of something it asked)
and `ImplementsService`. `boot` checks `OwnEndpoints` (the caches are the ports
bound), `FailedStaysQuiet` (a server that lacks an endpoint never sends, starts no
thread and never gets online), `ImplementsDeviceServer`, `UsableAttemptSucceeds`
(an attempt that finds the machine usable does not fail, whatever earlier ones left
in caches and descriptors) and `RetryStartsUp` (a start-up that is repeated succeeds once ports and name service allow it and
descriptors are left; without the last premise it does not, because of the
sockets that stay open).

**Bounds, and why they are enough.** The code retries 8 times 8 polls with 8-bit
counters. The instances use `RecvRetryMax` 2 or 3, `SendRetryMax` 1 or 2 and
`CounterMod` 3 or 5, the smallest values at which a phase has first, middle and
last retransmissions, both counters reach their maxima, and the receive counter
wraps (in `ONLINE`, where nobody compares it). The safety results are then proved
for all values with `0 < RecvRetryMax < CounterMod` and `SendRetryMax < CounterMod`
(section 5). Two public addresses suffice because the code only compares for
equality; all four patterns of agreement of the second and third probe with the
first are instances of `NatMaps`. `DupsMax` bounds duplicated deliveries of a
behaviour (1 in `ds_system`, where every answer is a candidate; 0 in `ds_live`,
where it only adds states; repeated answers to retransmitted probes occur in both,
and `ds_core` delivers anything at any time without a bound). `Watched` leaves
out of `outNet` the datagrams that nothing in the model receives: in `ds_core`
nothing is left out, in `DSSystem` only requests the servers answer are kept.

`Strays` of `ds_system` are a client's data query, a datagram with the command of a
registration, and a bind answer from a port that was not asked; `ds_live` has the
first two. One of each may be in the socket at a time, and each may come again for
ever.

In `codec` a buffer of 12 bytes with fields of 1, 4, 0, 3 and 9 bytes and messages
of up to four fields has messages that fit, fill the buffer exactly, are too
large for the receiver or for the array they are sent from, are refused in part and then accept a smaller field,
and overrun with raw data.

In `client_requests` the buffers have 64 bytes: one reply behind the longest header
fits (56 bytes), two in a buffer that was not emptied do not, and a tunnelled
request of six eight-byte parameters is refused. The clients are one of each kind,
two of them in the tunnel behind one address; values below 4 make a sum wrap; one
request lacks a parameter, one names no message of the application; a direct query
of one byte, relayed ones of one and of eight, and a tunnelled one of thirteen end
inside their headers. The sizes of
the code (256, 2^32, one or two cells) are covered by the proofs. In `boot`,
`FdMax` 4 lets two attempts fail before the descriptors for two endpoints are gone
and then run out; one kind of name is refused for being empty, one for its length,
one accepted; each probe has one answer, for the loop is `ds_core`'s business.

**Deadlock** is checked in the runs of the server: the loop and the keep-alive
thread never terminate, so no reachable state is without a step. A process that
a failed lookup has ended leaves the other processes of its machine running.

## 4. Fairness

`FairSysSpec` assumes weak fairness of `Boot`, of `Iteration` and of `Beat`:
both threads are endless loops around a sleep and no lock can hold them up. No
fairness is assumed of delivery to the server: `Iteration` may always be an empty
poll, so every answer can be lost. Handling a *registration* has strong fairness,
per letter: a datagram sent again and again (the keep-alive thread never stops)
is not lost every time. Only `RegistrationRepaired` needs it. `GetsOnline` has
the premise that stray datagrams stop arriving at some point; without it TLC
shows the starvation that line 535 allows: the datagram that answers nothing is in
the socket, taking it is the poll of that half second and counts towards neither
counter, and before the next poll another has arrived.

`FairBootSpec` assumes weak fairness of `Start`, since the main thread does not
stop, and strong fairness of `AcceptName`: an application that repeats a failed
start-up does not pass unacceptable arguments, or fail at Winsock, for ever.
Nothing is assumed of the machine; `RetryStartsUp` has as its premise that it
becomes usable. `client_requests` checks safety only: UDP promises nothing else.

## 5. Proofs

All safety properties of `ds_core`, `ds_system`, `codec`, `client_requests` and
`boot` are theorems, for every value of the constants that satisfies the
assumptions `HostAssumption`, `InboundAssumption`, `AddressAssumption`,
`RetryAssumption`, `SystemAssumption`, `CodecAssumption`, `SizeAssumption`,
`ServiceAssumption`, `ProfileAssumption`, `NoticeAssumption`, `PlatformAssumption`,
`ServerAssumption` and `BootAssumption` (which a passing run evaluates for its
instance).

`DeviceServerProofs`. `TypeOK` alone is not inductive for what we want:
`HeartbeatTellsMode` needs that no thread exists before registration, the mode
agreement that the mode may only change once registration has started by a
fallback to local. `IInv` conjoins `TypeOK`, the other five invariants and `BootFirst`
(what holds before start-up has returned). `Invariance` proves
`DSSpec => []IInv`, one lemma per action; from it follow `TypeCorrect`,
`RetriesBounded`, `KeepAliveOnce`, `NoUninitialisedCompare`, `ModeAgrees`,
`HeartbeatTruthful`, and, step by step under it,
`PollsRunOut`, `OnlineSettled` and `LifecycleImplemented` (the refinement: initial
states map to initial states and each step to a step of `Lifecycle` or a stutter).
`PollsRunOut` needs of the invariant that the counters of a waiting state are
within their bounds: then a phase has between one poll and `PhasePolls` left
(`PollsLeftRange`), so moving on to the next phase, where the counters are reset,
still lowers the sum (`MovingOnUsesUp`).

`DSSystemProofs`. `SystemImplementsDeviceServer` shows that `SysSpec` implements
`DSSpec`: the real environment is a case of the arbitrary one, so every theorem
above holds of the system too (`SystemLifecycle` says so for the life cycle,
`SystemProgress` for the budget of polls). The system's own invariant says that every
answer in flight is one the servers give behind this NAT (`NetInv`), what the server
has concluded from the answers it took (`ProbeInv`), which letters may be in flight,
in the thread or on record (`ClaimInv`), and that an acknowledgement of the center
server is in flight only after a record (`RecordInv`). No stray datagram passes for
the answer to a probe (`StrayIsNoProbe`), for the loop compares the sources there. From
these: `ProbesTrue`, `DirectIsReachable`, `RecordsTrue`, `ClaimsConfirmed`,
`AcknowledgementsTrue`, `SysTypeCorrect`. `WrongLettersDwindle`
shows that from the start of registration on both senders of registrations, the
retransmission and the thread, send the current mode (`TrueLettersRepair`), and
`RepairIsFinal` that an online server that is once on record as what it is, with no
wrong letter in flight, stays so for ever.

`CodecProofs`. `ReadsBack` relates two sequences through offsets, so the invariant
`CInv` says how written fields lie (`Layout`: each ends at or before the next and
before `tail`; without a refusal there is no gap), and where the reader stands
(`Received`: at the end of the last field, as long as all before it were written
and sent). That a reader finds the right size is that no two written fields
begin at the same offset (`SizeAtField`). Theorems `RoundTrip`,
`WritesStayInside` and `ReadsInside` hold for any buffer, word and field sizes.

`ClientRequestsProofs`. The heart is `ProcessedIsResult`: from buffers in any state,
what a data handler leaves in the response buffer is `Result` of the request's
body, by cases over how many of the two parameters came, for one and two cells.
`ReqInv` says that every request in flight is one a client asked and every data
reply the answer to such a request (`Origin`), where `head`, `tail` and `length`
stand, and how long a reply can be. From it: `ReqTypeCorrect`,
`RequestStaysInside`, `RepliesAlwaysFit`, `ServiceImplemented` (each handler is a
`Serve`, with the buffers hidden) and `AnswersAlwaysReach`, for any number of
clients, any messages, any buffer of at least 64 bytes and both platforms.
`SameReplies` ties the answers to `DeviceServer`. Which datagrams overrun the request
buffer is `LengthsComputed` (of a whole query the handlers compute the length of its
body) and `LengthsWrong` (of one that is cut off, a length outside the buffer:
negative, 65535, or that less a relay header).

`BootProofs`. `OwnEndpoints` alone does not say what a step of start-up needs to
know; `BootInv` adds that the context is untouched before the loop (`Idle`), that
the copies of the endpoints in the context are right when they are compared, and
that descriptors lost and cached stay within `FdMax` (a fact about cardinalities).
From it: `BootTypeCorrect`, `EndpointsAreOwn`, `FailedStartIsQuiet`, and
`DeviceServerImplemented`: the steps before the last stutter, `Ping` is `DSInit`,
`EnterLoopAnyway` is `DSInitFails`. `UsableStartSucceeds` is by the step the
attempt is at: either the cache already has the socket, or `Usable` leaves a
descriptor and a port for it. The last section composes: it instantiates
`DeviceServerProofs` with the refinement mapping, shows that the assumptions there
follow from those of `Boot` and that the two instances of `DeviceServer` say the
same, and so obtains `BootedServerSafe` (the invariants), `BootedProgress` (the
action properties) and `BootedLifecycle` (`Boot` implements `Lifecycle`) for a
server whose start-up failed and was repeated any number of times.

Only model-checked: that `GetsOnline`, `RegistrationRepaired` and `RetryStartsUp`
come about, for liveness under fairness is beyond the prover. What their arguments
need of single steps is proved: `PollsRunOut` is the variant that makes every
phase end, `RepairIsFinal` that a repair lasts, `UsableStartSucceeds` that an
attempt on a usable machine does not fail. What is left to TLC is that fair threads
keep iterating, and that a registration sent for ever arrives. And the six
disagreements below are only model-checked, being violations.

## 6. Findings

1. **The registration carries the previous mode** (`dtplink_ds.c:561`).
   `RegisterDS` is called inside `OnReceiveAuxServerResponse`, before the third
   probe's mapped address sets the mode. A server that is about to be relayed may
   register as direct and one about to be direct as relayed; if that registration
   is the one acknowledged, the server is online with a record that contradicts
   its mode until the keep-alive thread's first send, 30 s later.
   `RegistrationRepaired` shows that the thread does repair it.
2. **A relayed server without keep-alive** (`dtplink_ds.c:604-611`, `618-625`).
   Giving up the second or third probe registers the server as relayed but never
   starts the thread that keeps the path to the center server open.
3. **A failed second probe is forgotten** (`dtplink_ds.c:549`, `566`). The code
   announces relaying when the second probe contradicts the first, but sets the
   mode back to direct if the third agrees with it. (`DirectMeansOneMapping` shows
   that the address it then holds is right as far as the two servers' first
   ports go.)

4. **Raw data at the end of a reply is not sent** (`dtplink_util.c:163`).
   `WRITE_RAW` moves `tail` but not `length`, which is what is copied into the
   reply. Its space check also leaves out the two bytes of the length field and
   uses that stale `length`, which is why `OnlyRawOverruns` exempts it.
5. **The width of a parameter depends on the machine** (`dsapp.c:14`). Parameters
   declared INT32 (`sample.com/config.json`, `Int32` in `dsapp.h`) travel as `unsigned
   long`: eight bytes on 64-bit Linux, four on Windows. Peers of different widths
   misread each other; `AnswersReach` shows that peers of the same width do not,
   although each read overwrites the field after its own.
6. **A failed name lookup is not reported** (`dtplink_linux_netio.c:129`).
   `DTPLink_DNSResolve` dereferences what `gethostbyname` returned without testing
   it, so the message `Can't find DNS!` of `InitDSContext` is only reached by a name
   that resolves to 0.0.0.0.

Two things that the passing runs show to be exceptions rather than rules:

- The acknowledgement of a registration is recognised by its command alone
  (`dtplink_ds.c:573`), where the answers to probes are matched against the endpoint
  that was asked (lines 539, 545, 555). One meant for an earlier holder of the port,
  or any other datagram of that command, and the server reports `regist
  successfully!` and goes online while the center server has nothing on record.
  `AcknowledgedWhenRecorded` names this case and shows that there is no other. A
  keep-alive thread, where one runs, registers the server in the end
  (`RegistrationRepaired`).
- The length of a data query's body is not checked against its header
  (`dtplink_ds.c:582`). `RequestInside` names the queries that are too short for it
  and shows that no other datagram leaves the buffer.

## 7. Not modelled, and why

- The bytes of datagrams: a body is the addresses it carries. Bodies shorter
  than their fields read as zeros, because the receive buffer is cleared before
  each poll, and are covered by datagrams whose address is zero.
- Names: a query is for this server or not (`named`).
- Time: the length of a poll or of a heartbeat. Any number of polls may pass
  between two steps of the thread.
- `DTPLink_Send`'s result, which no caller looks at: a failed send is a lost one.
- Failure of `pthread_create`, whose result is ignored: the thread is assumed to
  start.
- What the program does after it has overrun a buffer. Which steps overrun one is
  modelled, and the model ends there.
- Data queries whose body is empty or a single byte, for which the identifier reads as
  zero: they are answered like one that names message 0, which is modelled. Requests
  with a parameter missing are modelled.
- The stack behind the request structure of `device_server_main`. With an
  `unsigned long` of eight bytes `READ_DWORD` writes four zero bytes past its last
  field. What lies there is the compiler's choice. Built as the makefile says
  (`-Os`, looked at with gcc 12 for x86-64) it is the response structure, all zero
  at that moment and filled afterwards (`ds.c:19-26`), so that the write changes
  nothing, and that is what the model takes. In a build without optimisation it
  is the frame of the caller, and nothing said here of such requests holds.
- The names a server registers under, and with them names of 252 to 255
  characters, which `InitDSContext` accepts and whose registration would not fit.
- The destinations of `READ_STRING` and `READ_RAW`: no handler in the repository
  reads a string or raw data.
- NAT traversal beyond what the device server sees: hole punching succeeds or fails
  in the NATs, the choice between direct and relayed requests is made by center
  server and client, and none of the three is in the repository. The server's
  part, one `SERVER_PUNCHING` to the address a query names and the echo of relay
  headers, is in `DeviceServer` and `ClientRequests`. A model of the rest would be
  about code that cannot be compared with anything.
- The build files and the web pages under `sample.com`.

## 8. Plan

Done: `DTPLink`, `DeviceServer` with `Lifecycle`, `DSSystem`, `Codec`,
`RequestService` with `ClientRequests`, `Boot`, their runs and the proofs of their
safety properties. The planned module of NAT traversal was dropped (section 7).
Left:

1. A restart of a device that is on record at the center server: `DSSystem` with
   the steps of module `Boot` in place of its action of that name, whose first ping
   then meets answers to the probes of an earlier life.
2. `pthread_create` failing, as a second outcome of `StartKeepAlive`; `RelayKeptAlive`
   already shows what the missing thread means.
3. Handlers with strings and raw data in their requests, once the repository has
   one: `ClientRequests` over the readers of `Codec`.
