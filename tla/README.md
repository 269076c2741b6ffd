# A TLA+ model of dmsg

dmsg lets two clients that are connected to a common server talk over
*transports*: numbered channels multiplexed over each client's connection to
the server, which forwards frames between connections and rewrites the numbers.
This directory models the parts of the Go code in `src/` that are concurrent,
model-checks them with TLC on small instances, and proves the most important
safety properties with TLAPS for all instances.

    cd tla
    tlc -config MCTransportRead.cfg MCTransport     # one run of PROJECT.json
    tlapm TransportProofs.tla                       # one proof module

`PROJECT.json` lists the runs, the source lines behind each definition, the
mutants (a deliberate bug per property, which the property must catch), the
known disagreements between code and documentation, and the hazards.

## Inventory

| Part | State | Operations that change it | What is hard about it |
|---|---|---|---|
| Ack waiter, `ioutil/ack_waiter.go` | `nextSeq`, map of channels | `Wait`, `Done`, `StopAll` | channels that are closed while others send; a `uint16` that wraps |
| Transport, `transport.go` | `done`, `serving`, `inCh`, `bufCh`, `buf`, `bufSize`, `ackBuf`, three mutexes, two `sync.Once` | `HandleFrame`, `ReadAccept`, `Serve`, `Read`, `Write`, `close` | up to seven kinds of goroutine; closing under load; held ACK frames |
| Client connection, `client_conn.go` | `tps`, `nextInitID`, `done`, WaitGroup | `Serve`, `DialTransport`, `handleRequestFrame`, `close` | a map that lags behind the frames; id reuse |
| Server connection, `server.go` | `nextConns`, `nextRespID` | `Serve`, `handleRequest`, `forwardFrame`, `delChan`, cleanup | two maps updated one after the other by two goroutines |
| Client, `client.go` | `conns`, `done`, discovery entry | `findOrConnectToServer`, `setConn`, `delConn`, `Close` | duplicate connections, reconnecting, close in the middle |
| Server, `server.go` | `conns`, `lisDone` | accept loop, `setConn`, `delConn`, `Close` | deletes by key, not by connection |
| Listener and port manager, `listener.go`, `port_manager.go` | accept queue, map of listeners | `IntroduceTransport`, `AcceptTransport`, `close`, `NewListener` | closing while transports are introduced |
| Frame codec, `frame.go` | none | `MakeFrame`, `readFrame` | 16-bit length and id |
| Noise, `noise/` | cipher states, sequence numbers, read buffer | `Handshake`, `Accept`, `Read`, `Write` | packet length, time limit of the handshake, concurrent writers |
| Discovery, `disc/` | entries with sequence numbers | `SetEntry`, `UpdateEntry` | concurrent updaters |

How they interact: `Client` owns one `ClientConn` per server, `ClientConn.Serve`
reads frames and hands each to the `Transport` of its id (`HandleFrame`) or, for
a REQUEST, to a `Listener`. Transports write their frames to the shared
connection themselves. On the server, `ServerConn.Serve` of the sending client
looks up the next connection and writes to it. A transport uses an ack waiter to
block `Write` until the peer's ACK frame arrives. Below all this, a connection is
a `noise.Conn`, which encrypts each frame into a packet of its own. Client and
server keep an entry each in the discovery service, by which clients find the
server that both are connected to.

What correctness means, part by part:

* ack waiter: never panics on a closed channel, loses no waiter, releases all on `StopAll`;
* transport: never panics, `close` gets through, wakes readers and writers, at
  most one CLOSE frame, exactly one ACK frame per FWD frame, an exact buffer count;
* connections: frames of one dial never reach another, the associations of the
  two connections agree and are reclaimed, a dial is answered, CLOSE frames do
  not circulate for ever;
* one connection with its listener: no panic on the accept channel, the map of
  transports is right, `Close` ends everything on it;
* noise: both ends get matching keys, frames arrive whole and in order, `Accept`
  is not held up for ever;
* discovery: the newest update wins, whatever requests are lost or late;
* client and server: neither map keeps a connection that nobody serves, the
  discovery entry follows the map, a lost connection comes back, `Close` is final.

## Modules

| Module | Models | Composition |
|---|---|---|
| `AckWaiter` | `Uint16AckWaiter` | |
| `Transport` | one `Transport` with the goroutines that share it | contains an `AckWaiter` (`INSTANCE`), of which `Write` and `HandleFrame` take the steps |
| `Relay` | all `ClientConn`s and `ServerConn`s of one server, with dialing, FWD, ACK and CLOSE frames | transports are reduced to their protocol state |
| `Sessions` | the connections between one `Client` and one `Server` over time | connections are reduced to up and down |
| `ClientConn` | one `ClientConn` with all its goroutines, a `Listener` and its port | transports are open, closing or closed |
| `Noise` | encrypted connections: handshake, `Accept`, packets, frames | |
| `Discovery` | the updates of one discovery entry | implements `EntryRegister` |
| `EntryRegister` | what an entry promises to its updaters | abstract |
| `MCAckWaiter`, `MCTransport`, `MCRelay`, `MCSessions`, `MCClientConn`, `MCNoise`, `MCDiscovery` | small instances for TLC | |
| `AckWaiterProofs`, `TransportProofs`, `SessionsProofs`, `ClientConnProofs`, `NoiseProofs`, `DiscoveryProofs` | theorems | `TransportProofs` uses `AckWaiterProofs` |
| `RelayStepProofs`, `RelayProofs` | theorems about `Relay` | the second extends the first |

### AckWaiter

A call of `Wait` and the channel it makes have one name. `waiters` is the map,
`full` and `closed` are the channels that hold an element or are closed. A
critical section of `mx` is one action: `Register`, `StopOwn` (the end of
`Wait`), `StopAll`, `Done`. The select of `Wait` has one action per case.

### Transport

`pc` says where each goroutine is. A step is what a goroutine does between two
points where another can interfere. `close()` is a subroutine (`CallClose`, and
`cont` for where to go afterwards): `OnceFirst`, `CloseBuf`, `CloseIn`,
`CloseTail`, `WriteClose`. `HandleFrame` has the states `check` and `send` of its
loop; `Serve` has one action per frame type, the FWD case being split where `done`
is read; `Read` is split at its locks and channel operations; `Write` drives the
ack waiter. Payloads are byte counts, and FWD frames are numbered so that each
ACK frame can be followed. The goroutines that write ACK frames are one process,
`Acker`: they share nothing but the connection, and any of the pending ACK frames
may be written next. `HandleFrame`'s ACK frames answer FWD frames that were
written, as the peer's code does.

### Relay

`up[c]` and `down[c]` are the frames in flight on the connection of client `c`
(TCP keeps their order). On the client, `tps` is the map of transports, a
transport being named by its dial and side; `requests` are the goroutines in
`handleRequestFrame`, which can be interrupted between `IntroduceTransport` and
`setTp`. On the server, `nextConns` holds the associations and `at[c]` says where
`Serve` of connection `c` is: it can be interrupted between `addNext`, `setNext`
and the write, between the write of a CLOSE frame and the two `delNext`, and in
its deferred function. A frame carries, besides its header, the transport it
stems from; the code has no such field, and no action but the payload checks of a
REQUEST and an ACCEPT frame looks at it.

Writes do not block, so back pressure is not modelled. The CLOSE frames of the
deferred function are written in one step, in any order (Go's order of a map).
`ClientConn.close`
with the transports it closes is one step; the CLOSE frames those transports try
to write come after the connection was closed (`delTp` needs the mutex that
`close` holds until then) and are lost. A dial for which no id is free does not
start, where the code searches until its context ends; `ClientConn` has both in
detail.

Three pairs of operations are one step here although no lock is held between them:
`addTp` and the writing of the REQUEST frame (`client_conn.go:246`, `:250`), `delTp` in
`close()` and the writing of the CLOSE frame (`transport.go:99`, `:118`), and the
server's `getNext` and its write (`server.go:219`, `:223`). As long as every dial has an
id of its own, what others do in between commutes with the second half: it concerns
other ids, or a transport that is closed already. (The REQUEST frames of two dials of one
client can go out in the other order than their ids; such ids are names only, so this is
the same as the other order of the dials.) When an id is used again it need not commute:
the REQUEST frame of the next dial can overtake the CLOSE frame of the last one, and a
frame can be written along an association that has just been replaced. These orders are
missing from the scenario of `relay_drop` that reuses ids; with them the runs become
several times larger.

### Sessions

Threads are the callers of `Dial` or `InitiateServerConnections`, and for each
connection the goroutine that serves it and then reconnects. `cConn` and `sConn`
are the entries of the two maps `conns`; `first` is the first frame the server
wrote to a connection, which `readOK` wants to be OK. The discovery service is an
entry whose update succeeds or fails. `Call` is the lookup of `Dial` or of
`findServerEntries`, which tries again until its context ends (`CallFails`; for `Dial`,
a failed lookup is the end). A connection that nothing refers to is
closed by the runtime's finalizer (`Finalize`).

The accept loop does one handshake at a time. It may fail for the server when the client
thinks it is over (`AcceptFails`); the server then drops the connection without closing
it. A server closes in steps, with `toDo` for those to come: `ServerClose` closes the
listener, then `EmptyConns` (the map) and `ServerServeReturns` (the accept loop notices,
and its context is cancelled) come in any order, the accept loop possibly after it has
registered a last connection, and every connection is closed by a goroutine of its own
(`CtxDone`). `ServerStart` succeeds, or fails because `retryUpdateEntry` ran out of time.

### ClientConn

A transport has the name of the dial or the REQUEST frame it belongs to, and
`at` says where each goroutine is: Serve, the user's `Client.Close`, a goroutine
per dial and per request. `mx` is held over several steps only by a dial that
looks for an id; every other critical section is one action. `Listener.mx` is held
over `IntroduceTransport`, with the writing of the ACCEPT frame or the closing of
the transport in it. `close()` of a transport is split where `doneFunc` takes `mx`,
since that is where transports and the map get out of step. `once` has the states
of a `sync.Once`, so a second caller of `close` waits for the first; `WgWait` counts
Serve and the request goroutines. `orphans` is history: transports that were open
when `delTp` removed them, or that `setTp` entered after `close`. The server is
nondeterministic and sends what a server may send (`peer`).

### Noise

An end is a connection and a side. The handshake goroutine is `at`; what
`Handshake` returned is `result`, and the two part company on a timeout.
`HandshakeMessage` and `ProcessMessage` take the cipher states in the order the code
takes them. The wire is a queue of packets with the length their header claims, and
a packet decrypts if the keys match and that length is right. A frame is its header,
as one symbol, and its payload, symbol by symbol, so that `rBuf` and the two reads of
`readFrame` can cut a packet at the wrong place. `LenMod` stands for 2^16, `Overhead` for
the 20 bytes of sequence number and tag, `SeqLen` for the 4 of the sequence number.

`Conn.Write` refuses frames of more than 65535 bytes, but the length that goes into a
packet's header is that of the packet and wraps round for the last 20 lengths below.
Most of them make the peer's read fail. Those that wrap to less than a sequence number,
frames of 65516 to 65519 bytes, make `DecryptUnsafe` slice beyond the packet
(`noise.go:135`): the process of the reader panics (`DecryptPanics`). The server's ends of
all connections are one process, and go together.

### Discovery

An updater is a process that owns the key; `Servers` among them retry as
`retryUpdateEntry` does. The service applies `ValidateIteration` to one request
after the other. It is not part of this repository, and is modelled from what
`disc/client.go` and the validation in `disc/entry.go` expect of it. A request
without an answer stays in `late` and may take effect at any time. The clock need not
advance between two updates. `EntryRegister` is the abstract specification:
`stored` maps to its register, and every step that is no `Publish` or `Supersede` is
a stutter.

## Runs

Deadlock is checked in all passing runs but `transport_write`, where the system
really can stop (see `transport_write_hangs`). The type invariants are proved for
all instances instead of being run, except that of `Relay`, which is both; so are
`StopsOwnChannelOnly` of `AckWaiter` and `NewestWins` and `EntryAdvances` of `Discovery`.

| Run | Shows |
|---|---|
| `ackwaiter` | three calls, two sequence numbers: no panic (`MapHoldsOpenChannels`), no waiter out of reach, `StopAll` releases everybody |
| `transport_read` | one reader, two FWD frames, a cap of one byte, closing by the peer, by a failed ACK frame or by the connection: channels are used while open, exact count, ACK frames conserved and held only at the cap, no lost wake-up; `close` completes, readers are released, `HandleFrame` returns |
| `transport_write` | two writers and a user that closes: one CLOSE frame, and a `Write` that succeeds was answered by the peer |
| `relay` | two dials between two clients, also head on and to oneself, no loss: no cross talk, associations paired and reclaimed |
| `relay_drop` | one dial with two FWD frames, the responder may vanish or close its listener; or two dials that share one id of each parity: whoever is left open is served, FWD frames find their transport, the dial is answered while the responder is connected, silence in the end |
| `sessions` | two callers and one fault or one caller and two (a loss, a server that closes or does not start, a lookup, dial or handshake that fails, a request of another client): both maps and the discovery entry are right, a lost connection is replaced, `Close` ends the reconnecting |
| `conn` | two dials for one id, a dial and a request, or two requests for one place in the queue, closing at any time: no send on a closed channel, open transports are mapped, `close` closes them, and all goroutines end |
| `noise` | two handshakes with a frame amid them, or two frames by two writers: matching keys, whole frames in order, exact lengths, failures and panics because of long frames only, no old sequence number; `Accept` gets to every client, frames arrive |
| `discovery` | a client and a server with two updates each and two requests lost or late: refinement of `EntryRegister`, in which the newest update wins; updates return (their number is finite: each failed round of UpdateEntry means that another update got through) |

Three runs end in a violation, each of one statement of a document, a comment or
a test that the code does not keep:

| Run | What happens |
|---|---|
| `transport_write_hangs` | `Write` passes its check, `close` runs `StopAll`, `Write` registers: it hangs |
| `sessions_reachable` | the goroutine of the old connection removes the registration of the new one |
| `conn_orphan` | `close` goes through `tps` before `setTp` of an accepted transport: the user's transport stays open |

Some properties carry an exception that the code makes necessary:

* `DialResolves` excepts a responder that loses its connection: a request that
  reaches the server between the CLOSE frames of the deferred function and the
  removal from `conns` (`server.go:139`, `server.go:396`) is associated, may be
  written successfully, and is then answered by nobody.
* `NoLostNotification` excepts a closed transport: a payload that `Serve` appends
  after `done` was closed is not announced, and a `Read` that waits then returns
  `io.EOF` with that payload still in `buf`.
* `FwdFindsTransport` excepts the time between the ACCEPT frame and `setTp`
  (`client_conn.go:173`): a FWD frame that arrives then is answered with CLOSE, which
  ends the transport at the initiator. `server_test.go:289` has a comment on the
  error that this gives.
* `RoutesPaired`, `OpenMeansServed` and `DialResolves` except ids that are used again
  while something of their last dial is under way (`IdsNotReused`): the server's two
  `delNext` then hit the association of the next dial. `NoCrossTalk` and
  `FwdFindsTransport` are stated without that exception, but the runs say nothing of
  them with reused ids: no scenario of `relay` reuses one, `relay_drop` does not check
  `NoCrossTalk` (a frame of the old dial can then reach the new one), and its scenario
  with reuse writes no data. The theorems about the two have the exception.
* `WriteOKIsAnswered` and `WaiterReachable` except a call whose sequence number was
  issued again while it waited.
* `OnlyLongFramesFail` excepts the frames whose packets are too long for their header.
* `OpenTpIsMapped` and `ConnCloseClosesTps` except orphans. A `delTp` of a transport
  that is closing can remove its successor on the same id; Serve's `delTp` after an
  unsuccessful `getTp` can remove a transport that `addTp` or `setTp` has just entered.
* `CloseEndsGoroutines` excepts what `LeftBehind` names. A request goroutine that is
  the first to call `Close` waits for a WaitGroup that counts it
  (`client_conn.go:225`), and the dial of an orphan waits for its context.

`Sessions` also contains a behaviour about which no property is stated: a call of
`findOrConnectToServer` that passes `Close` between its dial and `setConn`
(`client.go:221`) leaves a connection that nobody closes.

### Bounds

* `SeqMod` is 1 or 2 and `IdMod` 2 or 4 in place of 2^16: wrapping round is
  then the common case. The proofs hold for every value.
* `TpBufCap` 1 with frames of one byte: below, at and above the cap.
* Two FWD frames: one held and one written ACK frame at the same time. `Read` is
  called with a length of 0 and 1, so the count passes through 2, 1 and 0.
* Scenarios. Several modules take a set of scenarios, one of which is chosen in the
  initial state: what is large in one is small in the other, and one run checks all.
* `writes` bounds FWD frames in `Relay`. It is 0 for two dials, where the
  question is about ids and associations; FWD frames are forwarded like ACCEPT
  frames, which those scenarios have.
* `MaxConns` and `faults` in `Sessions`: three connections are what a stale
  goroutine, its successor and a duplicate need. A thread that wants a further
  connection waits (`AtBound`).
* `InitIds` 1 in `conn`, so that two dials always compete for an id, and
  `AcceptBufferSize` 1, so that two requests fill the queue. Two frames are enough to
  open a transport and to make its id free, or to hit it with a CLOSE frame.
* `LenMod` 8, `Overhead` 2 and `SeqLen` 1 with payloads of 0, 2, 5, 6 and 8 in `noise`:
  two packets that fit, a length that wraps to 0 and has no sequence number (5 + 1 + 2 =
  8), one that wraps to 1 and fails to decrypt, and a payload that Conn.Write refuses.
  Two frames let two writers compete, and a frame be read behind one that fails; the
  other scenario has two handshakes and one frame, so that a panic of the server hits a
  handshake of another client. Handshakes have 2 and 3 messages, so each side writes the
  last one in one of the patterns.
* `MaxTime` 3 for four updates in `discovery`: some of them get equal times. `MaxLost` 2
  allows a lost request of each updater, or two late ones of the same.
* First ids are 0 and 1: the code draws them at random, and all choices are the
  same up to a rotation of the ids.

### Fairness

Weak fairness of each goroutine's own steps: the Go scheduler runs every
goroutine that can run. The reconnect timer fires. In `Relay` the network
delivers what is in flight. In `Sessions` a server that was closed is started
again, and unreferenced connections are collected; `DialFails` without the server
being down, a handshake that fails for the server alone and a start that fails are
faults, of which there are finitely many. In `Noise` timers fire and
the server goes on calling `Accept`; an end need not go on with its handshake, so a
client may be silent. In `Discovery` requests are answered or fail, and the timeout of
`retryUpdateEntry` comes. No fairness is assumed for users (calls of
`Read`, `Write`, `Close`, `Dial`), for contexts, for peers or for losses.

## Proofs

All theorems are for arbitrary constants that satisfy the named assumptions in
the modules.

* `AckWaiterProofs`. `AWInv` strengthens the two safety invariants with
  `MapOwnsSeq` (a channel is stored only under the number issued to its call, so
  closing it empties its only place) and `NewCallUntouched`. From it: `AWNoPanic`,
  `AWReachable`, `AWTypeCorrect`, and the action property `AWStopsOwn`.
* `TransportProofs`. Every change of the waiter is a step of `AckWaiter`, so its typing
  comes from `AckWaiterProofs` (`AckWaiterStep`). `TransportWriteAnswered` needs
  `AnswerInv`: the map leads from a number to a call that has that number, and the ACK
  frames under way answer frames that were sent. `TransportNoPanic` makes the argument of the comment above
  `close()` precise: `OnceInv` (one goroutine runs the body of `doneOnce`, and
  `done` is closed before the channels) and `MutexInv` (who is between Lock and
  Unlock) are what the four sentences of that comment leave implicit.
  `TransportBufSize`, `TransportAckHeld` and `TransportAckConserved` are the count, the
  hold rule and the conservation of ACK frames; the three are inductive together
  (`BufInv`). `TransportOneCloseFrame` needs `FirstInv`: of all goroutines in `close()`
  one at most is the first, and while there is one, no CLOSE frame was written.
  `TransportNotifies` needs `NotifyInv`: who is past the lock of `Read` holds `rMx`, so
  the reader that takes the element out of `bufCh` is the only one that could miss it.
* `RelayStepProofs` and `RelayProofs`. `TInv` has the types, and what labels of `Serve` say of the queue and the
  connection; it gives `RelayTypeCorrect`. The other theorems are about scenarios in
  which no id comes back (`IdsNotReused`). Nothing in the state says to which dial an id
  belongs, so `RInv` is about three more values that exist in every reachable state:
  `ids` (the id of each end of a dial), `given` (the ends that have one) and `told` (the
  ends whose own client has heard of it, which for a responder is the case once the
  server has forwarded the REQUEST frame). `Ghosts` and `Counted` say that ids are given
  out in order and that client and id name one end only; this is where the number of
  dials comes in. Client maps and request goroutines (`TpsOK`, `RequestsOK`,
  `Registered`), both queues (`UpOK`, `DownOK`), the associations (`RoutesOK`), and what
  `Serve` holds between two critical sections (`InHand`) all stick to those ids, and
  `Paired` is `RoutesPaired`. A REQUEST frame is followed from the client to the
  goroutine that handles it: there is only ever one, and until it is handled the
  responder has left no other trace. From this: `RelayNoCrossTalk`, `RelayRoutesPaired`,
  `RelayFwdFindsTransport`. `ScenariosAssumption` asks that a scenario's dials are finite
  in number and between clients, and that the number of ids is even, as 2^16 is.
  `TypesNext`, `ServerKeepsRouted` and `ClientKeepsRouted` are one lemma each for all
  actions of a kind: a step of their proofs named after an action says that the action
  keeps the invariant, and the facts that several actions need are steps in front of it.
* `SessionsProofs`. `CachedConnIsServed` needs `OneKeeperPerConn`: a connection
  being set up is in the hands of one thread and has no goroutine yet. Both maps
  are covered for any number of callers, connections and faults, and `SessionsEntry`
  covers the discovery entry, which every change of the map updates.
* `ClientConnProofs`. `CInv` has the two locks in it: who is in `IntroduceTransport`
  holds `Listener.mx` (`ListenerLocked`, from which `ConnNoSendOnClosed`), and the map
  is right whenever `mx` is free (`OpenTpIsMapped`, inductive with `OneGoroutine`: a
  request has one goroutine, which enters its transport last). `AllTaken` is what
  `close` needs: `done` is closed before `mx` is taken, so that no dial enters a
  transport behind its back, and all that the map held is in `toClose`.
* `NoiseProofs`. `HInv` says whose turn it is by the parity of the message
  index, which gives matching keys for a pattern of any length. `WInv` orders the packets:
  the one in the hands of the holder of `wMx` is newer than those on the wire, which are
  newer than `previousSeq`, and behind the last handshake message (`WireOrdered`, `InStep`).
  `FInv` follows a frame's length from `MakeFrame` to the wire. `GInv`
  has the stream from one end to the other (`StreamTo`): what was read, what is in `have`
  and `rBuf`, and what is on the wire make up what was sent, frame by frame, as long as
  the reader has not failed. This gives `NoiseFramesIntact`. `NoiseOnlyLongFramesFail`
  adds that a reader fails only on a packet whose length did not fit into its header, and
  panics only if what is left of that length is less than a sequence number.
* `DiscoveryProofs`. The refinement of `EntryRegister` needs little more than types,
  because `ValidateIteration` compares with what is stored at that very moment;
  `NewestWins` then follows from the register's own invariant, and `EntryAdvances` says
  that sequence numbers go up one by one.

Only model-checked:

* All liveness properties: temporal reasoning with fairness is beyond the prover.
* `RoutesReclaimed` and `OpenMeansServed` of `Relay`. They are about states in which
  nothing is in flight. An invariant would have to account for each CLOSE frame that is
  still owed, through both queues and all labels of `Serve`.

## Not modelled

* `RPCClientDialer` (`noise/net.go`): only `net_test.go` uses it.
* `PortManager.RemoveListener`, `NextEmptyEphemeralPort` and `ioutil.AtomicBool`: nothing
  in the program calls them.
* The choice among several servers (`findOrConnectToServers`, and `Dial` over the servers
  of an entry): loops over lists that end at the first success and add no state to what
  `Sessions` has.
* `AvailableServers`, which only reads, and the validation of an entry's fields and
  signature.
* Contents and order of bytes across two transports, from `Write` to `Read`.
  `Transport` counts bytes, and `Noise` has the order of frames on a connection.
* `Noise.seq` wrapping round after 2^32 packets (`SeqAssumption`).
* Back pressure: a write that blocks, and what is locked while it does.
* Cryptography and key encodings (`cipher/`, `noise/dh.go`, the Noise library), HTTP and
  JSON, logging, the example program.
