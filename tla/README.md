# A TLA+ model of the SAVVY Sensor daemon

The daemon is a set of C components around a few concurrent objects. This
directory models those objects, checks them with TLC on small instances, and
proves the safety properties of all of them with TLAPS for every instance.
Paths below are relative to the repository's `src/` directory, except where noted.

## The system

| part | code | interacts with | module |
|---|---|---|---|
| bounded queue | `core/queue.c` | the TCP channel's worker and its submitters | `SavvyFifo`, `SavvyQueue`, `Core_proofs` |
| MGR IPC client | `features/mgr_ipc/mgr_ipc_client.c`, `platform/interfaces/ipc_reconnect.c` | the application's threads, its callbacks, the MGR process | `MgrIpcClient`, `MgrIpcClient_proofs` |
| AF_UNIX transport, envelopes | `platform/linux/ipc/*.c`, `core/clock.c`, `protocol/ipc/*.c` | the MGR client above, the kernel and the MGR below | `IpcEnvelope`, `IpcTransport`, `IpcTransport_proofs` |
| TCP 8141 channel | `platform/linux/tcp_8141/tcp_channel.c` | queue, lifecycle, the streaming server | `RequestChannel`, `TcpChannel`, `TcpChannelRefinement`, `TcpChannel_proofs`, `PacketWire` |
| payload encoding | capacity and `send_data` of `features/stream/session.c`, `features/wav/wav_encoder.c`, `features/compression/bzip_codec.c` | the session's callers, the channel, libbz2 | `PayloadEncoder`, `PacketFraming_proofs` |
| packets and their parser | `protocol/packet/packet_codec.c`, `protocol/packet/stream_parser.c` | the channel, the streaming server | `StreamParser`, `PacketWire`, `PacketFraming_proofs`, `PacketWire_proofs` |
| snapshots and the two stores | `core/snapshot.c`, `features/config/*.c` | writers (boot, MGR messages) and readers | `SnapshotStore`, `SnapshotStore_proofs` |
| streaming session, result policy | `features/stream/session.c`, `features/result_policy/result_policy.c`, `protocol/json/data_result_codec.c` | the TCP channel below, the application above | `StreamSession`, over `RequestChannel`, `StreamSession_proofs` |
| module registry | `features/health/sensor_lifecycle.c`, `core/lifecycle.c` | the modules' hooks | `SensorLifecycle`, `Core_proofs` |

There is no `main` in the repository that wires these together; each component
is a library whose callers are the application's threads. The models therefore
let callers make every call that the headers allow, in every order.

## How the modules correspond to the code

Each action has the name of the C function, or of the part of it that runs
without another thread being able to interfere. A critical section is one step;
a blocking call, an unlock and an atomic store end a step. `PROJECT.json` maps
every definition to its lines.

* **SavvyFifo** is what `core/queue.h` promises: a bounded sequence, calls that
  take effect when they can, `close` that lets consumers drain, `cancel` that
  drops. **SavvyQueue** is the ring buffer with its mutex and two condition
  variables: threads blocked on `not_full` and `not_empty`, `signal` that wakes
  any one of them, spurious wakeups. In the refinement mapping a thread blocked
  on a condition variable is still in its abstract call; that it is not left
  there while the call could return is what `NoLostWakeup` and the liveness of
  `ImplementsFifo` are about.
* **MgrIpcClient** has the record `life` (fields under `lifecycle_lock`), the
  record `reg` (fields under `g_registry_lock`), the connection state with
  `state_lock` and `io_lock` held by name, and a program counter for each
  caller and for `worker_main`. Callbacks run on the worker, which may make any
  API call from inside them. Connector, transport and envelope validation
  choose their outcome; the connector is cancelled only if the cancel source is.
* **IpcTransport** is the other half of the same client: here the locks and the
  life cycle are coarse and the system calls are fine. Connect, send and recv
  each go through the wait of `ipc_transport_common.c`, one step per `poll`,
  which a signal, the deadline, the cancel pipe or the descriptor may end.
  Descriptors are numbers that can be used again after `close`. The MGR is
  `tools/mock_mgr` with any record in place of its fixed ones. **IpcEnvelope**
  has the texts on it: what JSON they hold is reduced to the fields present and
  the types of their values, and the action catalog to one entry for each shape
  of payload that occurs in it.
* **TcpChannel** has the queue as a sequence (that this is sound is what the
  queue's refinement shows), the socket, the parser's unconsumed fragments and
  the peer. A response is two fragments, head and tail, so that it can be cut
  by a time-out, arrive late or be coalesced with another. Time is abstract: a
  deadline may expire at any poll. The server is external and assumed to answer
  a normal request at most once and a relay or a final packet never. The
  assumption matters: packets carry no request number, and if relays are
  answered, three requests (one to connect, a relay, one that reads the relay's
  answer) violate `ResponseIsOwn`.
* **PayloadEncoder** follows the length of a payload through `send_data`: WAV
  header, compression, packet header. The widths of `size_t` and of the 32-bit
  fields are constants, so that a small instance meets each overflow check.
  What libbz2 consumes and produces in a call is any amount, up to `Excess` more
  than its documented bound. Below the bound the buffer of
  `sensor_bzip_compress` never grows; `Excess` exercises the growth.
* **StreamParser** has the bytes: digits below `Radix`, with a header of four in
  place of 26 and a checksum by addition. **PacketWire** composes the two with
  the receive path of the channel and a server that behaves like the fixtures of
  `tools/mock_streaming_server` (split, coalesced, damaged, absurd lengths,
  disconnects). The fixture for an absurd length sends the header and closes, so
  a server that has announced more than it sends is not heard of again. The
  receive buffer is as large as the one packets are encoded in, as in
  `sensor_stream_session_create`.
* **SnapshotStore** has handles as memory that is reused after `free`, so that
  a dangling handle would show as a wrong payload. A document is a partial
  function from two fields: `watched` (the fields an apply reports on) and
  `stateful` (the nine device fields that boot zeroes). A document that does not
  parse changes nothing and is left out.
* **RequestChannel** is what the session relies on: requests one at a time and in
  order, one outcome each unless stop or destroy drops them, no connection opened
  for a relay, and a connection that survives only an answer or a relay.
  `TcpChannel` is checked and proved to implement it (`ImplementsChannel`) under
  the mapping of **TcpChannelRefinement**, in which all errors are one outcome,
  present from the step that finds it until `on_complete`. It is a promise to one
  controlling thread.
* **StreamSession** is composed with it: what a step of the session does to the
  channel is an action of `RequestChannel`. One thread sends and one controls, so
  a send can be accepted while a stop is under way, or while the worker is not yet
  created or cannot be. A response body is
  how its `result` key is written (quoted, bareword, absent) and its value; the
  conversions are modelled by what they do to these, and there may be no memory
  for the parser's copy. `EchoBodies` are the bodies with which the server echoes
  PIRIN. A submit that saw the channel RUNNING and pushes only after `start()` has
  failed to create the worker is left out.
* **SensorLifecycle** treats a call from inside a hook as a call of another
  thread that comes at that point, which is what it is to code that holds no
  lock while hooks run; only `destroy` looks at the difference.

Definitions marked `Mutant:` are variants with a plausible bug, used to make
sure that each property can fail. They are not part of any specification.

## The runs

| run | checks | shows |
|---|---|---|
| `queue` | `TypeOK`, `NoLostWakeup`, `ItemsOwnedOnce`, `ImplementsFifo` | three threads on a ring of two slots, any mix of operations: the abstract FIFO, liveness included |
| `mgr` | `TransportPinned`, `NoUseAfterFree`, `StopCompleteMeansQuiescent`, `WorkerReapedOnce`, `DestroyCompletes` | two threads and the callbacks in every order; the transport is never closed under a user, storage is never used after it is freed, threads are reaped once; an accepted destroy frees the client, although the worker may keep `state_lock` from a pinned sender as long as it receives: destroy stops the worker first and waits for the pins then |
| `tcp` | `CompletedOnce`, `ResponseIsOwn`, `StopLeavesNothing`, `ImplementsChannel`, `StopCompletes`, `RequestFinishes` | every accepted request has one outcome and its own response; stop returns whatever the peer does; the channel implements `RequestChannel` |
| `store` | `TypeOK`, `RefcountExact`, `ReaderSeesPublished`, `ReportIsDiff` | no snapshot is freed or changed while held, none leaks, the reported differences form a chain |
| `session` | `AlertsFollowRuns`, `OutcomesInOrder`, `PendsAccounted`, `SilentAfterStop` | with a server whose echoes of PIRIN have no body, alerts follow runs of abnormal results; outcomes are told once and in order, nothing runs after stop |
| `lifecycle` | `RegistryTypeOK`, `AliveInFanOut`, `BootModulesTold`, `RegistrationOrder` | overlapping fan-outs reach each boot module once and in order, and the registry outlives them |
| `transport` | `TypeOK`, `CancelNotLost`, `DescriptorsOwned`, `EnvelopesInOrder`, `ConnectIsFirst`, `EveryCallReturns`, `StopEndsWorker` | a cancellation that was reported is seen, no descriptor leaks or is closed under a call, bad records are dropped alone, CONNECT goes first, no call waits for ever although nothing but its deadline may end it, and stop ends the worker even when its cancel failed |
| `wire` | `TypeOK`, `PayloadFits`, `HeapBalanced`, `PacketsAsSent`, `ProtocolErrorJustified`, `NothingLeftInBuffer` | every payload a session accepts fits, nothing leaks, responses come out as sent however they are cut, and a protocol error has a cause |

Four runs are expected to find a violation. Each states a sentence of a header,
and shows an execution of the code that contradicts it:

* `mgr_stop` (`StopReturns`): a `stop()` waiting for another one's join misses
  `stop_complete` when a `start()` resets it first, and waits on.
* `mgr_destroy_lost` (`DestroyNotLost`): an external `destroy()` is turned away
  by the claim of a callback's `destroy()` that is then withdrawn.
* `tcp_join` (`JoinsCreatedThread`): `stop()` between the lifecycle transition
  and `pthread_create` of `start()` joins a thread that does not exist.
* `session_echo` (`AlertsFollowRuns`, as in `session`, with `EchoBodies` every
  body in place of the empty one): `session.h:67-70` asks for an echo with an
  empty body, `on_pirin_complete` (`session.c:104`) looks at the command only, so
  an answer `I` with a body resets the danger counter in the middle of a run.

Other differences met while modelling, without a run of their own: `start()`
resets the reconnect tracker (`mgr_ipc_client.c:432`), so that after `stop()` and
`start()` the next connect is reported as the first one, although
`mgr_ipc_client.h:51-53` speaks of the client's lifetime; the second of two
concurrent `stop()` calls of the channel returns while the worker runs
(`tcp_channel.c:584`), although `tcp_channel.h:177-178` says that stop blocks until
it has exited; a channel that is stopped and started again rejects submits with CLOSED, because its queue
stays closed; `on_sent` is not called, and its `pending_send_t` not freed, for a send that stop drops from the queue
(the repository's `README.md` lists the leak as known; `PendsAccounted` shows it
is exactly those); `config_store.h` says acquire returns NULL until
`load_cached()`, but a runtime apply publishes too; the repository's `README.md`
says the IPC client resynchronizes on reconnect, `mgr_ipc_client.h` that it does
not, and the code does not.

Observations about the byte level: the parser's buffer has the size of the
encode buffer, so with a small `max_payload_size` every response with a body is a
PROTOCOL error, and so are coalesced responses that would fit one by one
(`ProtocolErrorJustified` states exactly this); where `size_t` has 32 bits the
sum of header and announced length wraps, and it is `savvy_packet_decode` that
refuses the packet. A descriptor closed under a concurrent poll is kept apart by
the client's `io_lock`, not by `fd_transport_close` itself: without the lock
`DescriptorsOwned` fails. An MGR that closes with records unread resets the
connection, and the records it had sent before may be lost; the code
treats that as a disconnect, and so does the model.

### Bounds, and why they are enough

* `queue`: three threads and two slots, so that two threads can be blocked while
  a third steals what they were woken for, and the ring wraps.
* `mgr`: two callers and the worker. The races of the client are between a
  joiner, a second caller and the worker. No bound on the number of calls,
  restarts or reconnects: the state is finite as it is. `is_connected`, which
  takes one lock for a moment, is called from callbacks only; the proofs let
  every thread call it.
* `tcp`: two requests, so that one can receive what was meant for the other, one
  queue slot, so that it is full, and one controlling thread. A relay between two
  other requests needs three, and order in the queue two slots: with
  `Requests = {r1, r2, r3}` and `SafeSpec` the safety properties of the run hold
  as well, with one slot (1,631,081 states) and with two (1,704,173), and the
  proofs below are for any number. The liveness properties are checked with two
  requests only. `tcp_join`
  has two controlling threads. `StopLeavesNothing` and the liveness properties
  are about one, as `tcp_join` and the early return of a second `stop()`
  described above show they must be.
* `store`: two writers, two readers, three handles and at most `MaxVersion = 3`
  publications: the third reuses memory that the first freed.
* `session`: `MaxSends = 4` over a queue of `Depth = 2` with `Threshold = 2`:
  a run that reaches the threshold, passes it, is broken and starts again.
  `CounterModulus = 8` stands for 2^32 and is not reached, as in the code.
  `EchoBodies` has the empty body only, which `session.h` calls the confirmed
  behaviour of the server; `session_echo` has all bodies.
* `lifecycle`: three callers, `MaxModules = 3`, `MaxFans = 2` of each hook, so
  that a start, a stop and a notification overlap while modules register.
* `transport`: the worker, one sender and one stopper; `MaxConnects = 2`, so that
  a descriptor is used again, `NFds = 2`, `QueueLen = 2` records each way,
  `MaxAttempts = 2` writes of the cancel byte, `MaxSends = 1` message per
  connection, time-outs of at most one tick, and `MaxSignals = 1` before a
  deadline (after it, signals are unbounded: that is the case that matters).
  The first record of the MGR is good or wrong in one of six ways, the second
  is good, so that a bad record that spoils the next one shows. `Wanted` is the
  good one, chosen by hand and not by what the code accepts.
* `wire`: two digits of radix 4 make `UINT32_MAX = 15`; `SizeMaxes = {15, 31}`
  are a `size_t` as wide as the length field and a wider one; `MaxPayloads =
  {0, 3, 9, 15}` reach each check of the capacity computation; calls send
  nothing, the maximum and one more; two requests (`MaxRequests`) and three
  packets of the server (`MaxResponses`) make the buffer compact with a partial
  packet in it. `RECV_CHUNK = 6` (10240 in the code) is between the sizes of
  the two packets.

The runs that stop by themselves (a destroyed queue or channel, all bounds used
up) do not check for deadlock. The runs of `MgrIpcClient` do.

### Fairness

Weak fairness of each thread inside a call, and of the worker: the operating
system runs runnable threads, and every wait in the code is bounded by a poll
slice or by the condition it waits for. Nothing is assumed of callers outside a
call, of the server, or of signals. `SavvyQueue` assumes that a thread
contending for the queue's mutex gets it in the end. `MgrIpcClient` does not
assume this of `state_lock` and `io_lock`: what a call does before it takes a
lock (validation, building the envelope) is a step of its own, and the step that
takes the lock is enabled only while the lock is free, so that the receive loop
may starve a sender. A comment in `destroy` worries about exactly this, and
`DestroyCompletes` holds all the same, because stop ends the loop before destroy
waits for the sender; a destroy that waited first (`stop_impl_late`) would hang. Callbacks are
assumed to return (strong fairness of `callback_returns`: a callback may make
calls of its own, but not for ever). `RequestFinishes` is conditional on the
peer reading in the end, since `send_all` has no deadline.

`IpcTransport` has weak fairness of each thread inside a call, of the worker, of
a stop that has begun, and of the clock. For a wait this is the top of its loop
and a `poll` that has something to report or whose time is over; a `poll` that
fails may come at any time but is not owed. Nothing is assumed of the MGR, of a
connection in progress, or of signals: `EveryCallReturns` holds even if every
`poll` after the deadline is interrupted, because the loop looks at the deadline
first. Both liveness properties rest on the time-out: if `poll` did not get the
time that remains (`poll_returns_untimed`), a silent MGR would keep the worker.

## What is proved

Every safety property that a passing run checks is also a theorem, for every
value of the constants that the assumptions named below allow. The assumptions
say what the code has anyway: finitely many threads, a capacity that
`init` accepts, names that differ. Bounds that only keep TLC finite (numbers of
sends, fan-outs, versions, connects) may be anything.

### The queue

`Core_proofs` has the queue and the module registry. For the queue it proves, for every finite set of threads, every set of items
and every capacity greater than 0 (the assumptions `ThreadsAssumption`,
`CapacityAssumption`, `NoItemAssumption`; `savvy_queue_init` refuses capacity 0):

* `TypeCorrect`, `WakeupsKept`, `Ownership`: `TypeOK`, `NoLostWakeup` and
  `ItemsOwnedOnce` always hold;
* `Refinement`: each step of the ring buffer is a step of `SavvyFifo` or a
  stutter;
* `Invariance`: the inductive invariant `IInv` behind them.

`IInv` is the conjunction of the three properties and `Quiet`, that nobody is
inside a destroyed queue. `NoLostWakeup` is stated so that it is inductive: "a
blocked consumer and a non-empty buffer imply that someone is on the way" is not
preserved when that someone takes one of two items; "as many on the way as there
are items" is. The proof counts threads by place (`Moving`, `Signalling`: one
step moves one thread), reduces the steps of `Next` to a few shapes
(`StepCases`), and reasons about the ring once (`Wrap`, `StoreRing`, `TakeRing`:
`%` wraps at most once). The refinement adds that a store appends and a take
removes the head of the buffered sequence (`StoreAppends`, `TakeIsTail`).

### The TCP channel

`TcpChannel_proofs` proves, for every set of requests and every capacity
(`CapacityAssumption`, `NoneAssumption`) and one controlling thread
(`OneController`, a hypothesis of each theorem; `tcp_join` shows what two can do):
`RequestsCompleteOnce` (`CompletedOnce`), `ResponsesAreOwn` (`ResponseIsOwn`) and
`NothingLeft` (`StopLeavesNothing`). The invariant `IInv` has four parts besides
the types. `Control` says what the channel is in while the controlling thread is
inside start or stop. `Place` says which request and which socket the worker has
at each place of `process_item`. `OnePlace` says that an accepted request is in
the queue, with the worker, completed or dropped, in one of them and there once.
`Flow` says that an open connection has nothing on its way, except while a normal
request waits: then parser and inbox together are its response or nothing. It is
`Flow` that makes `ResponseIsOwn` inductive, and it depends on every error path
closing the session; those paths have one shape (`GivesUp`), handled once.
`NothingLeft` needs `Stopped` as well.

The same module proves from it that `SafeSpec` implies
`ImplementsChannel` (`Refinement`): each step of the channel is a step of
`RequestChannel` or a stutter. It adds that the queue is never above its capacity
(`Bounded`), and goes through the submitters', the controller's and the worker's
steps; most of the worker's are a `Finish` or unseen (`Finishes`, `GoesOn`).

### The snapshots and the stores

`SnapshotStore_proofs` proves, for all finite disjoint sets of writers and
readers, all sets of handles, all documents over natural values and every bound on versions
(`NobodyAssumption`, `ThreadsAssumption`, `DocsAssumption`, `VersionAssumption`,
`PayloadsAssumption`): `CountsAreExact` (`RefcountExact`), `SnapshotsAreImmutable`
(`ReaderSeesPublished`), `ReportsFormAChain` (`ReportIsDiff`) and `TypesKept`
(`TypeOK`). Only the counts
are inductive with the types alone. That a held snapshot is the published one
needs `Published` (the current handle has the last payload of the log) and the
counts, since a handle is given new contents only when nobody holds it. That
reports form a chain needs `Writing` (a writer past the lock holds it) and
`Following` (between publish and commit, `working` is one version behind). The
counts are cardinalities of sets of threads: each step adds or removes one.

### The module registry

`Core_proofs` proves, for every finite set of callers and all bounds
(`CallersAssumption`, `BoundsAssumption`): `RegistryTypesKept`
(`RegistryTypeOK`), `RegistryOutlivesFanOuts` (`AliveInFanOut`), `EveryBootModuleTold` (`BootModulesTold`) and `HooksInOrder`
(`RegistrationOrder`). The heart of the invariant is `Accounted`: what a boot
module has been told, plus the callers that have still to tell it, is the number
of fan-outs since it was registered. `HooksInOrder` follows because whoever has
still to call the earlier module has still to call the later one.

### The MGR client

`MgrIpcClient_proofs` proves, for every finite set of application threads and any
calls from them and from callbacks (`WorkerAssumption`, `NobodyAssumption`,
`CallersAssumption`, `OpsAssumption`): `TransportIsPinned` (`TransportPinned`),
`NothingUsedAfterFree` (`NoUseAfterFree`), `StopIsQuiescent`
(`StopCompleteMeansQuiescent`) and the action property `WorkersReapedOnce`
(`WorkerReapedOnce`). None of them is inductive. The invariant adds, besides the
types: `Pins`, that `api_callers` is the number of calls inside the client;
`Locks`, who holds `state_lock` and `io_lock` at which place; `Link`, how the
worker's place, the connection state and the transport go together, on which a
send that has checked `CONNECTED` relies; `Reaping` and `Joiner`, that a worker
that has not ended is joinable or detached and that at most one caller is joining
it; `Cancel`, the life of the cancel source; and `Claim`, that one `destroy()`
owns the client. Freeing is safe by `Claim` and `Pins` together: the owner frees
when nobody else is counted.

### The AF_UNIX transport

`IpcTransport_proofs` proves, for any records, messages, timeouts, numbers of
descriptors and attempts (`TransportAssumption`, `RecordsAssumption`,
`ProcsAssumption`): `TypesKept` (`TypeOK`), `CancelKept` (`CancelNotLost`),
`DescriptorsAreOwned` (`DescriptorsOwned`), `HandshakeComesFirst`
(`ConnectIsFirst`) and `EnvelopesDelivered` (`EnvelopesInOrder`). The invariant
`IInv` says which call a process is in at each place (`Calls`), that there is a
transport exactly between connect and close and that sends and receives use its
descriptor (`Link`), that `io_lock` covers them (`Locks`), that CONNECT is in the
connection before anybody may send (`First`), and that a connect that goes on has
not seen a successful cancel, because the byte is in the pipe before `cancel()`
reports success (`Cancel`).

`EnvelopesDelivered` has a hypothesis of its own, `WantedIsDispatched`: `Wanted`
are the records within the cap that `dispatch_envelope` accepts. It needs a
second invariant, `Delivery`: what the connection holds for the client are the
last records sent, what was delivered is what is wanted of those before them, and
a new connection begins with nothing of the old one. Positions among the
delivered are cardinalities of sets of indices, so that one more record read adds
one element (`GivesMore`) and one more sent changes nothing (`GivesSame`).

### The session and the result policy

`StreamSession_proofs` proves, for every number of sends, depth, threshold and
counter width (`SendsAssumption`, `ThresholdAssumption`, `CounterAssumption`, `EchoAssumption`):
`EachSendIsTold` (`OutcomesInOrder`), `PendsAreAccountedFor` (`PendsAccounted`),
`NothingCalledAfterStop` (`SilentAfterStop`), and `AlertsFollowTheRuns`: with a
server whose echoes have no body (`BareEchoes`, a hypothesis of this theorem
only; `session_echo` shows why), and as long as fewer results have come than the
counter has values, `AlertsFollowRuns`. The second restriction is real too: the
counter wraps after 2^32 abnormal results in a row, and the run is then reported
as short. Sends are numbered as they are made, so those
that wait are the last ones, the one in hand comes before them, and dropped ones
come after all that were told (`Order`, `Shut`, `Outcomes`). Each step moves sends
in one of five ways, and the conjuncts about sends look only at these. The policy
part relates `danger_count` to the set of results in the current run.

### The encoder, the packets and the parser

`PacketFraming_proofs` proves, for all widths, header lengths and limits that
satisfy `WidthsAssumption` (the header lengths fit the widths, `size_t` is at
least as wide as the 32-bit fields): `AcceptedPayloadsFit` (`PayloadFits`) and
`NoBufferLeaks` (`HeapBalanced`). The invariant says which length is current at
each place of a call; that the bound of the compression is monotonic
(`BoundMono`) carries the reservation made for the largest payload over to every
smaller one. The module also has the lemmas about the parser's buffer and about
packets laid end to end in a row of bytes.

`PacketWire_proofs` proves, for every radix, buffer, chunk of `recv`, body and
number of requests and responses (`RadixAssumption`, `LayoutAssumption`,
`BodiesAssumption`, `BoundsAssumption`): `TypesKept` (`TypeOK`),
`PacketsArriveAsSent` (`PacketsAsSent`), `ProtocolErrorsAreJustified`
(`ProtocolErrorJustified`) and `NothingIsLeftInBuffer` (`NothingLeftInBuffer`). The
core of the invariant is `InStream`: the unread bytes of the parser followed by
those in the socket are the outstanding packets, end to end, the last of them
possibly cut. A push moves bytes from one part to the other, compaction changes
neither, an extraction takes one packet off the front, and a server that sends
puts one at the back. `Whole` says that only the last packet can be cut, which is
what the server does after an absurd length. `WireImplementsEncoder` proves that
the composed system implements `EncoderSpec`, so that the theorems about the
encoder hold under the wire, where the run checks them.

### Only model-checked

The liveness properties: `DestroyCompletes` of the MGR client, `StopCompletes` and
`RequestFinishes` of the channel, `EveryCallReturns` and `StopEndsWorker` of the
transport, and the liveness half of `ImplementsFifo`; liveness under fairness and
`ENABLED` are outside what the prover does. So is induction over data: the models
count and index where they could have used recursion, so that no theorem needs it.

## What is not modelled, and the plan

Not modelled because a model would only repeat it: `mode_state`, `update_guard`,
`state_report`, `sensor_health`, `error`. The serial provider is an interface
without an implementation here. `sensor_bzip_decompress` is called by tests only.
`cancel_source_portable.c` has the algorithm of `ipc_transport_common.c` and is
not modelled a second time. The text level of the JSON codecs (`json_codec`,
`field_table`, and what of the envelope is characters) appears by its outcomes
only; the contract tests cover it better.

Left out of the modelled parts: poll time-outs above `INT_MAX`, which the code
clamps; records of length zero, which read as the end of the connection; the
fields of the packet header other than Length and CRC. On Linux an AF_UNIX
`connect` does not end in EINPROGRESS, but the code handles it, and the model
lets it happen.

Next: `IpcTransport` as a refinement of the connect, send and recv steps of
`MgrIpcClient`, and the session composed with `TcpChannel` itself instead of
`RequestChannel`, which the proved refinement makes a matter of confidence rather
than of need.
