# A TLA+ model of xk6-iroh

xk6-iroh is a k6 extension: scripts of many virtual users (VUs) dial iroh peers,
push bytes through streams, echo datagrams, run gossip rounds and fetch blobs, and
what they measure becomes k6 samples. The program is small and concurrent: every VU
has clients of its own, several goroutines may call one client, and all clients of
scope `shared` run on one endpoint that belongs to the whole test. What it owes its
users is that the handles it caches stay usable and are not leaked, that a run ends,
and that the numbers are about what happened.

This directory holds TLA+ modules translated from the Go code, TLC runs that check
them on small instances, and TLAPS proofs for every value of the constants.

## Inventory

| Component | Code | State | Operations | What makes it correct |
|---|---|---|---|---|
| Client lifecycle | `client.go`, `gossip.go` | `mu`, `endpoint`, `conn`, `gossip*` of each Client | `connect`, `Dial`, `endpointFor`, `joinGossip`, `gossipHandles`, `Close` | no workload on a nil or replaced handle; one owner per handle; nothing leaked; every call returns that no unbounded one holds up |
| Root shared endpoint | `module.go` | `mu`, `endpoint`, `epOptsKey` of RootModule | `sharedEndpoint` | bound once, retried after failures, handed out only to equal options, never closed |
| Socket counter snapshots | `client.go`, `module.go`, `metrics.go` | `lastSocket`, `lastShared` | `MetricsSnapshot`, `sharedSocketDelta`, `push` | the deltas sum up to the traffic; each reaches k6 or is lost with its VU |
| Datagram echo | `client.go` | the connection and its unread datagrams | `EchoDatagrams`, `awaitEcho` | each datagram is echoed or lost once; the call ends |
| Gossip rounds | `gossip.go` | `gossipEchoes`, the pump goroutine | `Gossip`, `collectEchoes`, `matchEcho` | each query is echoed or outstanding once; losses only after the timeout; the round ends |
| Stream fan-out | `client.go` | `streamOutcome` of each goroutine | `SendStreams`, `sendOneStream` | completed means delivered; sums agree with the peer; the call returns |
| Blob fetch | `client.go` | `progressWriter`, watchdog, stall channel and context | `FetchBlob` | a stall is silence, give or take the watchdog's delay, is noticed in time and reported; both goroutines end |
| Request | `client.go` | the cached connection | `Request`, `recordRequest` | a success read back what it sent; the call ends |
| Result log | `results.go` | file, `opened` flag, mutex, sample counter per rung and cell | `recordTransfer`, `recordRequest` through `open`, `newLine`, `write` | each sample number once and in order; a failed write costs two lines at most |
| Configuration, backends | `client.go`, `backend.go`, `backend_go.go`, `register.go` | the registry | `newClient`, `decodeTarget`, `register`, the relay modes of each `Bind` | no field left open; a forced relay never goes direct; accepted targets can be dialled |
| ffi adapter | `ffi/backend_ffi.go` | read buffer, `done` channel of each connection | `Read`, `Write`, `CloseWithError`, `Done`, `newConn` | the end of a connection announced, and noticed; nothing buffered is lost |
| Metrics | `metrics.go` | tags of each VU | `push` | no sample after the VU is done |
| Stream debug | `irohpeer/streamdebug.go` | probes, file | loop, `Close` | lines that are consistent; a final dump that covers every stream; the loop ends |
| JS bindings, peer helpers, build | `module.go`, `index.d.ts`, `irohpeer`, `Makefile`, `ffi/libiroh` | none | conversions, a hash, linking | -- |

How they interact. A workload of a client first takes `c.mu`, finds or makes the
connection or the topic, for which it may take `root.mu` while it holds `c.mu`, and
then runs without any mutex on the handle it was given. `Close` may come in between.
A joined topic has a goroutine, the pump, that ranges over the topic's events and
fills the bounded channel from which rounds read. A raw blob fetch has a watchdog
goroutine that shares an atomic time stamp, a channel and a context with it. All
clients push to k6's sample channel, shared ones subtract counters from one
baseline in the root, and all VUs append their results to one file under its mutex. The
streams of a run store their progress to atomic fields that the debug loop loads.

What is hard here: a Close or a dying connection between any two steps of another
call; the two mutexes held across blocking calls; counters read before the lock under
which the baseline is replaced; echoes and replies that arrive after their call has
given up, in a program whose sequence numbers restart with each call; timeouts that
race answers; partial writes; goroutines that must not outlive their call.
`PROJECT.json` lists these hazards line by line with the properties aimed at them.

## The modules

### Client, with SharedCell (client.go, gossip.go, module.go)

`MCClient` draws the configurations of its clients from `ClientConfig!newClient`.
State: the cached handles of each Client (`mu`, `endpoint`, `conn`, `topic`), the root's
(`rootMu`, `rootEndpoint`, `rootOptsKey`), the life of each endpoint, connection and
topic, the set of running pumps, and for each *caller* (a goroutine inside a method)
its program counter and the handles in its local variables. A method is cut where the
code takes or drops a mutex or blocks: `ConnectMiss` is the body of `connect` up to
`endpointFor`, `OwnBind` / `SharedMiss` / `SharedBind` are the bind, `Dial` and
`DialFails` the rest. `rootbind` is the interval in which `sharedEndpoint` holds
`root.mu` across a bind, and the caller, unless it takes a snapshot, also holds `c.mu`.
`Handles` is `gossipHandles`, the second look at the topic. `Close` is four actions: it
takes the handles under the mutex (`CloseTake`) and tears them down without it. What a
workload does with its handle is the interval `use`; the other modules are about that.
`boundBy` is a history variable. The constant `Script` says which methods a caller calls.
Of `optsKey` the model has the relay mode only, one relay URL being enough for a mode to be
the key; `ClientConfig!optsKey` has both. `Unbounded` names the calls that nothing
ends: the bind of the shared endpoint, which `context.WithoutCancel` frees from every
deadline, and all calls on an endpoint that ffi bound.

`SharedCell` is what `sharedEndpoint` promises, without mutex, blocking bind and
failures: a cell filled at most once, with the key of the user that filled it, and given
unchanged to users with that key and to no other. `Client!ImplementsSharedCell` maps the
root's fields to it and the endpoint in each shared caller's hands to `got`.

### SocketCounters (MetricsSnapshot, sharedSocketDelta, push)

One counter, the code subtracts them name by name. A snapshot takes the handle, reads the
counters without a mutex, swaps the baseline under one, and pushes the delta: four steps,
so that others fit between them. `Minus` is uint64 subtraction modulo the constant `W`.
`Close` drops the endpoint and keeps the baseline, as the code does. `deltas` and
`emitted` and `dropped` are history variables, the sums of what was computed, pushed, and lost
with a VU that had ended.
Shared clients have one baseline, in the root, and an endpoint that no Close drops;
a vu-scoped client has its own and may rebind; `Shared` tells them apart.

### EchoAccount (what EchoDatagrams and Gossip promise)

An abstract account of one call's sends, without connection, swarm or sequence numbers:
each send is outstanding until it is echoed or, once its time is up, lost; the result
counts exactly these; a call returns with none outstanding, having sent all it was asked to
unless its time is up; one given up half way says nothing certain of losses. `Datagrams` and
`GossipRound` each map their local variables to it (`Account`), and
`ImplementsEchoAccount` is a property of their runs.

### Datagrams (EchoDatagrams, awaitEcho)

One client makes several calls; a call sends a datagram and awaits its echo, one at a
time. The connection outlives calls, with what is on its way (`out`, `back`) and what has
arrived unread (`inbox`); a redial leaves all of that behind. `ReadEcho` looks only at
the sequence number, as the code does, while the history variable `credits` remembers
which datagram the echo was of. Datagrams are lost, delayed and reordered; the peer
echoes at most once. `Deadlines` is whether `ReadDatagram` honours its context: it does in
Go and does not under ffi.

### GossipRound (Gossip, matchEcho, collectEchoes, the pump)

A round drains the channel, broadcasts, collects without waiting, waits out the interval,
and after the last query waits for the outstanding ones until its timeout. Replies come
from members and, to other clients' queries with the same sequence numbers, from round 0.
The pump queues them in a channel of capacity `Cap` and drops those that do not fit.

### Transfer (SendStreams, sendOneStream)

Each goroutine of the fan-out opens a stream, writes chunks, half-closes, waits for the
peer to close its side, and stores an outcome; `Aggregate` is the code after `wg.Wait`.
Inside `Write` the transport takes one byte at a time (`Take`) while flow control and the
peer let it; `Write` returns when the chunk is taken, or earlier with `ShortWrites`.
The peer grants `Limit` streams at once, reads, closes when it has read to the end, or resets.

### FetchBlob (FetchBlob, progressWriter, the watchdog)

Time is a counter. The watchdog loads the time of the last byte at each tick and compares it
with the clock in a second step; it closes the channel, then cancels the context, in two
further steps. Bytes arrive and time passes between any two of them: each step may come up to
`Lag` after it could (`Ready`, `DogInTime`), and the ticks a late watchdog could not be given
are dropped (`NextTicks`), as Go's ticker does. `Settle` asks once whether it fired. Whether the target is a collection
(`hashSeq`), which is fetched without a watchdog, is chosen initially.

### ResultLog and Requests (results.go, Request, the ffi adapter's streams)

`ResultLog` is the file and its mutex for any set of writers: recording waits for the mutex,
opens the file if nobody has tried to, takes the next sample number of its cell
(`NewLine`), and writes the line (`WriteLine`, `LineFails`, of which a torn part may
stay), both under the mutex. `file` is what has been written, in order.

`Requests` EXTENDS it: one VU makes requests on its cached connection and records those that
succeed, while other writers record results of their own. The implementation is chosen
initially. Under Go a `Write` takes the whole payload, every call fails once the
deadline has passed, and `Done` is closed as the connection dies. Under ffi a `Write` may
take less, nothing looks at the deadline, a `Read` keeps what does not fit in
`buf`, and `Done` is closed by whichever comes first, the goroutine that `newConn` left
waiting (`WaiterCloses`) or a `CloseWithError` (`CloserCloses`). All ffi calls on a
connection may hang for good (`ConnHangs`), the waiting goroutine's included, as
`ffi/README.md` has it of the bindings. `Expire` is the request's timer, under Go. The transport and the peer that echoes are external.

### StreamDebug (irohpeer/streamdebug.go)

Every atomic store of a stream and every load of a dump is a step of its own, in the order
of the code, because their order is all that keeps a line consistent. The loop takes ticks
and ends with `done`; `Close` closes `done`, dumps once more and closes the file, which the
loop may still be writing to. The n-th operation has phase and time n and moves one byte,
so that the fields of a line can be compared. `LoadField` loads `closed` together with `opStart`:
nothing a line shows depends on what happens between the two.

### ClientConfig (newClient, decodeTarget, the backends' options)

No state: operators for the defaults and refusals of `newClient`, the choice of ALPN, and the
transports and targets each backend's `Bind` and `Connect` make of a configuration. Its
properties are theorems, for any registered backends and relay URLs.

## Runs

Safety is checked by exhaustive search; symmetry (interchangeable goroutines and
handles) is used in `ClientVU` and the two Counters runs, which check no liveness.
`CHECK_DEADLOCK FALSE` appears where the system may stop: a call has returned, or a script
has made the last call its bound allows. In the Client runs scripts never stop calling, so
deadlock is checked: a mutex left locked would be one.

| Run | Instance | What it shows |
|---|---|---|
| ClientVU | one vu-scoped client, three goroutines, two endpoints and connections, one topic | no nil handle in use, dials on open endpoints, connection and topic on the endpoint that is counted, teardown exclusive, nothing leaked |
| ClientShared | two goroutines on a client of scope shared, a second client with other options and another implementation, two endpoints, one connection and topic; fairness | the shared endpoint is bound once, stays open, goes only to equal options; the root implements `SharedCell`; a call returns unless one that nothing bounds hangs; pumps of closed topics end |
| ClientImpl | a go and an ffi client with equal relay options | *violated*: see finding 1 |
| Counters | one vu-scoped client, two goroutines, two binds, at most three datagrams counted each | deltas telescope to the last baseline modulo W; sequential snapshots of one endpoint are exact; each delta is pushed, or dropped with its VU |
| CountersStaleRead | two VUs on a shared endpoint | *violated*: finding 2 |
| Datagrams | three calls of up to two datagrams; fairness | the calls implement `EchoAccount`; an echo counts once, a late credit takes an earlier loss, losses are not understated in sum, every call ends |
| DatagramsLate | two calls | *violated*: finding 3 |
| Gossip | one member and another client, two rounds of up to two queries, channel of two; fairness | the rounds implement `EchoAccount`; one credit per query and reply, a stale credit takes a loss, every round ends |
| Transfer | two streams of three bytes in chunks of two, window two, one stream open at a time; fairness | completed streams were delivered, the bytes claimed cover those received, results agree with the peer, the call returns after its timeout, and without failures everything arrives |
| Fetch | stall after 8, ticks of 2, steps of the watchdog up to 1 late, timeout 22, two bytes; fairness | a stall reported is silence that long, less the delay; silence is noticed within a tick and three delays; a cancelled fetch says so; both goroutines end |
| Requests | a VU with two requests of two bytes over two connections, another VU with one result, two cells; fairness | samples numbered in order, torn lines bounded, a recorded request is a whole round trip, every death announced and noticed, every Go request ends and every ffi one whose connection does, unless its calls hang |
| StreamDebug | two streams with two operations in all, one tick; fairness | lines are never ahead of themselves and right about a stream that is blocked, the final dump covers the streams under way, the loop ends |

Why the bounds are enough. Endpoints, connections and topics bound how often a bind, dial
or join *succeeds*; two of each allow one to be torn down while another is made, and once
they are used up every further attempt fails, which the code must survive anyway. Three
goroutines allow a Close between two steps of a second with a third locked out; in
ClientShared two of them contend for `c.mu` and all three for `root.mu`, so that one waits
for a mutex whose holder waits for the other mutex, and an inversion of their order
would show. With
`W = 8` and at most three datagrams the modulus exceeds the traffic as 2^64 does, and
underflow is visible. Two datagrams a call and three calls let a misattribution
pass from call to call, which it does: once one wait has timed out, each later call may
count the echo of the call before. In a round of two queries with a channel of two, a reply
of the round before and one for another client are enough to overflow it. Two streams under
a limit of one wait for each other; three bytes in chunks of two leave a last, shorter
chunk. The fetch's timeout leaves
room for two stalls, and a delay of one, half a tick, for a byte and a unit of time between the
load and the comparison. Requests of two bytes read with a
buffer of one and a read limit of two make short writes and buffered reads both happen;
the second request finds the connection alive, dying, closed by `Close` or noticed dead; one
result of another VU suffices to come between the sample number and the line of the first. Two
operations in the stream debug let a line mix fields of one operation with those of
the next, on one stream or two, while the loop and `Close` both dump.

Each property has a mutant (an operator with a comment beginning "Mutant:" next to the
operator it stands in for): a bug such as a forgotten lock or an uncounted loss with which
TLC finds the property violated.

### Fairness

- `Client`: strong fairness for each caller's steps, since a caller may wait for a mutex
  that others take in turn, and Go's mutexes hand over to a waiter that has starved for a
  millisecond; the blocking calls of the Go implementation return, having a deadline or the
  VU's context. Calls that nothing bounds (`Unbounded`) have no fairness: they may hang, and
  `CallsReturn` is about callers that are not, from some time on, held up by one, be it their
  own or that of a caller whose mutex they wait for, directly or through another. Weak fairness for the return of a pump whose topic is closed. No call need be made and
  no failure need happen.
- `Datagrams`, `GossipRound`: weak fairness for the goroutine and for its timer. Network,
  peer, swarm and pump owe nothing. Replies to other clients are bounded: with an endless
  stream of them neither the drain nor `collectEchoes`, which do not look at the context,
  need ever end.
- `Transfer`: weak fairness for the goroutines, strong for opening, as the transport grants
  streams in turn. `CallReturns` starts from the timeout having fired and assumes nothing of
  the peer; `AllDelivered` has as premises a peer that keeps reading, no failure and no timeout.
- `FetchBlob`: weak fairness for both goroutines, for the clock, and for the return of a
  download whose context is done. No byte need arrive. That the watchdog is at most `Lag` late
  is a guard of the clock, for any value of `Lag`.
- `Requests`: weak fairness for the steps of a request that wait for nobody, for its timer,
  the waiting goroutine and the closer; strong for each writer's steps in the log, whose mutex is
  handed over. Peer and network owe nothing, not even room for a stream or the payload. Under
  ffi a connection may hang at any time, and then owes no answer either.
- `StreamDebug`: weak fairness for the loop's dump, strong for its return, since `select`
  chooses at random between a tick and `done`. Streams may block, and nobody need call `Close`.

With `Deadlines = FALSE`, the ffi implementation, `CallEnds` and `CallReturns` do not hold:
a lost datagram or a peer that stops reading makes the call wait for good, as
`ffi/README.md` concedes. For safety `FALSE` only takes steps away, and `ShortWrites = TRUE`
only adds some, so the safety results of the runs cover both implementations.

### Findings

1. `optsKey` leaves out the implementation: a shared `ffi` client may run on an endpoint
   that the Go implementation bound, while its samples are tagged `ffi`.
2. Socket counters are read before the mutex under which the baseline is replaced. Two VUs
   whose swaps come in the other order than their reads make the difference underflow: a
   sample of nearly 2^64. `DeltasTelescope` says how far the sum can be trusted: modulo 2^64.
3. Sequence numbers of datagrams restart in each call: a late echo is counted for the next
   call's datagram. `LateCreditAfterLoss` says when: only after a wait for that number timed out.

Smaller observations without a run of their own:

- `Close` keeps `lastSocket`, so the first snapshot after a rebind subtracts the counters of an
  endpoint that is gone, although `client.go:476-478` speaks of the delta since the previous
  call: 3 counted and snapshot, a rebind, 2 counted and snapshot, and modulo 8 the samples are 3
  and 7. Their sum is congruent to 2, the last baseline, which is all that `DeltasTelescope`
  says, and not to the traffic, 5; `SequentialSnapshotsExact` leaves rebinds out.
- The watchdog loads the time of the last byte and then asks `time.Since`
  (`client.go:736-737`). If it is held up in between, that time counts as silence, and a byte
  that comes meanwhile is not seen: a live fetch whose longest silence was within `StallMs`
  can be called stalled. `StallAfterSilence` bounds the error by the delay, and is false without
  it. A `time.Unix` value has no monotonic reading either, so that a step of the wall clock
  counts as silence, too; the model's clock does not step.
- Calls on an ffi connection may park for good (`ffi/README.md:64-80`): then `Request` never
  returns, nor does the goroutine that is to close `done`, so that the connection stays cached.
  A shared bind has no deadline, and while it lasts every VU of scope shared waits.
- The drain before a gossip round misses replies still on their way; they are matched against
  the new round. `StaleNeedsLoss` is the corresponding limit, for one member.
- A short `Write` under ffi ends in a result line with fewer bytes than the payload,
  where `results.go:307-311` has it that Bytes is the request payload. `LineMeansRoundTrip`
  holds the line of a Go client to the payload and that of an ffi one only to what was
  written and read back.
- A stream ended by the timeout fails with the stage it was in, not "timeout" as the comment
  on `TimeoutMs` has it. The watchdog may fire when the download is complete, and then the
  result is both `stalled` and `completed`. A gossip round that its timeout cuts short
  before its last query may report no error. A topic whose pump has ended stays cached, and
  every later round on it times out.
- `newClient` accepts a blobs ticket for an ffi client, which then cannot dial it; an ALPN a
  script sets to the default explicitly is replaced for a blobs ticket all the same
  (`client.go:122-124` has it that explicit ones are kept); `optsKey` contains the relay URL even where the
  relay mode ignores it.
- A line of the stream debug may show as blocked an operation whose bytes and return it
  already counts, the end of an operation being three stores, and one that the stream leaves
  while the line is loaded with the phase of the next. Of a stream that is blocked all the while
  the line is exact, which is what `LineConsistent` says.
- Peers labelled `go` and `gg` are recorded in one cell, as are `rust` and `gr`
  (`cellName` passes other labels through), and share its sample numbers.

## Proofs

`ClientProofs` proves, for any number of clients, callers, endpoints, connections and topics
and any configuration, from `ClientAssumption` (callers have clients and scripts, `None` is
none of the identities): type correctness, all the safety properties of `ClientVU` and
`ClientShared`, and that the root implements `SharedCell`.

None of these is inductive: that nobody dials on a closed endpoint depends on who holds
which mutex, and that no two Closes end one endpoint depends on how it came into their
hands. The inductive invariant `IInv` is

- `ControlInv`: each mutex is held by exactly the caller whose program counter says so
  (`LockInv`), which method can be where (`CtrlInv`), what a miss in the cache established
  and the lock has kept true (`MissInv`), and that handles in use are not nil;
- `EpInv`, `ConnInv`, `TopicInv`: every handle in a cache or in the hands of a Close is
  usable, and in no second place; cached connections and topics run on the client's endpoint;
- `WorkloadInv`: the endpoint in a dialling caller's hands is still its client's and was
  bound with its options;
- `NoOrphans`: every open endpoint, live connection and pump has an owner.

Each part is a lemma, proved action by action from the parts before it; steps that change
neither caches nor resources (`QuietStep`) are dealt with once for all. The refinement is a
step simulation: `SharedBind` fills, `SharedCached` gets, a return drops, all else stutters.

`SocketCountersProofs` proves type correctness (inside its invariant) and, from
`CountersAssumption` (`W` exceeds the traffic), that deltas telescope modulo `W` for any
number of callers and any interleaving, and that snapshots which never overlap are exact.
The invariant says that the sum exceeds the baseline by a multiple of `W`, and, while
nothing has overlapped, that the one snapshot under way has read between baseline and
counter.

For `SamplesAccounted` it adds `PushInv`: there is a function that sums the deltas over the
sets of callers about to push, and its value, with what was emitted and dropped, is the sum of
the deltas computed. That such a function exists needs no induction: a caller that
computes or pushes a delta gives the next one from the last.

`FetchBlobProofs` proves, for any stall time, period, delay, timeout and blob, type correctness and
the three safety properties of the run. `ReportInv` says that a cancellation for a stall
implies a closed channel, wherever `FetchBlob` is; `StallInv` that the watchdog, when it
compares, judges by a silence there has been up to its delay since the load, although bytes
may have arrived in between; `WatchInv` bounds the time of each of its steps by the last byte,
so that silence cannot outgrow the bound while it is late. `DialInv` fixes the state before
the stream is open. `TypeOK` is a conjunction of named parts because most leaves need one of
them.

`StreamDebugProofs` proves type correctness and `LineConsistent` for any number of streams,
operations and ticks. Its invariant ties each probe to where its stream is (`ProbeOK`) and
follows a line field by field (`LoadOK`): of the fields, only the start is ever reset, it is
loaded first, and the others only grow (`Grows`), so whatever is loaded later is at least
what the fields loaded before it required. `BlockedInv` adds what the fields loaded so far are
of a stream that was blocked when the start was loaded, and still is.

`FinalDumpCovers` rests on a second invariant, `CoverInv`: from the moment `Close` has taken
the list of streams until its dump is over, the file is open, and each stream on that list
is yet to be dumped, has ended, or has a line with no fewer bytes than it had moved by then;
the line being filled counts once its bytes have been loaded.

`TransferProofs` proves type correctness and the three safety properties of the run for any
finite set of streams and any sizes, with or without deadlines and short writes. Its
invariant follows the bytes of a stream: the peer has read at most what the transport took,
the transport took what was counted outside `Write`, and at most a chunk more inside
(`BytesInv`); a stream is finished only when all was counted, the peer closes only a
finished stream it has read to the end, and a stage of failure is "none" until a stream ends
with one (`CloseInv`); the result is the `Summary` of outcomes that no longer change
(`ResultInv`). `Total`, the sum over streams, is a fold of the community modules. What holds
of it is proved by taking a smallest set of streams of which it does not hold; the library's
theorem that well-founded sets have minimal elements needs no operator parameter, unlike
induction. `TransferAssumption` asks for at least one stream: `SendStreams` turns
`opts.Streams` into 1 when it is not positive (`client.go:312-314`).

`DatagramsProofs` proves, for any number of calls and datagrams, type correctness, the three
safety properties of the run, and that the calls implement `EchoAccount`. A datagram is in
one place of the network at most, and none that was counted is still on its way
(`PlaceInv`), so an echo counts once. `StaleInv` is why `LateCreditAfterLoss` holds:
whatever can still arrive and is not awaited has a loss of its number behind it, in its own
call or an earlier one, or travels on a connection about to be replaced. `LossInv` compares
cardinalities: what is unread or dropped is covered by losses, failed sends and the one send
being awaited. The refinement is a step simulation in which `Send` sends, `ReadEcho` echoes,
`NextLost` loses, and what the network does is a stutter. `ResultsAddUp` then says of every
call that its numbers are the cardinalities of its outcomes and that none is left out when
it returns: the invariant of the account (`AccountInv`), carried over by the refinement.

`GossipRoundProofs` proves the same of the gossip rounds, for any finite swarm, channel and
number of rounds: `OneCreditEach`, `StaleNeedsLoss`, the refinement of `EchoAccount`, and
that results add up (`RoundsAddUp`). `PlaceInv` keeps a reply out of the channel twice, and
out of the channel once counted; `RoundInv` ties the sequence number to the queries sent,
outstanding and echoed, of which there may be several at a time; `CreditInv` says that a
reply is counted for a query of its number and of no earlier round. `StaleNeedsLoss` is the
one property that no single step shows: it follows from these by counting. If a query of
this number had got a reply of this client in each of rounds 1 to j, these replies would be
to queries of rounds 1 to j, no two the same, so that with one member all the replies of
those rounds would be used up, and none of round j left to be counted in a later one
(`EarlierUncounted`).

`RequestsProofs` proves, for any writers, payload, reads and connections, type correctness
and the four safety properties of the run. `LogInv` says that who writes holds the mutex,
that a line being written has the last number of its cell, and that every number given out
is in the file, being written, or lost to a failure; `SamplesInOrder` needs all three.
`BytesInv` and `RecordInv` follow the bytes of a request to its line: what was read and
buffered never exceeds what was echoed, nor that what was sent. `EndInv` says of each
connection who is left to announce its end: under ffi the parked goroutine, or `done` is
closed already; `EndAnnounced` says so of both implementations.

`ClientProofs` ends with the configuration, for any registered backends and relay URLs. An
accepted configuration is complete and a fixed point of `newClient` (`Normalised`); a forced
relay never gets an endpoint with direct transports under either implementation
(`ForcedNeverDirect`); either backend can dial the targets that `newClient` accepts, blobs
tickets under ffi excepted (`AcceptedTargetsDialled`). These have no state to explore and no
run. `RelayKeptTheorem` joins the two modules: with configurations that come from scripts
through `newClient`, in every reachable state a client that forces the relay dials and
subscribes only on endpoints without direct transports, even when the endpoint is shared and
another client bound it under another implementation (finding 1), and a client that does not
force it never goes over the relay. `optsKey` leaves the implementation out but not the
relay mode, which is what the proof uses: `OptionsHonoured`.

Every safety property that a passing run checks, and every refinement, is the subject of a
theorem. Only model-checked: all liveness (`CallsReturn`, `ClosedPumpEnds`, `CallEnds`,
`RoundEnds`, `CallReturns`, `AllDelivered`, `FetchEnds`, `DeadIsNoticed`, `RequestEnds`,
`LoopEnds`), whose fairness is about ENABLED, which the prover does not treat. The type
invariants of Datagrams, GossipRound and Transfer are theorems that no run repeats.

What the proofs take for granted is what the models do: the assumption of each module, the
bounds on counters (each a constant of arbitrary value), and the actions of what is
external.

## Not modelled

Measured durations, throughput samples, tags and log lines are data no property is about.
Sizes of datagrams are left out, and with them the clamp to the connection's maximum. The
provenance columns of a result line are constants of a run, and environment variables only
choose names. That `ReadDatagram` ignores its context under ffi is a parameter (`Deadlines`)
whose liveness consequence is stated above. JS bindings convert option objects, peer helpers
are a hash and a constant, and build files link the Rust library: none has state. The iroh
libraries, the network and the peers are external: their actions are what the code in the
repository relies on.

## Plan

Written, in this order, the handles first since everything runs on them: Client with
SharedCell; SocketCounters; Datagrams; GossipRound; Transfer; FetchBlob; EchoAccount and its
refinements; ResultLog with Requests; StreamDebug; ClientConfig; and proofs of the safety of
all of them.

Next, in the order of what they are worth:

1. Of `Client`, the safety that its liveness rests on: whoever waits for a mutex waits for a
   caller that holds it, a holder of `c.mu` may wait for `root.mu`, and a holder of `root.mu`
   waits for nobody. ClientShared checks on its instance that nothing deadlocks.
2. An abstract log that `ResultLog` implements: per cell, numbers given out, each written
   or failed; and the refinement proved.
3. Of `FetchBlob` and `Requests`, what their liveness rests on: a watchdog at work after the
   download has been told to stop, and a read that waits has a timer or a connection to end it.
