# Formal models of libcanard-go

TLA+ models, TLC runs and TLAPS proofs for libcanard-go: the Cyphal/CAN transport
(package `canard`, the repository's root) and the session layer above it (package `cy`).
All paths below are relative to `src/`.

## 1. The system

### Transport: package `canard`

A `Canard` instance is single-threaded and callback-driven. The application calls it
(`Publish*`, `Subscribe*`, `IngestFrame`, `Poll`, `SetNodeID`, ...), and it calls back
through `Platform` (`Now`, `TX`, `Filter`) and `SubscriptionVTable.OnMessage`.

| Component | State | Operations | What makes it correct | Module |
|---|---|---|---|---|
| TX pipeline (`tx.go`, `canard.go`) | pending trees, deadline tree, agewise list, `queueSize`, `seqno`, frame reference counts | `Publish16b` ... `V0Respond`, `Poll`, `RefCountInc/Dec`, `Destroy` | exact accounting; no torn, mixed or overdue transfers on the bus; order per CAN ID; the queue drains; what is cut can be put together | `CanardTx`, `Segmentation` |
| Node-ID allocator (`canard.go`, `prng.go`) | `NodeID`, occupancy bitmap, `filtersDirty` | `nodeIDOccupancyUpdate`, `SetNodeID` | a collision always finds a free ID; the ID is nobody else's | `NodeIdAllocator` |
| RX pipeline (`rx.go`, `list.go`) | subscription trees, per-remote sessions, one slot per priority, animation list | `Subscribe*`, `Unsubscribe`, `IngestFrame`, `Poll` | at most once, nothing complete lost, sessions reclaimed | `CanardRx`, `Segmentation` |
| Acceptance filters (`rx.go`) | none; recomputed by `Poll` when `filtersDirty` | one filter per subscription, fusion | every wanted frame passes | `AcceptanceFilters` |
| Index trees (`cavl.go`) | intrusive AVL nodes | find, insert, remove, iterate | a search finds exactly the members, traversal is exact, balance | `Cavl`, `CavlTree` |
| CAN adapter (`canadapter.go`) | none of its own | `PumpRX`, `FlushTX`, `Conn.Run` | the instance is not used by two goroutines at once | (section 7) |
| CRC, DLC, lists | none | | | in `Segmentation`, `CanardRx` |

### Session layer: package `cy`

| Component | State | Operations | What makes it correct | Module |
|---|---|---|---|---|
| Topic consensus (`cy/cy.go`, `cy/gossip.go`, `cy/topic.go`) | topics by name, hash and subject-ID; readers; scheduled gossips; pending scouts | subscribe, advertise, gossip, scout, inline gossip | nodes agree on a topic's subject-ID; different topics get different ones; patterns discover topics | `TopicConsensus` |
| Reliable publication (`cy/reliable.go`, `cy/publisher.go`) | pending messages, associations, timers, futures | publish, retransmit, acknowledge, materialize, cancel | every future completes once; success means acknowledged by all | `ReliablePublisher` |
| Deduplication, reordering (`cy/reliable.go`, `cy/subscriber.go`) | 512-tag window; reordering buffer | test, commit, insert, time out | delivered at most once, in order | `ReliableReceiver` |
| RPC (`cy/rpc.go`, `cy/future.go`) | request futures, acknowledgement records, breadcrumbs | request, respond, retransmit, acknowledge, cancel, destroy | a response is delivered once; both ends settle | `Rpc` |
| Event scheduler (`cy/olga`) | ordered map of tasks, wakeup channel | schedule, cancel, reschedule, spin, run, stop | a due task fires once, in order; `Run` does not oversleep | `Olga`, `TimerQueue` |
| UDP platform (`cy/udp`) | writers, ports, per-sender reassembly and transfer-IDs | write, receive, make and destroy readers and writers | what is passed up is whole, in order, once | `UdpPlatform` |
| Subscriber (`cy/subscriber.go`) | queue, liveness timer, disposal | deliver, time out, close | no callback after disposal | partly, in `ReliableReceiver` |
| CAN platform (`cy/can`) | a queue between callback and session layer | | | no |
| Headers, messages, names, patterns, diagnostics, DSDL, standard types | none | pure conversions | | no |

Interaction: the session layer's handlers run under `c.mu`; its timers run as `olga`
tasks on the goroutine that spins the scheduler; reliable publication and RPC have
mutexes of their own, which they release to send and to complete futures. A message is
multicast to the subscribers of a subject-ID, gossip to everyone. The session layer uses
the transports only through `Platform`.

### What is hard here

* `Poll` gives control to the driver in the middle of a transfer; between two frames
  the transfer can be preempted, sacrificed, expired or purged, and the node-ID changed.
* Frames outlive their transfers, and even the instance, on the application's references.
* The networks lose, repeat and reorder; transfer-IDs, tags and sequence numbers wrap.
* Topic allocation is a distributed algorithm whose arbitration depends on time, with
  cascading local evictions.
* A timer's callback runs after its task has left the scheduler and without the mutex:
  it races with whoever cancels or rearms the task.
* A reliable publication is completed by whichever of three goroutines comes first: the
  deadline, the last acknowledgement or the publisher's destruction.
* Acknowledgement history outlives the request it belongs to.

`PROJECT.json` lists the hazards line by line with the properties that cover them.

## 2. Modules

```
NodeIdAllocator <- CanardTx <- MCCanardTx -> AcceptanceFilters, Segmentation, Cavl <- CavlTree
                      ^                             ^
                CanardTxProofs ---------------------+

TimerQueue <=(refinement)= Olga <- OlgaProofs

CanardRx <- CanardRxProofs    ReliablePublisher <- ReliablePublisherProofs

MCRpc -> Rpc <- RpcProofs     ReliableReceiver <- ReliableReceiverProofs

MCUdpPlatform -> UdpPlatform <- UdpPlatformProofs

MCTopicConsensus -> TopicConsensus <- TopicConsensusProofs
```

(`<-` is EXTENDS; a module whose name starts with MC instantiates or composes for TLC.)

**NodeIdAllocator** The bitmap is the set of its set bits; bit 0 is reserved. The PRNG is
a nondeterministic choice: `chance(zc)` may be true always and false only if `zc > 1`,
`random(zc)` picks any clear bit. `ConfigureFilters` is the first statement of `Poll`;
`filterNode` is the node-ID for which the hardware filters are programmed.

**CanardTx** One interface. A transfer is its `seqno`; a descriptor has `canIDMSB`,
`deadline`, `frames`, `cursor` and `firstFrameDeparted`. The three indexes of the code
are one set with three orders. A frame is `<<seqno, index>>`, and `refcount` is the
registry of allocated frames. `Poll` is split at every `Platform.TX` call: `Poll`
expires, `Eject`/`EjectRefused` are one call of the driver with its effects, `EjectDone`
is the return. Between the offers the application may count frames up and down
(`RefCountInc`, `RefCountDec`), as its driver does. `Publish` includes the whole of `txPush`, with expiration and sacrifice.
Receiving a frame matters to the transmitter through the node-ID only
(`IngestStartFrame`). `wire`, `held` and `polledAt` are history.

**Segmentation** The pure part of sending and receiving: `txSpool` and `txSpoolV0` round
by round (`SpoolFrame`), and the slot that puts frames together (`rxAccept`). A CRC is the sequence of the bytes it was computed over, so that it is
right exactly if the bytes are; whether 16 bits catch an accident is not the question.

**AcceptanceFilters** CAN IDs, filter codes and masks are sets of bit positions. The IDs
are those the `Publish` functions compose; `rxParse` is the reader; the filters are
those of `rxFilterForSubscription`, fused pairwise as long as there are too many. The
loops over the fields of an ID become set operations, so that nothing of the width is lost.

**Cavl**, **CavlTree** The tree pointer by pointer: `up`, the two children, the height and
the balance factor of each node, including what rotations, early stops and removal leave in
them. `Cavl` has the operations as operators on a tree; `CavlTree` makes a state machine
of them; `Reachable` (in `Cavl`) is the set of the trees that sequences of operations lead
to, as long as no removal loses an `up` pointer (`LosesUpPointer`, section 7). `CanardTx`
and `CanardRx` treat the trees as the sorted sets they are meant to be, which they are up to
such a removal; what the instance does after one is not modelled. `CanardRx` keeps the
lookup's answer for an absent key (`cavlFind`), which its callers do not check.

**MCCanardTx** composes these: the node's mode and node-ID come from `CanardTx`, what
the filters let pass, how payloads are cut and what the trees keep from the others.

**CanardRx** Subscriptions of one kind, sessions per port and remote, slots per
priority, the animation list, and a bus on which the frames of the remotes are lost or
received, and received again. Remotes number their transfers per port modulo
`TransferIDModulo`. `intact`, `sent`, `progress` and `delivered` are history; a transfer
stays in `intact` while all its frames have been received and the receiver is not
entitled to give it up or to take it for a repetition. Where `cavlFind` answers with a
neighbour a frame goes astray, and may do damage there: it makes the neighbour's session
take a wanted transfer for a repetition (`strayed`), or breaks into its slot (`Strayed`),
so `NothingLost` makes no promise to those transfers. Members leave the animation list
by `Delist`, which keeps the order of the others. Left out: that `Subscribe` and
`Unsubscribe` have the filters recomputed (`rx.go:539`, `rx.go:550`; `AcceptanceFilters`
takes every set of subscriptions), and frames of anonymous nodes (`rx.go:324`).

**TopicConsensus** A topic is its hash; subject-IDs are computed with the code's formula
over a small modulus. Time is in seconds, the unit of the log-age. The handlers, which run
under `c.mu`, are operators on the state of one node: `topicAllocate`,
`onGossipKnownTopic`, `onGossipUnknownTopic`, `onData`. The calls in which `topicAllocate`
recurses are all in tail position, so its recursion is a sequence of calls (`Calls`), each
of which (`AllocateOnce`) settles its topic or passes on a topic and an eviction counter;
it goes on to `MaxCalls`, which is proved to be enough (section 5). `BuildWire` and
`SendWire` are the two halves of publishing. `stuck` marks a node whose goroutine waits
for a mutex it holds, which is what the first gossip on a shard subject does
(`gossip.go:236`, `gossip.go:181`). It is the goroutine that spins, so the node neither
receives nor sends any more, what is sent to it is lost, and only a restart ends it;
`Running` are the other nodes. That is a platform whose `Spin` reads the messages, as the CAN
platform's does; over UDP another goroutine reads them and would go on until one of them makes
it schedule a gossip, which is not modelled. `MCTopicConsensus` says which node creates which topic: topics 1 and 8
collide at once under the modulus 7, topic 9 collides with one of them after an eviction.

**ReliablePublisher** One publisher on one topic. The three goroutines that meet, the
application's, the scheduler's and the receive loop's, each have a variable for what they
carry from one critical section of `rd.mu` to the next: `app` is between registering a
message, sending it and arming its timer; `timer` has taken a task out and sends, or is
about to complete a future; `rx` has recorded an acknowledgement and has yet to tell the
future. `reached` is the network: a remote that a transfer reached may acknowledge it any
number of times or never. `confirmed` is history. The scheduler is that of `TimerQueue`.

**ReliableReceiver** The receiving half of reliable publication: one node, its
subscribers on a topic, one publisher. The dedup bitmap is the set of its set bits. The
reordering buffer maps linearized tags to arrival times, and the loops over it are
written by what they do: `eject` hands over the slots up to a tag, `scan` a run of
consecutive ones, `SlideTo` as many runs as it takes for a tag to fit. `push` follows the
code case by case; `deliverTopic` is the whole handler with its acknowledgement.
`Destroy` and `teardown` are the two halves of ending a subscription, between which it is
disposed and still registered. Tags are modulo `TagModulus`. `acks`, `accepted` and
`delivered` are history. The publisher is its side of the wire only: it numbers messages
and gives them deadlines; retransmission is the network's repetition.

**Rpc** A requester and its responders. A record of acknowledgements is `solo` while one
remote has answered with number 0, else a window per remote, as in the code (`Admit`,
`Test`, `Promote`). `Destroy` hands it off to `requestAcks`; when it has expired
(`Expire`) the next response sweeps it away. A liveness task is taken out (`Dequeue`)
before its callback gets the mutex (`OnLivenessTimeout`). The responders retransmit
without a deadline, as the code does. `net` is a set of transfers, `delivered` history. With
one request, `respondKey` is unique, so the search for a free tag (`rpc.go:549-562`) is left
out, as are a first send that fails (`rpc.go:535`, there is no future then) and an application
that sets a breadcrumb's number back (`rpc.go:511`).

**TimerQueue**, **Olga** `TimerQueue` is what a scheduler promises: tasks are armed,
fired in the order of deadline and arming, disarmed, with no word about keys, trees or
mutexes. `Olga` is the code: a tree of nodes keyed by (deadline, sequence number), tasks
with an `active` flag and a key that outlives their node, goroutines that spin (`spin`),
the goroutine of `Run` with its sample, its timer and the one-place channel `wakeup`,
and `Stop`. Clients act at any time, from callbacks too. `TQ` is the refinement mapping:
a task is armed with the deadline of its node in the tree, and `before` is the order of
the sequence numbers.

**UdpPlatform** Several nodes; the receiving side is that of `Self`, which also hears its
own multicasts. `net` counts the copies of each frame on the network, one per redundant
interface at first, which are read in any order. The
receive loop reads a datagram and its port (`hand`) before it takes the port's mutex.
Stateless ports remember two fingerprints, each the exclusive or of a transfer-ID and a
UID, here as the set of its bits; stateful ones a slot and a transfer-ID per sender,
compared on a ring. Writers, readers and the platform are made and destroyed. A stream is
what a node sends on a channel; it is `Steady` if every transfer-ID is ahead of those
before it by less than half of the ring, as one writer numbers up to 2^47 transfers.

Each module defines, before the definitions of the code, the variants marked `Mutant`:
plausible faults with which the properties are known to fail.

## 3. Runs

| Run | Bounds | What it shows |
|---|---|---|
| `tx_queue` | 3 node-IDs, 1 filter, 2 transfers of two frames, capacity 3, one retained reference per frame | reference counts are exact and the queue size is the number of live frames (`Accounting`), also when the application keeps frames beyond the transfer and the instance, and releases some while the driver is offered others; a collision finds a free node-ID that nobody else was heard with (`NodeIDSound`); however few the hardware filters and however many the subscriptions, what is wanted passes and is read as what was sent (`NothingWantedFilteredOut`); the queue empties although the driver may refuse everything (`QueueDrains`) |
| `tx_wire` | 3 transfers of 1 to 3 frames (Classic and FD), 2 CAN IDs, capacity 4, collisions; trees over 6 keys | no transfer under two node-IDs (`NoFrankentransfer`), nothing overdue offered to the driver (`NothingOverdueOffered`), the frames of a CAN ID come transfer by transfer, each in order from its first, and transfers in the order of publication (`InOrderPerCanID`); payloads of every size up to five Classic frames, and around the boundaries of three FD frames, become as many frames as predicted, and a receiver that misses any of them gets the payload or nothing (`CutAndReassembled`); in whatever order nodes are inserted and removed, a tree is linked, searched and walked as the sorted set of its members, unless a removal loses an `up` pointer (`IndexTreesKept`), and an insertion keeps a balanced tree balanced (`InsertionBalances`) |
| `cavl_iterate` | 4 keys | finding: after a removal `cavlIterate` visits the node that was removed, contrary to `cavl.go:388` (`IterateExact` is violated: insert 1, 2, 3, 4, remove 2) |
| `rx_reassembly` | 1 remote, 2 priorities, 3 transfers of 1 or 2 frames, transfer-IDs modulo 2 | `AtMostOnce`, `NothingLost` |
| `rx_reclaim` | 2 ports, 2 remotes | the list is ordered by last admission and holds every session (`AnimationOrdered`); what frames do that go astray between ports and remotes, a transfer they cannot damage is delivered (`NothingLost`); after the last frame every session is reclaimed (`SessionsReclaimed`) |
| `topic_converge` | 3 nodes, 2 colliding topics, either may be pinned, one pattern, one restart, ages up to 1 s, three broadcast gossips before the first on a shard subject | among the nodes that are not stuck in it, colliding topics end on different subject-IDs (`EventuallyDistinct`), nodes that share a topic agree on its evictions (`EventualAgreement`), a pattern subscriber learns the matching topic (`PatternLearns`) |
| `topic_index` | 2 nodes, 3 topics, one data message, loss, repetition, reordering, failing readers | the subject-ID index has no stale entry (`IndexSound`); an open reader is where every node with the same eviction counter for the topic publishes it (`ReaderFollowsSubject`) |
| `reliable_rx` | 2 subscribers (ordered, unordered), up to 6 messages, dedup window 4, buffer 4, tags modulo 32 that wrap after the third | what is acknowledged was accepted (`AckedWasAccepted`), delivery is at most once and in order (`DeliveredOnceInOrder`), nothing accepted is dropped from the buffer (`InternedKept`), a gap delays nobody beyond the window (`HeadOfLineTimely`) |
| `publisher` | 2 remotes, 1 message, 2 changes of associations, intervals 1, 2, 4 within a patience of 4 | OK only if every subscriber known at publication has acknowledged, ErrDelivery only at the deadline and never against acknowledgements already accepted (`VerdictJustified`); `BackoffDoubles`; a verdict is final (`FinalErrorKept`) and always comes (`PublicationEnds`) |
| `rpc` | 1 request, 2 responders, 2 responses numbered up to 2, history 2, 1 transfer lost | a response reaches the application once, and is reported delivered only if it was (`DeliveredOnce`); it is refused only for a reason (`NackJustified`); a future that was cancelled or destroyed stays as it is, whatever timer was already due (`DisposedSilent`); both ends settle (`BothSettle`) |
| `olga` | 3 tasks, 2 deadlines, the goroutine of `Run` and one that spins, 3 insertions | handles and tree agree (`HandlesExact`); while `Run` waits nothing is due before its wakeup (`NoOversleep`); every step is one of `TimerQueue`, and a cancellation takes out its own task and no other (`ImplementsTimerQueue`); every due task fires or is cancelled (`NoneForgotten`) |
| `udp` | 2 nodes, 2 interfaces, 2 transfers of 1 or 2 frames, a stateful and a stateless subject, unicast, ring of 8 transfer-IDs, 2 writers per subject | what is passed up is one transfer, whole (`PayloadIntact`), in order and once (`InOrderOnce`); what arrived whole and undisturbed is passed up (`HeardIsPassedUp`); at most one message after `DestroySubjectReader` (`LateAtMostOne`) |

The bounds are the smallest at which the cases meet. Two frames per transfer let one be
retained while the other is queued; three transfers let one be sacrificed while another
is in mid-transfer and a third is new; three frames let a transfer be torn in two ways;
`TransferIDModulo = 2` wraps around within three transfers. Of the 406 trees over six
keys 79 removals take the branch for a distant successor, which there is from four members
on, and 50 lose an `up` pointer; rotations of both kinds follow insertions and removals. A
removal that rotates twice in a balanced tree takes twelve members, which no run has.
`topic_converge` broadcasts the first three periodic gossips of a topic, with
`BroadcastRatio = 2`, where the code, with 10 (`cy/types.go:113`), does so for eleven: a node has agreed, gossiped and been heard before it
gets stuck, and another may get stuck or collide with it afterwards, in any order; eight
more gossips that repeat the third add states but no case. `topic_index` has neither pins
nor a clock that moves: for those its two properties rest on the proofs (section 5), and so
does a reader that is made again in `udp`, which makes one reader per subject. Six messages are needed for a gap
wider than a buffer of four, so that the window starts anew; with a window of four tags
the oldest are shifted out. In `reliable_rx` each subscription that begins or ends and
each restart counts for two messages (`MaxInputs`), so a lone subscriber sees six messages
and a pair sees four. In `publisher` the interval doubles twice before it overtakes the
deadline, and a remote can join, or leave, between registration, sending and arming. In
`rpc` number 2 pushes number 0 out of a history of two, and a second remote makes the
record change its representation. In `olga` a third task is scheduled between the sample
of `Run` and its wait, and equal deadlines occur. The seeds 2 and 7 of `udp` start one
writer before the wrap of the ring and leave the other in its middle.

Conditions of the environment, each stated in its module:

* `CanardRx`: a frame is repeated only while no other frame of its remote has been on the
  bus and the transfer-ID timeout has not elapsed, as CAN does.
* `reliable_rx`: a copy of a message is not received after its deadline, deadlines and the
  reordering window are within the lifetime of the soft state, and the messages of the
  publisher that are on the network at a time span less than the dedup window remembers
  (512 in the code), if they are reliable, and no more than
  `sessionCounterMaxBackwardLag`, beyond which `push` takes an old message for one of a
  publisher that has started anew. Beyond these a late copy is delivered again.
* `olga`: deadlines are later than the epoch, as all callers' are, so that the key (0, 0)
  of a cancelled task is no other task's (`OlgaAssumption`).
* `udp`: nodes have different local ports, since `isSelf` compares nothing else, and UIDs
  that differ above the bits of a transfer-ID, as random ones of 64 bits do but for one
  pair in 2^16 (`UdpAssumption`): else fingerprints coincide, or equal the 0 that an unused
  place of the history holds, and a stateless port drops a transfer as a repetition. No
  transfer-ID comes twice in a stream (a guard of `SendTransfer`): the ring has 2^48. Order
  and delivery are claimed for steady streams.
* `Segmentation`: extents of at least 1; equal CRCs mean equal bytes.

## 4. Fairness

* `tx_queue`: `Poll` is called again and again ("must be called periodically"), a running
  `Poll` ends, and the clock advances. The driver owes nothing.
* `rx_reclaim`: `Poll` and the clock. The remotes owe nothing; they stop at `LastSend`.
* `topic_converge`: a node keeps spinning, hence runs its due urgent gossips, retries a
  pending scout and processes the message that has waited longest. The network of this
  run delivers what is sent: the code repeats nothing that is lost (periodic gossip starts
  only after two nodes agree), so convergence under loss is not claimed. Periodic
  gossip is due only when urgent gossip and messages in flight of running nodes are over
  (`Quiet`): its period is seconds, theirs milliseconds. A node that is stuck in its first
  gossip on a shard subject owes nothing: none of its actions is enabled but a restart, and the
  three properties are about the nodes that are running for good. What they show is that
  agreement survives the loss of any node in this way, since a node only gets stuck after
  gossip that the others have received; they do not show that all nodes agree. Periodic
  gossip itself is not fair, so a node need not get stuck, and every set of nodes may be the
  running ones. No fairness is assumed of the application.
* `publisher`: the application's and the scheduler's goroutines go on from one critical
  section to the next, the receive loop finishes an acknowledgement it has begun, and time
  passes. No remote owes an acknowledgement and no send need succeed.
* `rpc`: what is on its way and not lost arrives, pending responses are retransmitted and
  due timers run. The application owes nothing: the requester need not destroy anything,
  nor take a response out.
* `olga`: a goroutine spins again and again (strong fairness, since it may start only
  between other spins), a spin under way goes on, time passes. `Run` alone would not do
  (section 7).

`reliable_rx` and `udp` have no liveness property; the clock of the first waits for a due
window task, that is, the application spins the scheduler at least once per unit of time.

## 5. Proofs

`CanardTxProofs`, for every number of node-IDs from 4 on, of filters and of subscriptions,
every capacity, set of CAN IDs, payload sizes, deadlines and bounds:

* `NodeIdInvariant`, for the allocator by itself. `FreeIDRemains` alone is inductive with
  the types: if more than half of the bits are set and only one is clear, `chance` is
  certain and the bitmap is purged down to two bits; the other conjuncts follow with it.
* `InstanceReachable`, for the whole instance: `NodeIDSound`, and `NoSubscriptionShutOut`
  while it is alive. The inductive invariant `InstanceInv` is the allocator's until
  `Destroy` and the zeroed instance after it; each action of `CanardTx` is one of the
  allocator's or leaves its state alone. `NoSubscriptionShutOut` is about
  `rxFilterConfigure` for any sequence of subscriptions, kinds and ports: the filters
  programmed are no more than the hardware has, and let every frame through that is sent
  to a subscription by any node, anonymous ones included, or is a heartbeat. It rests on
  a lemma per function: what a fusion lets through (`FuseWeaker`), that making room loses
  nothing (`CoalesceKeeps`: the best pair exists, the new filter is part of the fusion or
  takes the place of its second half), that a heartbeat which is covered needs no filter
  (`CoveredPasses`), and that a frame passes the filter of its own subscription
  (`OwnFramesPass`: source, priority and random bits are outside of its mask).
  `ConfigureKeeps` goes through the subscriptions by induction.
* `TxAccounting`: `Accounting` (`TypeOK`, `RefcountExact` and `QueueSizeExact`) always
  holds. The inductive invariant `RefInv` adds `Structure`: every frame of a queued
  transfer from its cursor on is allocated, no other transfer owns it, and the next
  `seqno` is larger than any in use. `RefcountExact` says that a frame's count is one for
  the queue, if it is in a queued chain, plus the application's references; without
  `Structure` nothing says that a retired chain is disjoint from those that stay, and
  `QueueSizeExact` (`queueSize = Cardinality(Live)`) would not survive a retirement.
* `TxNoFrankentransfer`: all frames of a transfer on the bus carry one node-ID. The
  strengthening `WireOwned` says that a transfer with a frame on the bus and frames
  still queued has `firstFrameDeparted` set, and that its frames on the bus carry the
  present node-ID: this is what `txPurgeContinuations` must restore when the ID changes.
  The theorem holds because one thread uses the instance (section 7).
* `TxInOrderPerCanID`: `InOrderPerCanID`. `OrderInv` ties the queue to the wire: a queued
  transfer is younger than every transfer on the wire with its CAN ID or is the one of the
  last frame there, and that frame is the one before its cursor. It needs `Structure`.
* `TxNothingOverdueOffered`: `NothingOverdueOffered`, which is inductive given `RefInv`.

`CanardRxProofs`, for all ports, remotes, priorities, timeouts and bounds:

* `RxAnimationOrdered` (`AnimationOrdered`), `RxAtMostOnce` (`AtMostOnce`) and
  `RxNothingLost` (`NothingLost`), from one inductive invariant, `RxInv`. Its parts:
  `Repeatable` (the frame that CAN may repeat is the last one the transfer has sent);
  `Ordered`, which with the types is `AnimationOrdered`;
  `Finished` (what was delivered had all its frames on the bus) and `Slots` (a slot that
  has frames holds those of a transfer not delivered yet), without which the last frame
  might deliver twice; `Guarded` (while a delivered single frame may be repeated, the
  session that delivered it still has its transfer-ID, priority and a time of admission
  within the timeout), which is the reason why `Poll` may not reclaim a session earlier;
  `Heard` (what a session admitted last was a transfer heard since, on its port or
  strayed), which makes a distinguishable transfer admissible; and `Kept` (the latest
  intact transfer of a CAN ID is in its slot, all its frames so far and no others).
* A bus step does one of three things to a session (`Starts`, `Continues`, `Ignored`);
  the application, `Poll` and the clock only forget (`Forgets`). Each part of `RxInv` is
  proved once for `Forgets` and once for a bus step. The lookups of `cavlFind` stay
  arbitrary: the proofs cover every neighbour the code may end at.

`ReliablePublisherProofs`, for all sets of remotes, numbers of messages and timings:

* `PublisherVerdict` (`VerdictJustified`) and `PublisherErrorFinal` (`FinalErrorKept`), from
  `VerdictInv`. What a goroutine carries between two critical sections has to be counted
  in: `Tally` says that a future that is not done has no more acknowledgements than those
  its message has accepted, the one that `rx` carries included (`OnTheWay`), so that the
  last of them completes it with OK and not before; `Verdicts` says that an error about to be
  delivered (`timer`) is as justified as one that was, and that the message takes no
  acknowledgement any more. `InHand` says that nobody else knows a message being built.
* `PublisherBackoff` (`BackoffDoubles`), from `BackoffInv`: with `Waited`, the interval is
  doubled once per retransmission and the intervals waited add up to less than the next
  one, which holds only because a message has at most one timeout, in the scheduler or in
  hand (`OneTimeout`), and the timeout was armed for the end of the interval (`ArmedLate`).

`RpcProofs`, for all sets of responders, requests and responses, and every history length:

* `RpcDeliveredOnce` (`DeliveredOnce`), `RpcNackJustified` (`NackJustified`) and
  `RpcDisposedSilent` (`DisposedSilent`), from `IInv`. `Records` ties the record of
  acknowledgements to what the application got, in both directions: what it has
  acknowledged was delivered (`Truthful`), and what was delivered it has acknowledged or
  considers too old (`Complete`), as long as it exists, wherever it is: with the future,
  or in `requestAcks` after the hand-off, until it has lapsed. `Travels` says the same of the
  transfers: a positive acknowledgement on its way is one of a delivered response.
  `Refused` keeps the reason of a refusal. `Disposed` says that a future out of the index
  is cancelled or destroyed.

`ReliableReceiverProofs`, for all sets of subscribers, tag widths, baselines, capacities of
the dedup window and the reordering buffer, lags, windows, deadlines and lifetimes:

* `ReceiverAcks` (`AckedWasAccepted`), `ReceiverOnceInOrder` (`DeliveredOnceInOrder`),
  `ReceiverKeeps` (`InternedKept`) and `ReceiverTimely` (`HeadOfLineTimely`), from one
  inductive invariant, `RxInv`. Tags wrap around, so the proofs speak of ranks, the places of
  tags in the order of publication, and begin with what `Plus` and `Minus` do to those
  (`TagDistance`, `Linearized`). A buffer has an `Origin`, the rank linearized to zero, and
  an `Edge`, the rank up to which it takes nothing any more; both move when the window slides
  or starts anew.
* `Remembered`: the bits of the dedup window are set for accepted messages only, and the
  window reaches back to every reliable message on the network, which is what makes a repeated
  message a known one for as long as it can come (`DedupMoves`). `Buffers`: what waits lies
  beyond the edge, within the capacity, with a gap before it, and the task is armed for it.
  `OrderedOnce` is the heart: everything a subscriber was notified of precedes everything
  that waits, and a copy of it on the network is at the edge or before it (`Behind`), or can
  only come while the state is still remembered (`Older`); without the second a copy might come
  after the buffer has been dropped as stale and be delivered again by the next one.
  `PlainOnce` says the same of unordered subscribers in terms of the dedup window.
* What a step does to a buffer is said once, for `eject`, `scan`, `SlideTo` and `ejectAll`
  together (`Advances`: the same ranks are held, some of them now handed over) and for `push`
  (`Gains`: the new rank as well); `Served` is what an ordered subscriber sees of a step.
* The assumption `MaxInputs + reorderingCapacity < TagModulus \div 2` bounds the messages of
  one publisher by half of the tags, 2^63 in the code.

`UdpPlatformProofs`, for all sets of nodes, subjects and traffic, any number of interfaces,
sizes of transfers, seeds, and every ring of more than three transfer-IDs:

* `UdpPayloadIntact` (`PayloadIntact`), from `Core`: `Base` (the types; a port is given the
  frames of its channel; the reader of a channel has its newest port), `Sessions` (a slot
  holds fragments of one transfer of its sender, fewer than all) and `Payloads`.
* `UdpLateAtMostOne` (`LateAtMostOne`), with `Lateness`: once a port has passed up a late
  message it has no reader and nothing is in hand for it, and neither comes back
  (`FedStep`).
* `UdpInOrderOnce` (`InOrderOnce`), from `Orderly`, which adds `Ordering` and `Stateless`. In
  a steady stream the transfer-ID of a session is that of the latest transfer passed
  up, and its slot is for a later one; so a frame that is not stale is of a transfer
  beyond all that were passed up (`Behind`, which rests on `AheadIsGreater`: of two places
  on the ring at most one is ahead). `Stateless` says that a transfer passed up is one of
  the two that the history holds, or more than two have been heard.
* `UdpHeardIsPassedUp` (`HeardIsPassedUp`), from `Lossless`, which adds `Awaited`: when a
  transfer that crosses no other has not been passed up, all transfers of its stream
  before it have, none comes after it, the session accepts it, and every fragment that the
  port was given is in the slot. A frame of an earlier transfer is stale and leaves the
  slot alone (`OldFrame`); and while the receive loop holds a frame for a closed port, no
  newer port of the channel has passed anything up (`NewestPassed`), so that a transfer
  sent meanwhile counts as crossing.

`OlgaProofs`, for every set of tasks and goroutines, and all deadlines and bounds:

* `OlgaHandles` (`HandlesExact`), `OlgaNoOversleep` (`NoOversleep`) and
  `OlgaImplementsTimerQueue` (the refinement: `TQ!TQInit` from `Init`, and for each action
  the abstract step it maps to, or a stutter).
* The inductive invariant `IInv` says, next to the types: every node in the tree
  holds a task that exists, is active and has the node's key (`HandlesExact`); the key of a task,
  also the stale one that it keeps while its callback runs, is no other task's
  (`KeysDistinct`); sequence numbers in the tree and in keys have been given out
  (`KeysFresh`); nodes have deadlines that were asked for, hence not 0 (`NodesAsked`); the
  goroutine of `Run` has no callback in hand while it waits (`LoopIdle`); and limits of
  spins are instants (`SpinsBounded`). `KeysDistinct` is the heart of it: `Cancel` and
  `Reschedule` delete by key, and a task's key survives its node. Without it a `Cancel` from
  a callback might remove another client's node, which `ImplementsTimerQueue` excludes,
  and a `Reschedule` might do so while it arms its own, which is no abstract step.
  For the refinement there is one lemma per abstract step (`ArmStep`, `DisarmStep`,
  `FireStep`, `LookStep`, `ReturnStep`), from which `SpinStepMaps` and `RunStepMaps` follow.

`TopicConsensusProofs`, for every set of nodes and finite set of topics, all pins, the
modulus, the limit of evictions, loss, restarts and bounds:

* `AllocationReturns`: the recursion of `topicAllocate`, which has no bound of its own, is
  over after (number of topics) * (`EvictionsMax` + 1) calls, whatever node, topic and
  counter it begins with in a reachable state. The measure is `CallsLeft`: a call goes on
  with the same topic and a greater eviction counter, or with a topic that has just been
  defeated, and the topics that this one may defeat (`Younger`) are fewer, since
  `leftWins` is transitive; the last counters are pinned, and a pinned topic displaces nobody.
* `IndexIsSound` (`IndexSound`) and `ReadersFollow` (`ReaderFollowsSubject`), from the
  inductive invariant `Inv`: every node is `Sound`, and messages are about topics with
  counters within the limit. `Sound` is `Consistent` (`Indexed`: an index entry is an
  unpinned topic on its subject-ID; `Following`: an open reader is on its topic's;
  `Scheduled`: gossips are due for known topics only) and `Allotted`: the subject-ID is
  the one that the eviction counter stands for. During an allocation every topic is
  `Allotted` but the one whose turn it is; the induction over the calls carries that.
  `Indexed` says unpinned because a pinned topic leaves the index alone when it moves
  (`Deindex`), so an entry for one would stay behind. `Allotted` gives `SubjectsAgree`:
  the counter is all that a gossip has to carry for two nodes to meet.
* The handlers' effects are lemmas about operators on one node, each `Sound` to `Sound`.

Each proof has one lemma per operation, and lemmas for what several operations share. The
assumptions are the named ones of the modules (`NodeIDAssumption`, `TxAssumption`,
`RxAssumption`, `NothingAssumption`, `ConsensusAssumption`, `PublisherAssumption`, `RpcAssumption`,
`ReceiverAssumption`, `UdpAssumption`, `OlgaAssumption`), which TLC evaluates in the runs:
types of the constants, the conditions of section 3, and that the values that stand for
nothing are nothing else.

Only model-checked:

* Liveness under fairness (`QueueDrains`, `SessionsReclaimed`, `EventuallyDistinct`,
  `EventualAgreement`, `PatternLearns`, `PublicationEnds`, `BothSettle`, `NoneForgotten`).
* `IndexTreesKept`, `InsertionBalances` (`Cavl`), for up to six members: what `Descend`, the
  rebalancing and the walk compute is recursion over trees, and for more members
  `IterateExact` is not true of the code (section 7).
* `NothingWantedFilteredOut`: that the filters let the wanted frames pass is proved
  (`InstanceReachable`); that `rxParse` reads the fields of an identifier back as they were
  written is a sum over the bits of a field (`Field`), a fold of the library whose operator
  the provers cannot instantiate.
* `CutAndReassembled`: `txSpoolLoop` and `Reassembled` are such folds too.

Induction over numbers and recursive functions are within reach, with a set in place of the
predicate: `SetInduction`, `Iteration` and `Recursion` are derived from `WFMin` in the two
modules that need them.

## 6. Not modelled

In the CAN transport: the second interface and its affinity rules, the CRC's polynomial.
In the topic consensus: retirement of implicit topics, a change of the modulus, and the
CRDT helper, which the node does not consult for its topics. In the session layer: its
mutexes as such (handlers are steps), data races between the scheduler's goroutine and
the message handlers, several publishers of one topic, liveness timeouts of subscribers,
the blocking waits of futures. The CAN platform, a queue between the transport's callback
and the session layer. Header layout, names and patterns, DSDL and standard types, which
have no state. Socket options and address selection. Examples.

## 7. Known defects

Met while the code was being modelled. The models keep the behaviour, unless it is said
that a condition of the environment excludes it; no property claims the opposite.

CAN transport:

* `canadapter.go:254`: `Conn.Run` uses the instance from two goroutines. A collision
  detected by `PumpRX` while `FlushTX` is in `Platform.TX` with a first frame does not
  purge its transfer, which goes on under the new node-ID, contrary to `tx.go:468`. Not
  modelled: `CanardTx` has one thread.
* `cavl.go:368`: from four members on, removing a node whose successor is its right child
  and has a right child of its own may leave the latter's `up` pointer at the removed node
  (a rotation on the way up may set it right). The run `cavl_iterate` shows it: `cavlIterate`
  then visits the removed node, contrary to `cavl.go:388`.
* `cavl.go:194`, `cavl.go:207`, `cavl.go:214`: rebalancing after a removal stops early, so
  that the tree may be left unbalanced, from four members on, contrary to
  `canard_test.go:29`. It stays a sorted set; no property claims balance after a removal.
* `rx.go:383`, `rx.go:341`: `cavlFind` returns a neighbour when the key is absent and the
  callers do not check: a message of an unsubscribed port reaches a neighbouring
  subscription, and frames of one remote the session of another. A stray message that comes
  with the transfer-ID of the next wanted one makes the neighbour's session take that one
  for a repetition, so that it is lost although all its frames arrived; `NothingLost` leaves
  it out (`strayed`).
* `tx.go:120`, `tx.go:142`: frames of CAN FD are not rounded up to a length that a DLC can
  stand for: `FrameSize` rounds only for `MTUClassic`.
* `rx.go:276`: a multi-frame transfer to a subscription with extent 0 panics.

Session layer:

* `cy/cy.go:1086`: `topicAllocate` for a new topic removes the index entry of the topic
  that holds its first subject-ID, contrary to `cy/consensus_internal_test.go:195`; the
  two share the subject until gossip separates them.
* `cy/gossip.go:181`: the first gossip on a shard subject, after eleven broadcast ones
  (`cy/gossip.go:233`), locks `g.mu` twice. The goroutine that spins stays stuck in
  it, and any other that gossips waits for it: a collision with one of its topics, or an
  eviction it has not heard of, is never resolved there. `topic_converge` has this case, and its properties
  are about the nodes that are not stuck.
* `cy/gossip.go:310`: periodic gossip starts when an agreeing gossip is received; if the
  urgent gossips of a collision are lost nothing repeats them.
* `cy/cy.go:416`: the consistency check of a data message leaves out the pinned range.
* `cy/publisher.go:176`: a header composed before a reallocation is sent on the subject
  after it.
* `cy/publisher.go:69`: a restarted publisher numbers from the same baseline again; its
  receivers acknowledge its messages as repetitions and deliver nothing.
* `cy/publisher.go:195` says that an acknowledged message is no longer pending; it stays
  pending and is retransmitted to its deadline.
* `cy/reliable.go:174`: with one association left the retransmission is a unicast, and
  `handleUnicastMessage` (`cy/cy.go:522`) does not know reliable messages.
* `AddAssociation` and `Cleanup` of `cy/reliable.go` are called by no code of the library,
  and `lastActivity` is not refreshed; the model calls them as an application could.
* `sendAck` (`cy/cy.go:512`), `ReliableDelivery.send` and `sendRequestMessage` build lanes
  without a context, so that nothing is sent over UDP.
* `cy/future.go:558`: the task of a request's initial deadline is not cancelled when a
  response comes, which leads to a spurious ErrLiveness; a stale liveness task that was
  already due makes the callback forget the one armed since.
* `CancelRequest` does not hand the acknowledgements off, so that a response that was
  delivered may be refused; `RespondReliable` retransmits without a deadline
  (`cy/rpc.go:582`); `nextRequestTag` starts from 0 after a restart.
* `cy/olga/scheduler.go:181`: cancelling a task again deletes the node with key (0, 0), if
  there is one; excluded by `OlgaAssumption`. `cy/olga/scheduler.go:294`: `Run` stalls if
  the earliest deadline is already due when it is sampled; the model keeps it, and
  `NoneForgotten` rests on the goroutine that spins. `Run` after `Stop` closes the channel
  `stopped` twice. A task stays active after it has fired.

Platforms:

* UDP: the session layer makes a writer for each message (`cy/publisher.go:180`), which
  starts from a random transfer-ID (`cy/udp/platform.go:731`), so that about half of the messages look old and are
  dropped; `HeardIsPassedUp` and `InOrderOnce` are stated for steady streams, which those of
  several writers need not be. Three writers that go once round the ring (seeds 0, 3 and 6
  of 8, a transfer each) make the redundant copy of the first transfer, if it is late,
  ahead of the third, and it is passed up again. `isSelf` compares
  ports only, and takes nothing for its own on an unspecified address. A fragment that is
  not the first spoils the fingerprint of a stateless port. Interleaved multi-frame
  transfers of one sender evict each other. An empty payload sends nothing. Unicast
  transfer-IDs start from 0 after a restart.
* CAN: `SubjectWriterSend` always uses transfer-ID 0, `DestroySubjectReader` does not
  unsubscribe, and a full queue drops.

## 8. Plan

What is left, in this order:

1. `CutAndReassembled` for every size, once the loops of `Segmentation` are recursive
   functions; `IterateExact` and balance for any number of members, once `cavl.go:368` and
   the early stops are repaired.
2. The subscriber's liveness timers and disposal, against `TimerQueue`.
3. A second interface in `CanardTx` and `CanardRx`.
4. `ReliablePublisher` composed with `ReliableReceiver`; several publishers.
5. The session layer's locks; the CAN platform; retirement of implicit topics.
