------------------------------ MODULE CanardTx ------------------------------
(***************************************************************************)
(* The transmission pipeline of one Canard instance (tx.go, canard.go).    *)
(*                                                                         *)
(* A transfer is named by its seqno.  queue maps the enqueued transfers to *)
(* their descriptors: with IfaceCount = 1 a transfer is in the pending     *)
(* tree, in the deadline tree and in the agewise list for exactly as long  *)
(* as it is in queue, and the three differ in their order only:            *)
(* <<canIDMSB, seqno>>, <<deadline, seqno>> and seqno.  Frame i of         *)
(* transfer s is <<s, i>>; refcount is the frameRegistry, its domain the   *)
(* frames that are still allocated.                                        *)
(*                                                                         *)
(* The instance is single-threaded.  Poll is split at its calls of the     *)
(* Platform.TX callback, which is where the application is in control;     *)
(* until it returns (polling) no other operation is called but those on    *)
(* the counts of frames, RefCountInc and RefCountDec.                      *)
(*                                                                         *)
(* wire, held and polledAt record history and no action of the library     *)
(* reads them.                                                             *)
(***************************************************************************)
EXTENDS NodeIdAllocator, Integers, Sequences, FiniteSetsExt

CONSTANTS
    QueueCapacity,  \* tx.queueCapacity
    CanIDs,         \* bits 28..7 of the CAN ID of the transfers, numbers
    PayloadSizes,   \* sizes of the payloads the application publishes
    Deadlines,      \* deadlines it gives them
    AssignedIDs,    \* node-IDs it passes to SetNodeID
    PeerIDs,        \* source node-IDs of the frames heard on the bus
    MaxTransfers,   \* bound: transfers created
    MaxTime,        \* bound: the last value of the clock
    MaxHeld         \* bound: references the application holds to one frame

ASSUME TxAssumption ==
    /\ QueueCapacity \in Nat
    /\ CanIDs \subseteq Nat
    /\ PayloadSizes \subseteq Nat
    /\ Deadlines \subseteq Nat
    /\ AssignedIDs \subseteq NodeIDs
    /\ PeerIDs \subseteq NodeIDs \cup {NoNode}
    /\ MaxTransfers \in Nat
    /\ MaxTime \in Nat
    /\ MaxHeld \in Nat

VARIABLES
    alive,          \* FALSE once Destroy has zeroed the instance
    ifaceUp,        \* self.IfaceBitmap # 0
    FD,             \* tx.FD
    seqno,          \* tx.seqno: the seqno of the next transfer
    queue,          \* the descriptors of the enqueued transfers, by seqno
    queueSize,      \* tx.queueSize
    refcount,       \* frameRegistry: reference count of each allocated frame
    now,            \* Platform.Now
    polling,        \* Poll is in txEjectPending
    polledAt,       \* the time at which the current Poll ran txExpire
    wire,           \* frames accepted by Platform.TX, in order
    held            \* references the application holds to allocated frames

txVars == <<alive, ifaceUp, FD, seqno, queue, queueSize, refcount,
            now, polling, polledAt, wire, held>>
vars == <<NodeID, occupancy, filtersDirty, filterNode,
          alive, ifaceUp, FD, seqno, queue, queueSize, refcount,
          now, polling, polledAt, wire, held>>

Empty == [x \in {} |-> x]

MTUClassic == 8
MTUFD == 64
crcBytes == 2
-----------------------------------------------------------------------------
(***************************************************************************)
(* Frames and transfers.                                                   *)
(***************************************************************************)
txPredictFrameCount(size, mtu) ==
    LET bytesPerFrame == mtu - 1
    IN  IF size <= bytesPerFrame THEN 1
        ELSE (size + crcBytes + bytesPerFrame - 1) \div bytesPerFrame

Queued == DOMAIN queue
Live == DOMAIN refcount

\* The frames of transfer s that have not been handed to the driver: the
\* chain that starts at tr.cursor.
Chain(s) == {<<s, i>> : i \in queue[s].cursor..queue[s].frames}

ChainsOf(S) == UNION {Chain(s) : s \in S}

\* refCountDec on every frame of F: the frames whose count reaches zero leave
\* the registry, the others survive on the application's references.
Freed(F) == {f \in F : refcount[f] = 1}

\* Mutant: a frame the application retains is not counted down.
ReleasedWhenFreed(F) == [f \in Live \ Freed(F) |-> refcount[f]]

Released(F) ==
    [f \in Live \ Freed(F) |-> IF f \in F THEN refcount[f] - 1 ELSE refcount[f]]

HeldAfter(F) == [f \in Live \ Freed(F) |-> held[f]]

\* Mutant: a transfer is overdue one tick late.
ExpiredLate == {s \in Queued : now > queue[s].deadline + 1}

\* Mutant: a transfer that has begun to depart does not expire.
ExpiredUndeparted ==
    {s \in Queued : now > queue[s].deadline /\ ~queue[s].firstFrameDeparted}

\* txExpire retires what is due, in deadline order, until a deadline is not
\* strictly in the past.
Expired == {s \in Queued : now > queue[s].deadline}

\* queueSize once the transfers S are retired.
SizeWithout(S) == queueSize - Cardinality(Freed(ChainsOf(S)))

\* txRetire: the transfer leaves every index and its chain is released.
Retire(S) ==
    /\ queue' = [s \in Queued \ S |-> queue[s]]
    /\ queueSize' = SizeWithout(S)
    /\ refcount' = Released(ChainsOf(S))
    /\ held' = HeldAfter(ChainsOf(S))

\* txEnsureQueueSpace: transfers are retired oldest first until n frames fit
\* or none is left; txExpire has retired Expired before.  The result is
\* everything that is retired when the loop ends.
RetiredForSpace(n) ==
    LET OlderThan(c) == {s \in Queued : s < c} \cup Expired
        enough == {c \in 0..seqno : n <= QueueCapacity - SizeWithout(OlderThan(c))}
    IN  IF n > QueueCapacity THEN Expired
        ELSE IF enough = {} THEN Queued
        ELSE OlderThan(Min(enough))

\* Mutant: two-frame transfers are not purged.
ContinuationsOfThree ==
    {s \in Queued : queue[s].frames > 2 /\ queue[s].firstFrameDeparted}

\* txPurgeContinuations: the multi-frame transfers that have begun to depart.
Continuations ==
    {s \in Queued : queue[s].frames > 1 /\ queue[s].firstFrameDeparted}

\* Mutant: ties are broken in favour of the newer transfer.
IsNextPendingNewest(s) ==
    /\ s \in Queued
    /\ \A r \in Queued :
        \/ queue[s].canIDMSB < queue[r].canIDMSB
        \/ queue[s].canIDMSB = queue[r].canIDMSB /\ s >= r

\* cavlMin of the pending tree under txComparePendingOrder.
IsNextPending(s) ==
    /\ s \in Queued
    /\ \A r \in Queued :
        \/ queue[s].canIDMSB < queue[r].canIDMSB
        \/ queue[s].canIDMSB = queue[r].canIDMSB /\ s <= r

NewTransfer(id, n, deadline) ==
    [canIDMSB |-> id, deadline |-> deadline, frames |-> n,
     cursor |-> 1, firstFrameDeparted |-> FALSE]
-----------------------------------------------------------------------------
Init ==
    /\ NodeInit
    /\ alive = TRUE
    /\ ifaceUp \in BOOLEAN
    /\ FD = TRUE
    /\ seqno = 0
    /\ queue = Empty
    /\ queueSize = 0
    /\ refcount = Empty
    /\ now = 0
    /\ polling = FALSE
    /\ polledAt = 0
    /\ wire = <<>>
    /\ held = Empty

Idle == alive /\ ~polling

\* The end of a successful txPush: n new frames, referenced by the queue.
Accept(id, n, deadline) ==
    LET retired == RetiredForSpace(n)
        frames == {<<seqno, i>> : i \in 1..n}
    IN  /\ n <= QueueCapacity - SizeWithout(retired)
        /\ queue' = [s \in (Queued \ retired) \cup {seqno} |->
                IF s = seqno THEN NewTransfer(id, n, deadline) ELSE queue[s]]
        /\ queueSize' = SizeWithout(retired) + n
        /\ refcount' = [f \in (Live \ Freed(ChainsOf(retired))) \cup frames |->
                IF f \in frames THEN 1 ELSE Released(ChainsOf(retired))[f]]
        /\ held' = [f \in (Live \ Freed(ChainsOf(retired))) \cup frames |->
                IF f \in frames THEN 0 ELSE held[f]]

\* It fails when there is no room although nothing is left to retire, or when
\* the transfer alone exceeds the capacity.
Reject(n) ==
    /\ n > QueueCapacity - SizeWithout(RetiredForSpace(n))
    /\ Retire(RetiredForSpace(n))

\* txTransferNew and txPush.
Enqueue(id, n, deadline) ==
    /\ Idle
    /\ seqno < MaxTransfers
    /\ seqno' = seqno + 1
    /\ \/ ~ifaceUp /\ UNCHANGED <<queue, queueSize, refcount, held>>
       \/ ifaceUp /\ Reject(n)
       \/ ifaceUp /\ Accept(id, n, deadline)
    /\ UNCHANGED <<nodeVars, alive, ifaceUp, FD, now, polling, polledAt, wire>>

\* Publish16b, Publish13b, Request and Respond.
Publish(id, size, deadline) ==
    Enqueue(id, txPredictFrameCount(size, IF FD THEN MTUFD ELSE MTUClassic), deadline)

\* V0Publish, V0Request and V0Respond: Classic CAN only, and not from node 0.
V0Publish(id, size, deadline) ==
    /\ NodeID # 0
    /\ Enqueue(id, txPredictFrameCount(size, MTUClassic), deadline)

SetClassicCAN(enabled) ==
    /\ Idle
    /\ FD' = ~enabled
    /\ UNCHANGED <<nodeVars, alive, ifaceUp, seqno, queue, queueSize, refcount,
                   now, polling, polledAt, wire, held>>
-----------------------------------------------------------------------------
SetNodeID(id) ==
    /\ Idle
    /\ ChangeNodeID(id)
    /\ IF id # NodeID THEN Retire(Continuations)
                      ELSE UNCHANGED <<queue, queueSize, refcount, held>>
    /\ UNCHANGED <<alive, ifaceUp, FD, seqno, now, polling, polledAt, wire>>

\* The part of ingestFrame a start-of-transfer frame from src has on the
\* sending side: a collision moves this node to another node-ID.
IngestStartFrame(src) ==
    /\ Idle
    /\ OccupancyUpdate(src)
    /\ IF src = NodeID THEN Retire(Continuations)
                       ELSE UNCHANGED <<queue, queueSize, refcount, held>>
    /\ UNCHANGED <<alive, ifaceUp, FD, seqno, now, polling, polledAt, wire>>

\* Poll up to and including txExpire; it goes on to txEjectPending when the
\* caller says that the interface is writable.
Poll(txReady) ==
    /\ Idle
    /\ ConfigureFilters
    /\ Retire(Expired)
    /\ polling' = txReady
    /\ polledAt' = IF txReady THEN now ELSE polledAt
    /\ UNCHANGED <<alive, ifaceUp, FD, seqno, now, wire>>

\* One round of txEjectPending in which Platform.TX takes the frame.  The
\* callback may retain the frame (RefCountInc) before the queue releases it.
Eject(s, retain) ==
    LET c == queue[s].cursor
        frame == <<s, c>>
        freed == refcount[frame] + retain = 1
        left == IF freed THEN Live \ {frame} ELSE Live
    IN  /\ polling
        /\ IsNextPending(s)
        /\ held[frame] + retain <= MaxHeld
        /\ wire' = Append(wire, [canIDMSB |-> queue[s].canIDMSB, src |-> NodeID,
                                 seqno |-> s, index |-> c])
        /\ queue' = IF c = queue[s].frames
                    THEN [r \in Queued \ {s} |-> queue[r]]
                    ELSE [queue EXCEPT ![s] = [@ EXCEPT !.cursor = c + 1,
                                                        !.firstFrameDeparted = TRUE]]
        /\ queueSize' = IF freed THEN queueSize - 1 ELSE queueSize
        /\ refcount' = [f \in left |->
                IF f = frame THEN refcount[f] + retain - 1 ELSE refcount[f]]
        /\ held' = [f \in left |-> IF f = frame THEN held[f] + retain ELSE held[f]]
        /\ UNCHANGED <<nodeVars, alive, ifaceUp, FD, seqno, now, polling, polledAt>>

\* The application retains frame f n times.
Retain(f, n) ==
    /\ held' = [held EXCEPT ![f] = @ + n]
    /\ refcount' = [refcount EXCEPT ![f] = @ + n]

\* Platform.TX has no free mailbox: txEjectPending ends and the frame stays
\* pending, retained by the callback or not.
EjectRefused(s, retain) ==
    LET frame == <<s, queue[s].cursor>>
    IN  /\ polling
        /\ IsNextPending(s)
        /\ held[frame] + retain <= MaxHeld
        /\ Retain(frame, retain)
        /\ polling' = FALSE
        /\ polledAt' = 0
        /\ UNCHANGED <<nodeVars, alive, ifaceUp, FD, seqno, queue, queueSize, now, wire>>

\* txEjectPending ends: nothing is pending.
EjectDone ==
    /\ polling
    /\ Queued = {}
    /\ polling' = FALSE
    /\ polledAt' = 0
    /\ UNCHANGED <<nodeVars, alive, ifaceUp, FD, seqno, queue, queueSize,
                   refcount, now, wire, held>>
-----------------------------------------------------------------------------
\* The application may count a frame it holds up again, also while the driver
\* is being offered another one, ...
RefCountInc(f) ==
    /\ f \in Live /\ held[f] \in 1..(MaxHeld - 1)
    /\ Retain(f, 1)
    /\ UNCHANGED <<nodeVars, alive, ifaceUp, FD, seqno, queue, queueSize, now,
                   polling, polledAt, wire>>

\* ... and releases it at any later time, even after Destroy.
RefCountDec(f) ==
    LET left == IF refcount[f] = 1 THEN Live \ {f} ELSE Live
    IN  /\ f \in Live /\ held[f] > 0
        /\ queueSize' = IF refcount[f] = 1 THEN queueSize - 1 ELSE queueSize
        /\ refcount' = [g \in left |-> IF g = f THEN refcount[g] - 1 ELSE refcount[g]]
        /\ held' = [g \in left |-> IF g = f THEN held[g] - 1 ELSE held[g]]
        /\ UNCHANGED <<nodeVars, alive, ifaceUp, FD, seqno, queue, now, polling,
                       polledAt, wire>>

\* Destroy retires every transfer and zeroes the instance.
Destroy ==
    /\ Idle
    /\ alive' = FALSE
    /\ queue' = Empty
    /\ refcount' = Released(ChainsOf(Queued))
    /\ held' = HeldAfter(ChainsOf(Queued))
    /\ queueSize' = 0 /\ seqno' = 0 /\ FD' = FALSE /\ ifaceUp' = FALSE
    /\ NodeID' = 0 /\ occupancy' = {} /\ filtersDirty' = FALSE
    /\ UNCHANGED <<filterNode, now, polling, polledAt, wire>>

Tick ==
    /\ now < MaxTime
    /\ now' = now + 1
    /\ UNCHANGED <<nodeVars, alive, ifaceUp, FD, seqno, queue, queueSize,
                   refcount, polling, polledAt, wire, held>>
-----------------------------------------------------------------------------
Application ==
    \/ \E id \in CanIDs, size \in PayloadSizes, d \in Deadlines :
            Publish(id, size, d) \/ V0Publish(id, size, d)
    \/ \E b \in BOOLEAN : SetClassicCAN(b)
    \/ \E id \in AssignedIDs : SetNodeID(id)
    \/ \E f \in Live : RefCountInc(f) \/ RefCountDec(f)
    \/ Destroy

EjectStep ==
    \/ \E s \in Queued, retain \in 0..1 : Eject(s, retain) \/ EjectRefused(s, retain)
    \/ EjectDone

Next ==
    \/ Application
    \/ \E src \in PeerIDs : IngestStartFrame(src)
    \/ \E txReady \in BOOLEAN : Poll(txReady)
    \/ EjectStep
    \/ Tick

Spec == Init /\ [][Next]_vars

\* Poll "must be called periodically" (canard.go); a TX callback returns; the
\* clock advances.  Nothing is assumed of the application's own calls, nor
\* that the driver ever accepts a frame.
FairSpec ==
    /\ Spec
    /\ WF_vars(EjectStep \/ \E txReady \in BOOLEAN : Poll(txReady))
    /\ WF_vars(Tick)
-----------------------------------------------------------------------------
Frames == Nat \X (Nat \ {0})

Descriptor == [canIDMSB : Nat, deadline : Nat, frames : Nat \ {0},
               cursor : Nat \ {0}, firstFrameDeparted : BOOLEAN]

WireFrame == [canIDMSB : Nat, src : NodeIDs, seqno : Nat, index : Nat \ {0}]

TypeOK ==
    /\ NodeTypeOK
    /\ alive \in BOOLEAN /\ ifaceUp \in BOOLEAN /\ FD \in BOOLEAN
    /\ polling \in BOOLEAN
    /\ seqno \in Nat /\ now \in Nat /\ polledAt \in Nat /\ queueSize \in Int
    /\ Queued \subseteq Nat /\ queue \in [Queued -> Descriptor]
    /\ Live \subseteq Frames
    /\ refcount \in [Live -> Nat \ {0}]
    /\ held \in [Live -> Nat]
    /\ wire \in Seq(WireFrame)

\* The references to a frame are the one of its queue entry and those of the
\* application, and no others: a frame neither leaks nor is freed while the
\* queue or the application still uses it (refCountDec, txFreePayload,
\* txEjectPending, RefCountInc).
RefcountExact ==
    /\ ChainsOf(Queued) \subseteq Live
    /\ \A f \in Live :
        refcount[f] = held[f] + (IF f \in ChainsOf(Queued) THEN 1 ELSE 0)

\* queueSize is the number of allocated frames, retained ones included, and
\* never exceeds the capacity: no sequence of pushes, sacrifices, expirations,
\* purges, ejections and releases makes the counter drift.
QueueSizeExact ==
    alive => /\ queueSize = Cardinality(Live)
             /\ queueSize <= QueueCapacity

\* The accounting of the TX queue.
Accounting == TypeOK /\ RefcountExact /\ QueueSizeExact

\* "so that a node-ID change on collision detection does not produce
\* frankentransfers" (txPurgeContinuations): all the frames of one transfer
\* leave under the same source node-ID.
NoFrankentransfer ==
    \A j, k \in DOMAIN wire :
        wire[j].seqno = wire[k].seqno => wire[j].src = wire[k].src

\* While Poll hands frames to the driver none of the transfers left in the
\* queue was overdue when that Poll began (txExpire runs first, and no
\* transfer enters the queue in between).
NothingOverdueOffered ==
    polling => \A s \in Queued : polledAt <= queue[s].deadline

\* What a receiver's reassembler relies on.  Among the frames of one CAN ID, one
\* that does not start a transfer comes right after the previous frame of its
\* transfer, and one that does comes after earlier transfers only: preemption by
\* other CAN IDs, sacrifice, expiration and purging in mid-transfer never splice,
\* reorder or repeat transfers.
InOrderPerCanID ==
    \A k \in DOMAIN wire :
        LET earlier == {j \in 1..(k - 1) : wire[j].canIDMSB = wire[k].canIDMSB}
        IN  IF wire[k].index = 1
            THEN \A j \in earlier : wire[j].seqno < wire[k].seqno
            ELSE \E j \in earlier : /\ \A i \in earlier : i <= j
                                   /\ wire[j].seqno = wire[k].seqno
                                   /\ wire[j].index = wire[k].index - 1

\* Every enqueued transfer leaves the queue, sent or not: even if the driver
\* refuses every frame, expiration frees the queue.
QueueDrains ==
    \A s \in 0..(MaxTransfers - 1) : (s \in Queued) ~> (s \notin Queued)
=============================================================================
