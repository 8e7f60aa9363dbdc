---------------------------- MODULE UdpPlatform ----------------------------
(***************************************************************************)
(* The UDP transport of cy/udp/platform.go: transfers are cut into frames, *)
(* sent once per redundant interface, received by one loop, reassembled    *)
(* and passed up at most once.                                             *)
(*                                                                         *)
(* Several nodes send; Self is the one whose receiving side is modelled,   *)
(* and hears its own multicasts too.  A channel is a subject, or the       *)
(* unicast port.  Lengths are counted in MTUs, so a transfer of length n   *)
(* has n frames; frame i of transfer k is <<k, i>>, and the fields of its  *)
(* header are those of sent[k].                                            *)
(*                                                                         *)
(* The network reorders, and a frame that is lost, or damaged so that      *)
(* deserializeHeader refuses it, is one that is never read.  A datagram is *)
(* read from its socket (hand) before the port's mutex is taken, and the   *)
(* reader may be destroyed in between.                                     *)
(***************************************************************************)
EXTENDS Integers, Sequences, FiniteSets

CONSTANTS
    Nodes,          \* the platforms, each named by its UID
    Self,
    LocalPort,      \* the local UDP port of every node
    Unicasts,       \* the channel of the unicast port
    Traffic,        \* <<node, subject>>: which nodes publish on which subjects
    Subjects,       \* the subject-IDs in use
    SubjectIDModulus,
    UIDBits,        \* the width of a UID, 64 in the code
    Interfaces,     \* the number of redundant interfaces
    Extent,         \* extent of the readers
    TIDs,           \* the size of the transfer-ID ring, 2^48 in the code
    Seeds,          \* what Random may return for a new writer
    Sizes,          \* the lengths of transfers
    MaxTransfers,   \* bound: transfers sent
    MaxWriters,     \* bound: writers made for one subject
    MaxReaders,     \* bound: readers made
    None

\* A fingerprint, the exclusive or of a transfer-ID and a UID, as the set of the
\* bits that are set.
Bits(n) == {i \in 0..(UIDBits - 1) : (n \div 2^i) % 2 = 1}
Fingerprint(tid, uid) == (Bits(tid) \ Bits(uid)) \cup (Bits(uid) \ Bits(tid))

\* What the receive loop may have in hand: a frame, and the port it is for.
Read == [frame : Nat \X Nat, port : Nat]

\* isSelf compares ports alone, so nodes that happen to have the same local port
\* do not hear each other; UIDs differ above the bits of a transfer-ID, else the
\* fingerprints of the stateless ports may coincide.
ASSUME UdpAssumption ==
    /\ Self \in Nodes /\ Unicasts \notin Subjects /\ Traffic \subseteq Nodes \X Subjects
    /\ \A n \in Nodes \ {Self} : LocalPort[n] # LocalPort[Self]
    /\ TIDs \in Nat /\ TIDs > 3
    /\ \A m, n \in Nodes : \A a, b \in 0..(TIDs - 1) :
        Fingerprint(a, m) = Fingerprint(b, n) => a = b /\ m = n
    /\ \A n \in Nodes : \A a \in 0..(TIDs - 1) : Fingerprint(a, n) # {}
    /\ Seeds \subseteq 0..(TIDs - 1) /\ Sizes \subseteq Nat
    /\ Interfaces \in Nat \ {0} /\ Extent \in Nat \ {0}
    /\ MaxTransfers \in Nat /\ MaxWriters \in Nat /\ MaxReaders \in Nat
    /\ None \notin Nat /\ None \notin Read

VARIABLES
    closed,         \* the platform of Self was destroyed
    writers,        \* nextTransferID of the writers that exist
    made,           \* how many writers each node has made for a subject
    unicastTID,
    sent,           \* history: all transfers
    net,            \* how many copies of each frame are on the network
    readers,        \* the port of every channel that is being received
    ports,          \* all rxPorts ever made; the first is the unicast port
    hand,           \* the frame the receive loop has read, and the port it is for
    log,            \* history: what was passed up, in order
    heard,          \* history: per port, the frames it was given
    crossed         \* history: transfers that overlapped with another

txVars == <<closed, writers, made, unicastTID>>
rxVars == <<readers, ports, hand, log, heard>>
vars == <<txVars, sent, net, rxVars, crossed>>

Channels == Subjects \cup {Unicasts}
Put(f, x, v) == [y \in DOMAIN f \cup {x} |-> IF y = x THEN v ELSE f[y]]
Drop(f, S) == [y \in DOMAIN f \ S |-> f[y]]
-----------------------------------------------------------------------------
\* Mutant: any other transfer is taken for a later one.
TidGreaterAny(a, b) == a # b

\* Mutant: the numbers are compared without their ring.
TidGreaterFlat(a, b) == a > b

\* tidGreater
TidGreater(a, b) ==
    LET diff == (a - b) % TIDs IN diff # 0 /\ diff < TIDs \div 2

\* A port, with the channel of its sockets.
NewPort(chan, stateful) ==
    [chan |-> chan, stateful |-> stateful, history |-> <<{}, {}>>,
     sessions |-> [u \in {} |-> None]]

NoSlot == [tid |-> None, total |-> 0, frags |-> [o \in {} |-> None]]

\* isSelf: Destroy forgets the sockets that the source is compared with, so a
\* frame of its own that the receive loop has in hand then passes for another's.
IsSelf(n) == ~closed /\ LocalPort[n] = LocalPort[Self]
-----------------------------------------------------------------------------
(***************************************************************************)
(* Sending.                                                                *)
(***************************************************************************)
Open(n) == n = Self => ~closed

PassedUp(p, k) == \E i \in 1..Len(log) : log[i].port = p /\ log[i].tr = k

\* What a node has sent on a channel.
Stream(n, chan) == {j \in 1..Len(sent) : sent[j].from = n /\ sent[j].chan = chan}

\* Transfers of one stream that are under way at the same time.
Overlapping(n, chan) ==
    LET k == Len(sent) + 1
        before == {j \in Stream(n, chan) :
                    chan \in DOMAIN readers => ~PassedUp(readers[chan], j)}
    IN  IF before = {} THEN {} ELSE before \cup {k}

\* sendTransfer: every frame on every interface; nothing at all for an empty one.
\* No transfer-ID comes twice in a stream.
SendTransfer(n, chan, tid, size, copies) ==
    LET k == Len(sent) + 1
        frames == {k} \X (0..(size - 1))
    IN  /\ k <= MaxTransfers
        /\ \A j \in Stream(n, chan) : sent[j].tid # tid % TIDs
        /\ sent' = Append(sent, [from |-> n, chan |-> chan, tid |-> tid % TIDs, size |-> size,
                        port |-> IF chan \in DOMAIN readers THEN readers[chan] ELSE None])
        /\ net' = [f \in DOMAIN net \cup frames |-> IF f \in frames THEN copies ELSE net[f]]
        /\ crossed' = crossed \cup Overlapping(n, chan)

DestroySubjectWriter(n, chan) ==
    /\ <<n, chan>> \in DOMAIN writers
    /\ writers' = Drop(writers, {<<n, chan>>})
    /\ UNCHANGED <<closed, made, unicastTID, sent, net, rxVars, crossed>>

\* NewSubjectWriter: an existing writer is shared; the transfer-ID of a new one
\* is random, and drawn here when the writer is first used.
NewSubjectWriter(n, chan, seed) ==
    /\ seed \in Seeds
    /\ <<n, chan>> \notin DOMAIN writers /\ made[<<n, chan>>] < MaxWriters
    /\ made' = [made EXCEPT ![<<n, chan>>] = @ + 1]

SubjectWriterSend(n, chan, size, tid) ==
    /\ Open(n)
    /\ \/ NewSubjectWriter(n, chan, tid)
       \/ <<n, chan>> \in DOMAIN writers /\ writers[<<n, chan>>] = tid /\ UNCHANGED made
    /\ SendTransfer(n, chan, tid, size, Interfaces)
    /\ writers' = Put(writers, <<n, chan>>, (tid + 1) % TIDs)
    /\ UNCHANGED <<closed, unicastTID, rxVars>>

\* Unicast to Self over the interface whose endpoint is in the lane's context:
\* deliver puts in one, and a lane made without a context has none, so that only
\* the transfer-ID is spent.
Unicast(n, size, endpoints) ==
    /\ Open(n)
    /\ SendTransfer(n, Unicasts, unicastTID[n], size, endpoints)
    /\ unicastTID' = [unicastTID EXCEPT ![n] = @ + 1]
    /\ UNCHANGED <<closed, writers, made, rxVars>>

-----------------------------------------------------------------------------
(***************************************************************************)
(* Receiving.                                                              *)
(***************************************************************************)
\* NewSubjectReader: an existing reader is shared; a new one has a new port.
NewSubjectReader(chan) ==
    /\ ~closed /\ chan \notin DOMAIN readers
    /\ Len(ports) <= MaxReaders
    /\ ports' = Append(ports, NewPort(chan, chan <= SubjectIDModulus))
    /\ readers' = Put(readers, chan, Len(ports) + 1)
    /\ heard' = Append(heard, {})
    /\ UNCHANGED <<txVars, sent, net, hand, log, crossed>>

\* DestroySubjectReader closes the sockets; the receive loop may hold a frame.
DestroySubjectReader(chan) ==
    /\ chan \in DOMAIN readers \ {Unicasts}
    /\ readers' = Drop(readers, {chan})
    /\ UNCHANGED <<txVars, sent, net, ports, hand, log, heard, crossed>>

Destroy ==
    /\ ~closed
    /\ closed' = TRUE
    /\ writers' = Drop(writers, {Self} \X Subjects)
    /\ readers' = Drop(readers, Channels)
    /\ UNCHANGED <<made, unicastTID, sent, net, ports, hand, log, heard, crossed>>

\* Mutant: the sockets of a reader that is destroyed stay open.
RxReadClosed(f) ==
    /\ net[f] > 0 /\ hand = None
    /\ sent[f[1]].chan \in DOMAIN readers \/ sent[f[1]].port # None
    /\ hand' = [frame |-> f, port |-> IF sent[f[1]].chan \in DOMAIN readers
                    THEN readers[sent[f[1]].chan] ELSE sent[f[1]].port]
    /\ net' = [net EXCEPT ![f] = @ - 1]
    /\ UNCHANGED <<txVars, sent, readers, ports, log, heard, crossed>>

\* rxLoop reads from a socket that is open.
RxRead(f) ==
    /\ net[f] > 0 /\ hand = None
    /\ sent[f[1]].chan \in DOMAIN readers
    /\ hand' = [frame |-> f, port |-> readers[sent[f[1]].chan]]
    /\ net' = [net EXCEPT ![f] = @ - 1]
    /\ UNCHANGED <<txVars, sent, readers, ports, log, heard, crossed>>

\* acceptStateless: the port afterwards, and whether the frame is passed up.
AcceptStateless(port, k, offset) ==
    LET fp == Fingerprint(sent[k].tid, sent[k].from)
        required == IF sent[k].size < Extent THEN sent[k].size ELSE Extent
    IN  IF fp \in {port.history[1], port.history[2]}
        THEN [port |-> port, out |-> NoSlot.frags]
        ELSE [port |-> [port EXCEPT !.history = <<fp, port.history[1]>>],
              out |-> IF offset = 0 /\ required <= 1 THEN [o \in {0} |-> k] ELSE NoSlot.frags]

\* The session of the sender: the first transfer heard is acceptable.
Session(port, k) ==
    IF sent[k].from \in DOMAIN port.sessions THEN port.sessions[sent[k].from]
    ELSE [lastTID |-> (sent[k].tid - 1) % TIDs, slot |-> NoSlot]

\* The slot for a frame of a transfer that is not the one under way.
NewSlot(k) == [tid |-> sent[k].tid, total |-> sent[k].size, frags |-> NoSlot.frags]

\* Mutant: a slot is used for whatever comes until it is complete.
SlotForAny(s, k) == IF s.slot.tid # None THEN s.slot ELSE NewSlot(k)

SlotFor(s, k) == IF s.slot.tid = sent[k].tid THEN s.slot ELSE NewSlot(k)

Whole(slot, frags) == Cardinality(DOMAIN frags) >= slot.total

Finished(s, k) == [s EXCEPT !.slot = NoSlot, !.lastTID = sent[k].tid]

\* acceptStateful: the port afterwards, and the reassembled transfer, if any.
AcceptStateful(port, k, offset) ==
    LET s == Session(port, k)
        stale == s.slot.tid # sent[k].tid /\ ~TidGreater(sent[k].tid, s.lastTID)
        slot == SlotFor(s, k)
        frags == IF offset \in DOMAIN slot.frags THEN slot.frags ELSE Put(slot.frags, offset, k)
        whole == Whole(slot, frags)
        session == IF stale THEN s
                   ELSE IF whole THEN Finished(s, k)
                   ELSE [s EXCEPT !.slot = [slot EXCEPT !.frags = frags]]
    IN  [port |-> [port EXCEPT !.sessions = Put(port.sessions, sent[k].from, session)],
         out |-> IF ~stale /\ whole THEN frags ELSE NoSlot.frags]

\* handleDatagram for a frame of another node, with accept and deliver.
HandleDatagram ==
    LET k == hand.frame[1]
        p == hand.port
        r == IF ports[p].stateful THEN AcceptStateful(ports[p], k, hand.frame[2])
             ELSE AcceptStateless(ports[p], k, hand.frame[2])
    IN  /\ hand # None
        /\ ~IsSelf(sent[k].from)
        /\ hand' = None
        /\ ports' = [ports EXCEPT ![p] = r.port]
        /\ heard' = [heard EXCEPT ![p] = @ \cup {hand.frame}]
        /\ log' = IF DOMAIN r.out = {} THEN log
                  ELSE Append(log, [port |-> p, tr |-> k, payload |-> r.out,
                                    late |-> \A c \in DOMAIN readers : readers[c] # p])
        /\ UNCHANGED <<txVars, sent, net, readers, crossed>>

IgnoreOwn ==
    /\ hand # None
    /\ IsSelf(sent[hand.frame[1]].from)
    /\ hand' = None
    /\ UNCHANGED <<txVars, sent, net, readers, ports, log, heard, crossed>>
-----------------------------------------------------------------------------
Init ==
    /\ closed = FALSE
    /\ writers = [w \in {} |-> 0]
    /\ made = [w \in Traffic |-> 0]
    /\ unicastTID = [n \in Nodes |-> 0]
    /\ sent = <<>> /\ net = [f \in {} |-> 0]
    /\ ports = <<NewPort(Unicasts, TRUE)>> /\ readers = [c \in {Unicasts} |-> 1]
    /\ hand = None /\ log = <<>> /\ heard = <<{}>>
    /\ crossed = {}

RxLoop == (\E f \in DOMAIN net : RxRead(f)) \/ HandleDatagram \/ IgnoreOwn

Next ==
    \/ \E w \in Traffic :
        \/ DestroySubjectWriter(w[1], w[2])
        \/ \E size \in Sizes, tid \in Seeds \cup {writers[v] : v \in DOMAIN writers} :
            SubjectWriterSend(w[1], w[2], size, tid)
    \/ \E n \in Nodes \ {Self}, size \in Sizes, endpoints \in {0, 1} :
        Unicast(n, size, endpoints)
    \/ Destroy
    \/ \E chan \in Subjects : NewSubjectReader(chan) \/ DestroySubjectReader(chan)
    \/ RxLoop

Spec == Init /\ [][Next]_vars
-----------------------------------------------------------------------------
TypeOK ==
    /\ DOMAIN net \subseteq (1..Len(sent)) \X Nat
    /\ \A f \in DOMAIN net : net[f] \in 0..Interfaces
    /\ DOMAIN writers \subseteq Nodes \X Subjects
    /\ DOMAIN readers \subseteq Channels /\ \A c \in DOMAIN readers : readers[c] \in 1..Len(ports)
    /\ Len(heard) = Len(ports)
    /\ \A p \in 1..Len(ports) : \A u \in DOMAIN ports[p].sessions :
        /\ ports[p].sessions[u].lastTID \in 0..(TIDs - 1)
        /\ \/ ports[p].sessions[u].slot = NoSlot
           \/ Cardinality(DOMAIN ports[p].sessions[u].slot.frags)
                < ports[p].sessions[u].slot.total

\* What is passed up is one transfer, whole: never a mix of the fragments of
\* two, also when their frames interleave, are repeated and come out of order,
\* and when a writer is destroyed and made again.  A stateless port passes the
\* first frame of a transfer, which covers its extent.
PayloadIntact ==
    TypeOK /\ \A i \in 1..Len(log) :
        LET e == log[i]
        IN  e.payload = IF ports[e.port].stateful
                        THEN [o \in 0..(sent[e.tr].size - 1) |-> e.tr]
                        ELSE [o \in {0} |-> e.tr]

\* In a steady stream every transfer-ID is ahead of those before it: as long as
\* one writer sends fewer transfers than half of the ring has numbers, or the
\* random numbers of several writers happen to lie in order.
Ahead(a, b) == (a - b) % TIDs \in 1..(TIDs \div 2 - 1)

Steady(n, chan) ==
    \A j, k \in Stream(n, chan) : j < k => Ahead(sent[k].tid, sent[j].tid)

\* A port passes the transfers of a steady stream up at most once and in order,
\* whatever the redundant interfaces repeat, across the wrap-around of the ring.
\* (A stateless port remembers two transfers: it may pass one again after two
\* others.)
InOrderOnce ==
    \A j \in 1..Len(log) : \A i \in 1..(j - 1) :
        LET k == log[i].tr
            m == log[j].tr
            p == log[j].port
        IN  log[i].port = p =>
                IF ports[p].stateful
                THEN sent[k].from = sent[m].from /\ Steady(sent[m].from, ports[p].chan) => k < m
                ELSE k = m => Cardinality({f[1] : f \in heard[p]}) > 2

\* Frames of transfer k that its port has been given, all of them.
HeardWhole(k) ==
    /\ sent[k].port # None /\ sent[k].size > 0
    /\ \A o \in 0..(sent[k].size - 1) : <<k, o>> \in heard[sent[k].port]

\* A transfer of a steady stream that overlaps with no other is passed up once
\* all its frames have arrived, in any order.  (A stateless port wants one frame.)
HeardIsPassedUp ==
    \A k \in 1..Len(sent) :
        /\ HeardWhole(k) /\ k \notin crossed
        /\ IF ports[sent[k].port].stateful THEN Steady(sent[k].from, sent[k].chan)
           ELSE sent[k].size = 1
        => PassedUp(sent[k].port, k)

\* After DestroySubjectReader at most one more message is passed up: the one
\* that the receive loop had in hand.
LateAtMostOne ==
    \A i, j \in 1..Len(log) :
        log[i].port = log[j].port /\ log[i].late /\ log[j].late => i = j
=============================================================================
