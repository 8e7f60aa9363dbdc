-------------------------- MODULE AcceptanceFilters --------------------------
(***************************************************************************)
(* The CAN ID layouts of the seven transfer kinds as the TX side composes  *)
(* them (canard.go, Publish16b ... V0Respond) and as rxParse reads them,   *)
(* and the hardware acceptance filters that rx.go derives from the         *)
(* subscriptions.  All of it is pure: no variable, every operator follows  *)
(* one function of the code.                                               *)
(*                                                                         *)
(* A CAN ID, like a filter's code and mask, is the set of the positions of *)
(* its one bits: & is \cap, | is \cup and &^ is \.                         *)
(***************************************************************************)
EXTENDS Integers, Sequences, FiniteSets, FiniteSetsExt, SequencesExt, Functions

Message16b == 0
Message13b == 1
Response == 2
Request == 3
V0Message == 4
V0Response == 5
V0Request == 6
Kinds == Message16b..V0Request

NodeIDAnonymous == 255

\* The bits of the number v shifted left by lo, and the number in a field.
Shl(v, lo) == {lo + b : b \in {b \in 0..15 : (v \div 2^b) % 2 = 1}}
Field(id, lo, width) ==
    MapThenSumSet(LAMBDA b : 2^(b - lo), id \cap lo..(lo + width - 1))

-----------------------------------------------------------------------------
(* What the TX functions put on the bus.                                   *)

MessageID(kind, port) ==
    CASE kind = Message16b -> Shl(port, 8) \cup {7}
      [] kind = Message13b -> {21, 22} \cup Shl(port, 8)
      [] kind = V0Message -> Shl(port, 8)

ServiceID(kind, port, dst) ==
    {25} \cup (IF kind = Request THEN {24} ELSE {}) \cup Shl(port, 14) \cup Shl(dst, 7)

V0ServiceID(kind, port, dst) ==
    Shl(port, 16) \cup (IF kind = V0Request THEN {15} ELSE {}) \cup Shl(dst, 8) \cup {7}

\* txEjectPending adds the source; dst is NodeIDAnonymous for a message.
FrameID(prio, kind, port, src, dst) ==
    Shl(prio, 26) \cup Shl(src, 0)
      \cup CASE kind \in {Message16b, Message13b, V0Message} -> MessageID(kind, port)
             [] kind \in {Response, Request} -> ServiceID(kind, port, dst)
             [] kind \in {V0Response, V0Request} -> V0ServiceID(kind, port, dst)

-----------------------------------------------------------------------------
(* What rxParse makes of a frame [id, start, end, toggle]: the readings    *)
(* [kind, port, src, dst], at most one per protocol version.               *)

Reading(kind, port, src, dst) == [kind |-> kind, port |-> port, src |-> src, dst |-> dst]

V1Reading(fr) ==
    LET src == Field(fr.id, 0, 7)
        dst == Field(fr.id, 7, 7)
        anonymous == 24 \in fr.id
    IN CASE 25 \in fr.id ->
              IF 23 \in fr.id \/ src = dst THEN {}
              ELSE {Reading(IF 24 \in fr.id THEN Request ELSE Response,
                            Field(fr.id, 14, 9), src, dst)}
         [] 25 \notin fr.id /\ 7 \in fr.id ->
              IF 24 \in fr.id THEN {}
              ELSE {Reading(Message16b, Field(fr.id, 8, 16), src, NodeIDAnonymous)}
         [] OTHER ->
              IF 23 \in fr.id \/ (anonymous /\ ~(fr.start /\ fr.end)) THEN {}
              ELSE {Reading(Message13b, Field(fr.id, 8, 13),
                            IF anonymous THEN NodeIDAnonymous ELSE src, NodeIDAnonymous)}

V0Reading(fr) ==
    LET src == Field(fr.id, 0, 7)
        dst == Field(fr.id, 8, 7)
    IN CASE 7 \in fr.id ->
              IF dst = 0 \/ src = 0 \/ src = dst THEN {}
              ELSE {Reading(IF 15 \in fr.id THEN V0Request ELSE V0Response,
                            Field(fr.id, 16, 8), src, dst)}
         [] 7 \notin fr.id /\ src = 0 ->
              IF ~(fr.start /\ fr.end) THEN {}
              ELSE {Reading(V0Message, Field(fr.id, 8, 2), NodeIDAnonymous, NodeIDAnonymous)}
         [] OTHER -> {Reading(V0Message, Field(fr.id, 8, 16), src, NodeIDAnonymous)}

\* The first frame of a transfer tells the version by its toggle; the others
\* do not.  (Frames without the bytes that payloadOK asks for are left out.)
rxParse(fr) ==
    (IF fr.start /\ ~fr.toggle THEN {} ELSE V1Reading(fr))
      \cup (IF fr.start /\ fr.toggle THEN {} ELSE V0Reading(fr))

-----------------------------------------------------------------------------
(* The filters.                                                            *)

Filter(id, mask) == [id |-> id, mask |-> mask]
Passes(f, id) == id \cap f.mask = f.id \cap f.mask

rxFilterForSubscription(node, sub) ==
    LET kind == sub[1]
        port == sub[2]
    IN CASE kind = Message16b -> Filter(Shl(port, 8) \cup {7}, 7..25)
         [] kind = Message13b -> Filter(Shl(port, 8), {25, 23} \cup 7..20)
         [] kind \in {Response, Request} -> Filter(ServiceID(kind, port, node), 7..25)
         [] kind = V0Message -> Filter(Shl(port, 8), IF port <= 3 THEN 7..9 ELSE 7..23)
         [] kind \in {V0Response, V0Request} -> Filter(V0ServiceID(kind, port, node), 7..23)

rxFilterFuse(a, b) ==
    LET differ == (a.id \ b.id) \cup (b.id \ a.id)
        mask == (a.mask \cap b.mask) \ differ
    IN Filter(a.id \cap mask, mask)

rxFilterRank(f) == Cardinality(f.mask)

rxFilterCovered(filters, inner) ==
    \E i \in DOMAIN filters :
        /\ filters[i].mask \subseteq inner.mask
        /\ inner.id \cap filters[i].mask = filters[i].id

\* Mutant: the pair replaced by its fusion leaves no room for the new filter.
rxFilterCoalesceIntoLossy(filters, new) ==
    LET all == Append(filters, new)
        i == CHOOSE i \in DOMAIN filters : TRUE
    IN [filters EXCEPT ![i] = rxFilterFuse(filters[i], all[i + 1])]

\* The pair whose fusion keeps the most bits (the last such pair in the order
\* of the two loops) is fused into the place of its first; the new filter
\* takes the place of the second unless it is itself the second.
rxFilterCoalesceInto(filters, new) ==
    LET all == Append(filters, new)
        pairs == {p \in (DOMAIN filters) \X (DOMAIN all) : p[1] < p[2]}
        rank == [p \in pairs |-> rxFilterRank(rxFilterFuse(all[p[1]], all[p[2]]))]
        tied == {p \in pairs : rank[p] = Max(Range(rank))}
        best == CHOOSE p \in tied : \A q \in tied \ {p} :
                    p[1] > q[1] \/ (p[1] = q[1] /\ p[2] > q[2])
    IN [k \in DOMAIN filters |->
           CASE k = best[1] -> rxFilterFuse(all[best[1]], all[best[2]])
             [] k = best[2] -> new
             [] OTHER -> filters[k]]

rxFilterAppend(filters, capacity, f) ==
    IF Len(filters) < capacity THEN Append(filters, f)
    ELSE rxFilterCoalesceInto(filters, f)

\* The filters of every subscription, in the order in which the trees hold them
\* (by kind, then by port), then the two heartbeats unless the filters so far let them through.
Heartbeats == <<<<Message13b, 7509>>, <<V0Message, 341>>>>

rxFilterConfigure(node, subs, capacity) ==
    LET wanted(sub) == rxFilterForSubscription(node, sub)
        after[i \in 0..Len(subs)] ==
            IF i = 0 THEN <<>> ELSE rxFilterAppend(after[i - 1], capacity, wanted(subs[i]))
        force(filters, sub) ==
            IF rxFilterCovered(filters, wanted(sub)) THEN filters
            ELSE rxFilterAppend(filters, capacity, wanted(sub))
    IN  force(force(after[Len(subs)], Heartbeats[1]), Heartbeats[2])

-----------------------------------------------------------------------------
(* The instances that are checked: subscriptions of every kind, among them *)
(* both ends of a range and a port that an anonymous v0 frame can address; *)
(* up to three of them at a time, plus the heartbeats, share one to three  *)
(* filters.                                                                *)

InOrder ==
    <<<<Message16b, 0>>, <<Message16b, 65535>>, <<Message13b, 1>>, <<Response, 5>>,
      <<Request, 5>>, <<V0Message, 2>>, <<V0Response, 5>>, <<V0Request, 4>>>>
SomeSubscriptions == Range(InOrder)
SomePeers == {2, 3, 127}
SomeCapacities == 1..3

\* A start frame of a multi-frame transfer, a later one and a single-frame
\* transfer, with the toggle that the version starts with.
FramesOf(tr) ==
    LET first == tr.kind < V0Message
    IN {[id |-> FrameID(prio, tr.kind, tr.port, tr.src, tr.dst),
         start |-> shape # "later", end |-> shape = "single",
         toggle |-> IF shape = "later" THEN ~first ELSE first] :
        prio \in {0, 5}, shape \in {"first", "later", "single"}}

\* An anonymous publication: v1.0 sets bit 24 and draws the source at random,
\* v0 sends source 0 and random bits above the two of the data type ID.
AnonymousFramesOf(tr) ==
    CASE tr.kind = Message13b ->
            {[id |-> {24} \cup MessageID(tr.kind, tr.port) \cup Shl(src, 0),
              start |-> TRUE, end |-> TRUE, toggle |-> TRUE] : src \in SomePeers}
      [] tr.kind = V0Message /\ tr.port <= 3 ->
            {[id |-> Shl(tr.port + 4 * r, 8), start |-> TRUE, end |-> TRUE, toggle |-> FALSE] :
                r \in {0, 1, 16383}}
      [] OTHER -> {}

\* The transfers that the peers send to the given node, or to everybody.  The
\* v0 services refuse node-ID 0 as a destination.
TransfersTo(node) ==
    {Reading(sub[1], sub[2], src, IF sub[1] \in {Message16b, Message13b, V0Message}
                                  THEN NodeIDAnonymous ELSE node) :
        sub \in {sub \in SomeSubscriptions \cup Range(Heartbeats) :
                    sub[1] \in {V0Response, V0Request} => node # 0},
        src \in SomePeers \ {node}}

\* The filters let the frame through, and rxParse reads it as what was sent: a
\* start frame as nothing else, although the layouts of the two versions overlap.
Received(filters, tr, fr) ==
    /\ fr.start => rxParse(fr) = {tr}
    /\ tr \in rxParse(fr)
    /\ \E i \in DOMAIN filters : Passes(filters[i], fr.id)

\* Those of the subscribed ports, and the heartbeats.
Wanted(node, subs) ==
    {tr \in TransfersTo(node) : <<tr.kind, tr.port>> \in subs \cup Range(Heartbeats)}

\* Every frame of a wanted transfer arrives at the node when its filters were
\* computed for the node-ID configured and number at most capacity.
Serves(configured, node, subs, capacity) ==
    LET filters == rxFilterConfigure(configured,
                       SelectSeq(InOrder, LAMBDA s : s \in subs), capacity)
    IN  /\ Len(filters) <= capacity
        /\ \A tr \in Wanted(node, subs) :
            /\ \A fr \in FramesOf(tr) : Received(filters, tr, fr)
            /\ \A fr \in AnonymousFramesOf(tr) :
                Received(filters, [tr EXCEPT !.src = NodeIDAnonymous], fr)
=============================================================================
