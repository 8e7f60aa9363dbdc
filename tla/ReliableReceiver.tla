-------------------------- MODULE ReliableReceiver --------------------------
(***************************************************************************)
(* The receiving side of reliable publication (cy/reliable.go, cy/cy.go,   *)
(* cy/topic.go, cy/subscriber.go): one node, the subscribers it has on a   *)
(* topic, and one remote publisher.  The node removes repeated reliable    *)
(* messages for all its subscribers at once, and an ordered subscriber     *)
(* puts messages in order with a buffer of its own.                        *)
(*                                                                         *)
(* The network loses, repeats, delays and reorders: until the deadline of  *)
(* its transfer a reliable message can be received any number of times (it *)
(* is also retransmitted), a best-effort one once, since the transport     *)
(* drops its repeats.                                                      *)
(*                                                                         *)
(* A handler of the node runs under Cy.mu.  onWindowExpiration runs on the *)
(* scheduler's goroutine without it; the model takes each handler as one   *)
(* step, which is what the code does when the application spins the        *)
(* scheduler and the platform from one goroutine.                          *)
(***************************************************************************)
EXTENDS Integers, Sequences, FiniteSets, SequencesExt

CONSTANTS
    Subs,               \* the subscribers on the topic
    Ordered,            \* those with a reordering window
    TagModulus,         \* 2^64 in the code
    TagBaseline,        \* the publisher's msgTagBaseline
    dedupHistory,       \* 512 in the code
    reorderingCapacity, \* 16 in the code
    MaxBackwardLag,     \* sessionCounterMaxBackwardLag
    ReorderingWindow,   \* of the ordered subscribers
    Patience,           \* how far ahead of now a transfer's deadline is
    SessionLifetime,    \* of the soft state about a remote
    MaxInputs,          \* bound: messages, and subscriptions and restarts twice
    MaxTime,            \* bound: the last value of the clock
    None

ASSUME ReceiverAssumption ==
    /\ Ordered \subseteq Subs
    /\ TagModulus \in Nat \ {0} /\ TagBaseline \in 0..(TagModulus - 1)
    /\ dedupHistory \in Nat \ {0} /\ 2 * dedupHistory <= TagModulus
    /\ reorderingCapacity \in Nat /\ reorderingCapacity > 3
    /\ MaxInputs \in Nat /\ MaxInputs + reorderingCapacity < TagModulus \div 2
    /\ MaxBackwardLag \in Nat /\ MaxBackwardLag < TagModulus \div 2
    /\ ReorderingWindow \in Nat /\ Patience \in Nat /\ SessionLifetime \in Nat
    /\ ReorderingWindow < SessionLifetime /\ Patience <= SessionLifetime
    /\ MaxTime \in Nat

\* The soft state about the publisher: dedupState and reorderingState.
DedupState == [tag : 0..(TagModulus - 1), bitmap : SUBSET (0..(dedupHistory - 1)),
               lastActiveAt : Nat]

ReorderingState == [tagBaseline : 0..(TagModulus - 1), lastEjected : Nat,
                    slots : UNION {[S -> Nat] : S \in SUBSET (0..(MaxInputs + reorderingCapacity))},
                    windowTask : Nat \cup {None}, lastActiveAt : Nat,
                    out : Seq(0..(TagModulus - 1))]

ASSUME NothingAssumption ==
    /\ None \notin Nat
    /\ None \notin DedupState /\ None \notin ReorderingState

VARIABLES
    msgSeqno,       \* messages published
    net,            \* the messages on the network
    acks,           \* tags the node has acknowledged
    sub,            \* "none", "live", or "disposed" and still registered
    dedup,          \* the topic's dedup state for the publisher
    reordering,     \* per subscriber: its reordering state for the publisher
    delivered,      \* per subscriber: tags it was notified of
    accepted,       \* reliable tags that some subscriber accepted
    changes,        \* how often a subscription began or ended or the node restarted
    now

vars == <<msgSeqno, net, acks, sub, dedup, reordering, delivered, accepted, changes, now>>
-----------------------------------------------------------------------------
With(f, x, v) == [y \in DOMAIN f \cup {x} |-> IF y = x THEN v ELSE f[y]]
Empty == [x \in {} |-> x]
Lowest(S) == CHOOSE x \in S : \A y \in S : x <= y
Highest(S) == CHOOSE x \in S : \A y \in S : y <= x

\* Tags are unsigned and wrap around.
Plus(x, y) == (x + y) % TagModulus
Minus(x, y) == (x - y) % TagModulus

\* The position of a tag in the order of publication.
Rank(tag) == Minus(tag, TagBaseline)

\* The bound on the inputs: the more the subscriptions change, the fewer
\* messages are published.
Change == msgSeqno + 2 * changes + 2 <= MaxInputs /\ changes' = changes + 1
-----------------------------------------------------------------------------
(***************************************************************************)
(* The publisher and the network.                                          *)
(***************************************************************************)
\* The next message, by Publish or PublishReliable.  The publisher has no
\* message on the network that lags so far behind that it would pass for a
\* restart, no reliable one that is older than the dedup window, and publishes
\* while its deadlines are within the bound of the clock.
Publish(reliable) ==
    LET tag == Plus(TagBaseline, msgSeqno + 1)
    IN  /\ msgSeqno + 2 * changes + 1 <= MaxInputs
        /\ \A m \in net : Minus(tag, m.tag) <= MaxBackwardLag
        /\ reliable => \A m \in net : m.reliable => Minus(tag, m.tag) < dedupHistory
        /\ now + Patience + ReorderingWindow <= MaxTime
        /\ msgSeqno' = msgSeqno + 1
        /\ net' = net \cup {[tag |-> tag, deadline |-> now + Patience, reliable |-> reliable]}
        /\ UNCHANGED <<acks, sub, dedup, reordering, delivered, accepted, changes, now>>
-----------------------------------------------------------------------------
(***************************************************************************)
(* Deduplication.  A dedup state holds the most recent accepted            *)
(* tag and, as the set of the bits that are set, how far behind it the     *)
(* accepted tags of the window are.                                        *)
(***************************************************************************)
Stale(state) == state = None \/ now - state.lastActiveAt > SessionLifetime

dedupFind(d) == IF Stale(d) THEN None ELSE d

\* Mutant: a new state counts its first tag as accepted.
dedupFindOrCreateMarked(d, tag) ==
    IF Stale(d) THEN [tag |-> tag, bitmap |-> {0}, lastActiveAt |-> now] ELSE d

dedupFindOrCreate(d, tag) ==
    IF Stale(d) THEN [tag |-> tag, bitmap |-> {}, lastActiveAt |-> now] ELSE d

check(d, tag) == Minus(d.tag, tag) \in d.bitmap

\* bitmapShift: towards the higher indices.
bitmapShift(bitmap, n) == {i + n : i \in bitmap} \cap 0..(dedupHistory - 1)

\* Mutant: a late tag becomes the most recent one, and the window starts anew.
commitForward(d, tag) == [tag |-> tag, bitmap |-> {0}, lastActiveAt |-> now]

\* commit, and the update of lastActiveAt that follows it.
commit(d, tag) ==
    LET rev == Minus(d.tag, tag)
        fwd == Minus(tag, d.tag)
    IN  IF rev < dedupHistory
        THEN [d EXCEPT !.bitmap = @ \cup {rev}, !.lastActiveAt = now]
        ELSE [tag |-> tag, lastActiveAt |-> now,
              bitmap |-> {0} \cup IF fwd >= dedupHistory THEN {} ELSE bitmapShift(d.bitmap, fwd)]
-----------------------------------------------------------------------------
(***************************************************************************)
(* The reordering buffer of an ordered subscriber.  slots maps a           *)
(* linearized tag to the time its message arrived; out collects the tags   *)
(* the subscriber is notified of during a step.                            *)
(***************************************************************************)
resequence(q, tag) ==
    [q EXCEPT !.tagBaseline = Minus(tag, reorderingCapacity \div 2), !.lastEjected = 0]

newReordering(tag) ==
    resequence([tagBaseline |-> 0, lastEjected |-> 0, slots |-> Empty,
                windowTask |-> None, lastActiveAt |-> now, out |-> <<>>], tag)

\* The numbers S, lowest first.
Ascending(S) ==
    CHOOSE f \in [1..Cardinality(S) -> S] : \A i, j \in DOMAIN f : i < j => f[i] < f[j]

\* eject, of the slots up to a linearized tag that is one of them.
eject(q, last) ==
    LET gone == Ascending({k \in DOMAIN q.slots : k <= last})
    IN  [q EXCEPT !.out = @ \o [i \in DOMAIN gone |-> Plus(gone[i], q.tagBaseline)],
                  !.slots = [k \in {j \in DOMAIN @ : j > last} |-> @[k]],
                  !.lastEjected = last]

\* The window task waits for the head of line.
arm(q) ==
    [q EXCEPT !.windowTask = IF q.slots = Empty THEN None
                             ELSE q.slots[Lowest(DOMAIN q.slots)] + ReorderingWindow]

\* The last of the consecutive slots from one on.
RunEnd(q, first) ==
    Lowest({k \in DOMAIN q.slots : k >= first /\ k + 1 \notin DOMAIN q.slots})

\* Mutant: the window task is not armed again.
scanUnarmed(q, forceFirst) ==
    LET first == IF forceFirst THEN Lowest(DOMAIN q.slots) ELSE q.lastEjected + 1
    IN  IF q.slots # Empty /\ first \in DOMAIN q.slots
        THEN [eject(q, RunEnd(q, first)) EXCEPT !.windowTask = None]
        ELSE q

scan(q, forceFirst) ==
    LET first == IF forceFirst THEN Lowest(DOMAIN q.slots) ELSE q.lastEjected + 1
    IN  IF q.slots # Empty /\ first \in DOMAIN q.slots
        THEN arm(eject(q, RunEnd(q, first)))
        ELSE arm(q)

ejectAll(q) == IF q.slots = Empty THEN q ELSE arm(eject(q, Highest(DOMAIN q.slots)))

\* Mutant: the slots that slide out of the window are not delivered.
SlideSilenced(q, lin) ==
    LET runEnds == {k \in DOMAIN q.slots : k + 1 \notin DOMAIN q.slots}
        fit == {k \in runEnds : lin <= k + reorderingCapacity}
    IN  IF q.slots = Empty \/ lin <= q.lastEjected + reorderingCapacity THEN q
        ELSE [arm(eject(q, IF fit = {} THEN Highest(runEnds) ELSE Lowest(fit)))
                EXCEPT !.out = q.out]

\* The window slides right, as scan(true) does run after run, until the tag
\* fits in or no slot is left.
SlideTo(q, lin) ==
    LET runEnds == {k \in DOMAIN q.slots : k + 1 \notin DOMAIN q.slots}
        fit == {k \in runEnds : lin <= k + reorderingCapacity}
    IN  IF q.slots = Empty \/ lin <= q.lastEjected + reorderingCapacity THEN q
        ELSE arm(eject(q, IF fit = {} THEN Highest(runEnds) ELSE Lowest(fit)))

\* push on a subscriber that is not disposed.
push(q, tag) ==
    LET lin0     == Minus(tag, q.tagBaseline)
        backward == lin0 > TagModulus \div 2 - 1
        q1       == IF backward THEN resequence(ejectAll(q), tag) ELSE q
        lin1     == Minus(tag, q1.tagBaseline)
        q2       == SlideTo(q1, lin1)
        q3       == IF lin1 > q2.lastEjected + reorderingCapacity
                    THEN resequence(q2, tag) ELSE q2
        lin3     == Minus(tag, q3.tagBaseline)
        rejected == \/ lin0 <= q.lastEjected
                    \/ backward /\ Minus(q.lastEjected, lin0) <= MaxBackwardLag
    IN  [accepted |-> ~rejected,
         state |->
            IF rejected THEN q
            ELSE IF lin1 = q2.lastEjected + 1
            THEN scan([q2 EXCEPT !.lastEjected = lin1, !.out = Append(@, tag)], FALSE)
            ELSE IF lin3 \in DOMAIN q3.slots THEN q3
            ELSE arm([q3 EXCEPT !.slots = With(@, lin3, now)])]

\* dropStaleReordering, silenced.
dropStaleReordering(q) == IF Stale(q) THEN None ELSE q

\* notify: the tags a subscriber was notified of.  What an unordered one sees
\* first does not matter here, so its tags are kept sorted.
notify(s, out) ==
    LET lower(tag) == {i \in DOMAIN delivered[s] : delivered[s][i] < tag}
    IN  IF s \in Ordered THEN delivered[s] \o out
        ELSE IF out = <<>> THEN delivered[s]
        ELSE InsertAt(delivered[s], Cardinality(lower(Head(out))) + 1, Head(out))

\* deliver: what a subscriber does with a message, and whether it accepts it.
deliver(s, q, tag) ==
    LET found == IF q = None THEN newReordering(tag) ELSE [q EXCEPT !.lastActiveAt = now]
        p == push(found, tag)
    IN  IF sub[s] # "live" THEN [accepted |-> FALSE, state |-> q, out |-> <<>>]
        ELSE IF s \notin Ordered THEN [accepted |-> TRUE, state |-> q, out |-> <<tag>>]
        ELSE [accepted |-> p.accepted, state |-> [p.state EXCEPT !.out = <<>>],
              out |-> p.state.out]
-----------------------------------------------------------------------------
(***************************************************************************)
(* The handlers of the node.                                               *)
(***************************************************************************)
hasSubs == \E s \in Subs : sub[s] # "none"

\* No subscriber: a repeated message is acknowledged again.
AckPassively(m) ==
    LET known == dedupFind(dedup)
    IN  /\ dedup' = IF m.reliable THEN known ELSE dedup
        /\ acks' = IF m.reliable /\ known # None /\ check(known, m.tag)
                   THEN acks \cup {m.tag} ELSE acks
        /\ UNCHANGED <<reordering, delivered, accepted>>

\* deliverTopic and sendAck: a message that is not a duplicate reaches every
\* subscriber; it is acknowledged if one of them accepts it.
deliverTopic(m) ==
    LET dd    == IF m.reliable THEN dedupFindOrCreate(dedup, m.tag) ELSE dedup
        again == m.reliable /\ check(dd, m.tag)
        d     == [s \in Subs |-> deliver(s, dropStaleReordering(reordering[s]), m.tag)]
        ok    == m.reliable /\ \E s \in Subs : d[s].accepted
    IN  IF again
        THEN acks' = acks \cup {m.tag} /\ UNCHANGED <<dedup, reordering, delivered, accepted>>
        ELSE /\ reordering' = [s \in Subs |-> d[s].state]
             /\ delivered' = [s \in Subs |-> notify(s, d[s].out)]
             /\ dedup' = IF ok THEN commit(dd, m.tag) ELSE dd
             /\ accepted' = IF ok THEN accepted \cup {m.tag} ELSE accepted
             /\ acks' = IF ok THEN acks \cup {m.tag} ELSE acks

Receive ==
    /\ \E m \in net :
        /\ IF hasSubs THEN deliverTopic(m) ELSE AckPassively(m)
        /\ net' = IF m.reliable THEN net ELSE net \ {m}
    /\ UNCHANGED <<msgSeqno, sub, changes, now>>

WindowDue(q) == q # None /\ q.windowTask # None /\ q.windowTask <= now

\* onWindowExpiration; a disposed subscriber is not notified.
WindowExpires(s) ==
    /\ WindowDue(reordering[s])
    /\ LET q == scan(reordering[s], TRUE)
       IN  /\ reordering' = [reordering EXCEPT ![s] = [q EXCEPT !.out = <<>>]]
           /\ delivered' = IF sub[s] = "live"
                           THEN [delivered EXCEPT ![s] = notify(s, q.out)] ELSE delivered
    /\ UNCHANGED <<msgSeqno, net, acks, sub, dedup, accepted, changes, now>>

\* newSubscriber.
Subscribe(s) ==
    /\ Change
    /\ sub[s] = "none"
    /\ sub' = [sub EXCEPT ![s] = "live"]
    /\ delivered' = [delivered EXCEPT ![s] = <<>>]
    /\ UNCHANGED <<msgSeqno, net, acks, dedup, reordering, accepted, now>>

\* Subscriber.Destroy up to the lock of the node.
Destroy(s) ==
    /\ Change
    /\ sub[s] = "live"
    /\ sub' = [sub EXCEPT ![s] = "disposed"]
    /\ UNCHANGED <<msgSeqno, net, acks, dedup, reordering, delivered, accepted, now>>

\* teardown: the reordering state is destroyed, silenced.
teardown(s) ==
    /\ sub[s] = "disposed"
    /\ sub' = [sub EXCEPT ![s] = "none"]
    /\ reordering' = [reordering EXCEPT ![s] = None]
    /\ UNCHANGED <<msgSeqno, net, acks, dedup, delivered, accepted, changes, now>>

\* The node restarts: nothing of its state survives.
Restart ==
    /\ Change
    /\ sub' = [s \in Subs |-> "none"]
    /\ dedup' = None
    /\ reordering' = [s \in Subs |-> None]
    /\ UNCHANGED <<msgSeqno, net, acks, delivered, accepted, now>>

\* Time passes.  The scheduler is spun at least once per unit of time, and a
\* transfer past its deadline leaves the network.
Tick ==
    /\ now < MaxTime
    /\ ~ \E s \in Subs : WindowDue(reordering[s])
    /\ now' = now + 1
    /\ net' = {m \in net : m.deadline >= now'}
    /\ UNCHANGED <<msgSeqno, acks, sub, dedup, reordering, delivered, accepted, changes>>
-----------------------------------------------------------------------------
Init ==
    /\ msgSeqno = 0
    /\ net = {} /\ acks = {} /\ accepted = {}
    /\ sub = [s \in Subs |-> "none"]
    /\ dedup = None
    /\ reordering = [s \in Subs |-> None]
    /\ delivered = [s \in Subs |-> <<>>]
    /\ changes = 0 /\ now = 0

Next ==
    \/ \E reliable \in BOOLEAN : Publish(reliable)
    \/ Receive
    \/ \E s \in Subs : WindowExpires(s)
    \/ \E s \in Subs : Subscribe(s)
    \/ \E s \in Subs : Destroy(s)
    \/ \E s \in Subs : teardown(s)
    \/ Restart
    \/ Tick

Spec == Init /\ [][Next]_vars
-----------------------------------------------------------------------------
Tags == {Plus(TagBaseline, i) : i \in 1..MaxInputs}

Waiting(q) == IF q = None THEN {} ELSE {Plus(k, q.tagBaseline) : k \in DOMAIN q.slots}

\* The tags a subscriber has accepted and was not yet notified of.
Interned(s) == Waiting(reordering[s])

\* The type invariant: in particular a reordering buffer never holds more than
\* its capacity, and only tags that were published.
TypeOK ==
    /\ msgSeqno + 2 * changes <= MaxInputs
    /\ \A m \in net : m.tag \in Tags
    /\ acks \subseteq Tags /\ accepted \subseteq Tags
    /\ sub \in [Subs -> {"none", "live", "disposed"}]
    /\ dedup # None => dedup.tag \in Tags /\ dedup.bitmap \subseteq 0..(dedupHistory - 1)
    /\ \A s \in Subs :
          /\ Range(delivered[s]) \cup Interned(s) \subseteq Tags
          /\ reordering[s] # None =>
                /\ s \in Ordered
                /\ Cardinality(DOMAIN reordering[s].slots) < reorderingCapacity
    /\ now \in 0..MaxTime

\* The node acknowledges only messages that one of its subscribers accepted,
\* also when it answers a message that it takes for a duplicate: the dedup
\* window never mistakes a tag for another one as it shifts, is created anew in
\* the middle of the sequence, or wraps around.
AckedWasAccepted == TypeOK /\ acks \subseteq accepted

\* No subscriber is notified of a message twice, and an ordered one is notified
\* in the order of publication, across retransmissions, repeats, the sliding
\* and the expiry of the reordering window, its resequencing, and the expiry of
\* the soft state.
DeliveredOnceInOrder ==
    \A s \in Subs : \A j \in DOMAIN delivered[s] : \A i \in 1..(j - 1) :
        IF s \in Ordered THEN Rank(delivered[s][i]) < Rank(delivered[s][j])
        ELSE delivered[s][i] # delivered[s][j]

\* A message in the reordering buffer, which the publisher may take for
\* delivered, stays there or is handed to the subscriber for as long as the
\* subscriber lives: neither the expiry of the soft state nor a window that
\* slides or restarts drops it.
InternedKept ==
    [][\A s \in Subs : sub[s] = "live" /\ sub'[s] = "live" =>
        Interned(s) \subseteq Waiting(reordering'[s]) \cup Range(delivered'[s])]_vars

\* Gaps that are never filled stall nobody: the clock never passes the moment at
\* which the head of the line has waited for a window, whatever arrived, was
\* handed over or slid out meanwhile, so the window task was armed for it.
HeadOfLineTimely ==
    [][now' > now =>
        \A s \in Subs : Interned(s) # {} =>
            LET slots == reordering[s].slots
            IN  now < slots[Lowest(DOMAIN slots)] + ReorderingWindow]_vars
=============================================================================
