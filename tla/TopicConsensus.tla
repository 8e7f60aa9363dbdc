--------------------------- MODULE TopicConsensus ---------------------------
(***************************************************************************)
(* The topic allocation consensus of the session layer (cy/cy.go,          *)
(* cy/gossip.go, cy/topic.go): every node maps its topics to subject-IDs,  *)
(* arbitrates collisions and converges with the others by gossip.          *)
(*                                                                         *)
(* A topic is named by its hash.  topicsByName and topicsByHash are one    *)
(* map, topics.  Time is counted in seconds, the unit of the log-age.      *)
(* Every handler runs under c.mu, hence atomically; publishing does not,   *)
(* and is split where it reads the topic a second time (BuildWire,         *)
(* SendWire).  Two scheduled urgent gossips of one topic are one.          *)
(*                                                                         *)
(* The network is the environment: each node has an inbox from which       *)
(* messages are taken in any order, possibly more than once, and may be    *)
(* lost if Lossy.                                                          *)
(***************************************************************************)
EXTENDS Integers, Sequences, FiniteSets, SequencesExt

CONSTANTS
    Nodes,
    Topics,             \* topic hashes, numbers
    Creatable,          \* <<node, topic>>: the application creates it there
    Matching,           \* <<node, topic>>: the node's pattern matches it
    Pins,               \* subject-IDs topics may be pinned to
    Modulus,            \* subjectIDModulus, a prime congruent 3 modulo 4
    SubjectIDPinnedMax, \* 0x1FFF in the code
    EvictionsMax,       \* the largest eviction counter, 2^32 - 1 in the code
    BroadcastRatio,     \* cy.gossipBroadcastRatio, 10 in the code
    Lossy,              \* messages may be lost and readers may fail
    Publishing,         \* bound: data messages each node sends
    MaxRestarts,        \* bound: restarts of nodes
    MaxInFlight,        \* bound: messages in an inbox when one more is sent
    MaxTime,            \* bound: the last value of the clock
    PinNone,            \* not pinned
    None                \* no topic, reader or message

ASSUME ConsensusAssumption ==
    /\ Topics \subseteq Nat /\ IsFiniteSet(Topics)
    /\ Creatable \subseteq Nodes \X Topics /\ Matching \subseteq Nodes \X Topics
    /\ Pins \subseteq 0..SubjectIDPinnedMax
    /\ Modulus \in Nat \ {0} /\ BroadcastRatio \in Nat \ {0}
    /\ EvictionsMax \in Nat /\ SubjectIDPinnedMax \in 0..EvictionsMax
    /\ {Publishing, MaxRestarts, MaxInFlight, MaxTime} \subseteq Nat
    /\ Lossy \in BOOLEAN

\* The values that stand for nothing are nothing else.
ASSUME NothingAssumption == PinNone \notin Int /\ None \notin Int

VARIABLES
    cy,         \* per node: topics, index (topicsBySubjectID), and the topics
                \* with an urgent and with a periodic gossip scheduled
    pattern,    \* nodes that have subscribed to their pattern
    scouting,   \* nodes whose scout has still to be sent
    stuck,      \* nodes whose spinning goroutine waits for a lock it holds
    wire,       \* per node: the data message composed last
    sends,      \* per node: how many data messages it has sent
    inbox,      \* per node: the messages on their way to it
    restarts,
    now

vars == <<cy, pattern, scouting, stuck, wire, sends, inbox, restarts, now>>
-----------------------------------------------------------------------------
(***************************************************************************)
(* Topics (topic.go, types.go).                                            *)
(***************************************************************************)
Empty == [x \in {} |-> x]
Without(f, x) == [y \in DOMAIN f \ {x} |-> f[y]]
With(f, x, v) == [y \in DOMAIN f \cup {x} |-> IF y = x THEN v ELSE f[y]]

LAGEMin == -1
LAGEMax == 35

\* One less than the number of bits of x.
Log2Floor(x) == Cardinality({k \in 0..x : 2^k <= x}) - 1
LageToUS(lage) ==
    IF lage < 0 THEN 0 ELSE IF lage > LAGEMax THEN 2^LAGEMax ELSE 2^lage

Lage(tp) == Log2Floor(now - tp.tsOrigin)
MergeLageAt(tp, lage) ==
    IF now - LageToUS(lage) < tp.tsOrigin
    THEN [tp EXCEPT !.tsOrigin = now - LageToUS(lage)] ELSE tp

isPinned(evictions) == evictions >= EvictionsMax - SubjectIDPinnedMax

ComputeSubjectID(hash, evictions) ==
    SubjectIDPinnedMax + 1
        + (((hash % Modulus)
              + (((evictions % Modulus) * (evictions % Modulus)) % Modulus)) % Modulus)

\* newTopic followed by SetOriginAt(now, lage, evictions).
newTopic(hash, pin, lage, evictions) ==
    [tsOrigin |-> now - LageToUS(lage), evictions |-> evictions,
     pinned |-> pin # PinNone,
     subjectID |-> IF pin # PinNone THEN pin ELSE ComputeSubjectID(hash, 0),
     reader |-> None, gossipCounter |-> 0]
-----------------------------------------------------------------------------
(***************************************************************************)
(* topicAllocate and the handlers, as operators on the state of one node.  *)
(* ok: the platform creates the readers it is asked for.                   *)
(***************************************************************************)
ScheduleUrgent(st, t) ==
    [st EXCEPT !.urgent = @ \cup {t}, !.topics[t].gossipCounter = 0]

SchedulePeriodic(st, t) == [st EXCEPT !.periodic = @ \cup {t}]

\* Mutant: a reader that was there is kept.
resyncTopicReaderLazy(tp, ok) ==
    IF tp.reader # None THEN tp
    ELSE [tp EXCEPT !.reader = IF ok THEN tp.subjectID ELSE None]

resyncTopicReader(tp, ok) ==
    IF tp.reader = tp.subjectID THEN tp
    ELSE [tp EXCEPT !.reader = IF ok THEN tp.subjectID ELSE None]

\* Mutant: of two topics of the same age both win.
leftWinsTie(tp, hash, lage, otherHash) == Lage(tp) >= lage

leftWins(tp, hash, lage, otherHash) ==
    \/ Lage(tp) > lage
    \/ Lage(tp) = lage /\ hash < otherHash

\* The topic t settles on the subject-ID sid.
Settle(st, t, evictions, sid, ok) ==
    LET moved == [st.topics[t] EXCEPT !.evictions = evictions,
                                      !.pinned = isPinned(evictions),
                                      !.subjectID = sid]
    IN  ScheduleUrgent([st EXCEPT !.topics[t] = resyncTopicReader(moved, ok)], t)

\* Mutant: the topic stays indexed while its eviction counter changes.
DeindexNever(st, t) == st.index

\* "We cannot mutate the eviction counter while the topic is indexed by
\* subject-ID": whatever topic is indexed there is removed.
Deindex(st, t) ==
    IF st.topics[t].pinned THEN st.index ELSE Without(st.index, st.topics[t].subjectID)

Closed(st, t) == [st EXCEPT !.topics[t].reader = None]

\* A call of topicAllocate: the topic is None once the recursion has returned.
Call(st, t, evictions) == [st |-> st, topic |-> t, evictions |-> evictions]

\* What one call does up to the one that it ends with: the topic tries again,
\* or the topic that it has defeated is allocated.
AllocateOnce(call, ok) ==
    LET st == call.st
        t == call.topic
        free == [st EXCEPT !.index = Deindex(st, t)]
        sid == ComputeSubjectID(t, call.evictions)
        that == IF sid \in DOMAIN free.index /\ free.index[sid] # t
                THEN free.index[sid] ELSE None
        victory == that # None =>
            leftWins(st.topics[t], t, Lage(st.topics[that]), that)
        won == [Settle(free, t, call.evictions, sid, ok) EXCEPT !.index = With(@, sid, t)]
    IN  IF t = None THEN call
        ELSE IF isPinned(call.evictions)
        THEN Call(Settle(Closed(free, t), t, call.evictions,
                         EvictionsMax - call.evictions, ok), None, 0)
        ELSE IF ~victory THEN Call(free, t, call.evictions + 1)
        ELSE IF that = None THEN Call(won, None, 0)
        ELSE Call(Closed(won, that), that, st.topics[that].evictions + 1)

\* More calls than a recursion has: it goes from topics to younger ones, and
\* through growing eviction counters, the last of which are pinned.
MaxCalls == Cardinality(Topics) * (EvictionsMax + 1)

\* The same, for TLC: c is evaluated once, not wherever AllocateOnce mentions it.
NextCall(call, ok) == CHOOSE next \in {AllocateOnce(c, ok) : c \in {call}} : TRUE

Calls(st, t, evictions, ok) ==
    LET call[i \in 0..MaxCalls] ==
            IF i = 0 THEN Call(st, t, evictions) ELSE NextCall(call[i - 1], ok)
    IN  call

topicAllocate(st, t, evictions, ok) ==
    LET calls == Calls(st, t, evictions, ok)
    IN  calls[CHOOSE i \in 0..MaxCalls : calls[i].topic = None].st

\* A topic that becomes known to the node.
AddTopic(st, t, pin, lage, evictions, ok) ==
    LET added == [st EXCEPT !.topics = With(@, t, newTopic(t, pin, lage, evictions))]
    IN  ScheduleUrgent(topicAllocate(added, t, evictions, ok), t)

\* Mutant: no tie-break by the eviction counter.
UpdateStateTied(tp, lage, evictions) == Lage(tp) >= lage

\* Who wins, of the two views of one topic (the second result of UpdateState).
UpdateState(tp, lage, evictions) ==
    \/ Lage(tp) > lage
    \/ Lage(tp) = lage /\ tp.evictions > evictions

onGossipKnownTopic(st, m, ok) ==
    LET t == m.hash
        tp == st.topics[t]
        merged == [st EXCEPT !.topics[t] = MergeLageAt(tp, m.lage)]
        adopted == topicAllocate(merged, t, m.evictions, ok)
        after ==
            IF tp.evictions # m.evictions
            THEN IF UpdateState(tp, m.lage, m.evictions) THEN ScheduleUrgent(merged, t)
                 ELSE IF adopted.topics[t].evictions = m.evictions
                      THEN SchedulePeriodic(adopted, t) ELSE adopted
            ELSE IF m.kind = "gossip" /\ Lage(merged.topics[t]) = m.lage
                 THEN SchedulePeriodic(merged, t) ELSE merged
    IN  [after EXCEPT !.topics[t] = resyncTopicReader(@, ok)]

onGossipUnknownTopic(st, m, ok) ==
    LET sid == ComputeSubjectID(m.hash, m.evictions)
        mine == st.index[sid]
    IN  IF sid \notin DOMAIN st.index THEN st
        ELSE IF leftWins(st.topics[mine], mine, m.lage, m.hash)
             THEN ScheduleUrgent(st, mine)
             ELSE topicAllocate(st, mine, st.topics[mine].evictions + 1, ok)

\* ProcessGossip; topicSubscribeIfMatching comes first.  wanted: the topic
\* matches a pattern of this node.
onGossip(st, m, wanted, ok) ==
    LET known == IF m.hash \notin DOMAIN st.topics /\ wanted
                 THEN AddTopic(st, m.hash, PinNone, m.lage, m.evictions, ok) ELSE st
    IN  IF m.lage \notin LAGEMin..LAGEMax THEN st
        ELSE IF m.hash \in DOMAIN known.topics THEN onGossipKnownTopic(known, m, ok)
        ELSE onGossipUnknownTopic(known, m, ok)

\* The inline gossip of a data message must agree with its subject.
DataConsistent(m) == ComputeSubjectID(m.hash, m.evictions) = m.subjectID

onData(st, m, ok) ==
    IF ~DataConsistent(m) THEN st
    ELSE IF m.hash \in DOMAIN st.topics THEN onGossipKnownTopic(st, m, ok)
    ELSE onGossipUnknownTopic(st, m, ok)
-----------------------------------------------------------------------------
(***************************************************************************)
(* Messages.                                                               *)
(***************************************************************************)
Gossip(kind, n, t) ==
    [kind |-> kind, from |-> n, hash |-> t, lage |-> Lage(cy[n].topics[t]),
     evictions |-> cy[n].topics[t].evictions, subjectID |-> None]

\* m reaches the inboxes of all the nodes in To, or of some of them.
Multicast(box, m, To) ==
    \E S \in SUBSET To :
        /\ Lossy \/ S = To
        /\ inbox' = [n \in Nodes |-> IF n \in S THEN Append(box[n], m) ELSE box[n]]

\* A stuck node reads nothing more, since the goroutine that spins reads the
\* messages (Platform.Spin): what is sent to it is lost.
Others(n) == {o \in Nodes \ {n} : ~stuck[o]}
RoomAt(To) == \A n \in To : Len(inbox[n]) <= MaxInFlight

\* SendGossip run by a scheduled task.  An urgent gossip is broadcast.
SendUrgent(n, t) ==
    /\ ~stuck[n]
    /\ t \in cy[n].urgent /\ RoomAt(Others(n))
    /\ Multicast(inbox, Gossip("gossip", n, t), Others(n))
    /\ cy' = [cy EXCEPT ![n].urgent = @ \ {t}]
    /\ UNCHANGED <<pattern, scouting, stuck, wire, sends, restarts, now>>

\* A counter that has run through one period more than once starts the last
\* one again: only its order against the ratio and its remainder matter.
Count(c) == IF c + 1 = 2 * BroadcastRatio THEN BroadcastRatio ELSE c + 1

\* The period is much longer than the delay of an urgent gossip and than the
\* way of a message: both are over when a periodic gossip is due.
Quiet == \A n \in Nodes : stuck[n] \/ (inbox[n] = <<>> /\ cy[n].urgent = {})

\* A periodic gossip is broadcast or goes to the topic's shard; for the latter
\* SendGossip calls getWriter, which takes g.mu a second time.  The task then
\* schedules itself again.
SendPeriodic(n, t) ==
    LET c == cy[n].topics[t].gossipCounter
    IN  /\ ~stuck[n]
        /\ t \in cy[n].periodic /\ Quiet
        /\ cy' = [cy EXCEPT ![n].topics[t].gossipCounter = Count(c)]
        /\ \/ /\ c < BroadcastRatio \/ c % BroadcastRatio = 0
              /\ Multicast(inbox, Gossip("gossip", n, t), Others(n))
              /\ UNCHANGED stuck
           \/ /\ c >= BroadcastRatio /\ c % BroadcastRatio # 0
              /\ stuck' = [stuck EXCEPT ![n] = TRUE]
              /\ UNCHANGED inbox
        /\ UNCHANGED <<pattern, scouting, wire, sends, restarts, now>>
-----------------------------------------------------------------------------
(***************************************************************************)
(* The application.                                                        *)
(***************************************************************************)
\* Advertise or Subscribe with the name of a topic: findOrCreateTopicResolved.
Create(n, t, pin, ok) ==
    /\ ~stuck[n]
    /\ <<n, t>> \in Creatable /\ t \notin DOMAIN cy[n].topics
    /\ LET evictions == IF pin = PinNone THEN 0 ELSE EvictionsMax - pin
       IN  cy' = [cy EXCEPT ![n] = AddTopic(@, t, pin, LAGEMin, evictions, ok)]
    /\ UNCHANGED <<pattern, scouting, stuck, wire, sends, inbox, restarts, now>>

Patterned == {n \in Nodes : \E t \in Topics : <<n, t>> \in Matching}
Scout(n) == [kind |-> "scout", from |-> n]

\* Subscribe with a pattern.  If the scout cannot be sent it stays pending.
PatternSubscribe(n) ==
    /\ n \in Patterned \ pattern
    /\ ~stuck[n]
    /\ pattern' = pattern \cup {n}
    /\ \/ /\ RoomAt(Others(n)) /\ Multicast(inbox, Scout(n), Others(n))
          /\ UNCHANGED scouting
       \/ scouting' = scouting \cup {n} /\ UNCHANGED inbox
    /\ UNCHANGED <<cy, stuck, wire, sends, restarts, now>>

\* sendPendingScouts, called by SpinUntil; a failure changes nothing.
RetryScout(n) ==
    /\ n \in scouting /\ ~stuck[n]
    /\ RoomAt(Others(n)) /\ Multicast(inbox, Scout(n), Others(n))
    /\ scouting' = scouting \ {n}
    /\ UNCHANGED <<cy, pattern, stuck, wire, sends, restarts, now>>

\* Publisher.buildWire: the header is composed from the topic's state ...
BuildWire(n, t) ==
    /\ sends[n] < Publishing
    /\ t \in DOMAIN cy[n].topics
    /\ wire' = [wire EXCEPT ![n] = Gossip("data", n, t)]
    /\ UNCHANGED <<cy, pattern, scouting, stuck, sends, inbox, restarts, now>>

\* ... and sendWire takes the subject-ID the topic has now; a reliable message
\* is sent again with the same header.
SendWire(n) ==
    /\ wire[n] # None
    /\ RoomAt(Others(n))
    /\ LET sid == cy[n].topics[wire[n].hash].subjectID
       IN  Multicast(inbox, [wire[n] EXCEPT !.subjectID = sid], Others(n))
    /\ sends' = [sends EXCEPT ![n] = @ + 1]
    /\ wire' = [wire EXCEPT ![n] = IF sends'[n] < Publishing THEN @ ELSE None]
    /\ UNCHANGED <<cy, pattern, scouting, stuck, restarts, now>>

NewCy == [topics |-> Empty, index |-> Empty, urgent |-> {}, periodic |-> {}]

\* Destroy, or a crash, and New.
Restart(n) ==
    /\ restarts < MaxRestarts
    /\ restarts' = restarts + 1
    /\ cy' = [cy EXCEPT ![n] = NewCy]
    /\ pattern' = pattern \ {n}
    /\ scouting' = scouting \ {n}
    /\ stuck' = [stuck EXCEPT ![n] = FALSE]
    /\ wire' = [wire EXCEPT ![n] = None]
    /\ UNCHANGED <<sends, inbox, now>>
-----------------------------------------------------------------------------
(***************************************************************************)
(* Reception.                                                              *)
(***************************************************************************)
\* Mutant: the pattern of the node that answers is matched.
RepliesOwnPattern(n, m) ==
    LET known == {t \in DOMAIN cy[n].topics : <<n, t>> \in Matching}
    IN  SetToSeq({Gossip("unicast", n, t) : t \in known})

\* onScout: one unicast gossip for every matching topic.
Replies(n, m) ==
    LET known == {t \in DOMAIN cy[n].topics : <<m.from, t>> \in Matching}
    IN  SetToSeq({Gossip("unicast", n, t) : t \in known})

Listening(n, sid) == \E t \in DOMAIN cy[n].topics : cy[n].topics[t].reader = sid

\* The message is taken from the inbox, or stays there to be received again.
Receive(n, i, again, ok) ==
    LET m == inbox[n][i]
        wanted == n \in pattern /\ <<n, m.hash>> \in Matching
        left == IF again THEN inbox ELSE [inbox EXCEPT ![n] = RemoveAt(@, i)]
    IN  /\ i \in DOMAIN inbox[n] /\ ~stuck[n]
        /\ \/ /\ m.kind = "scout"
              /\ \E replies \in {Replies(n, m)} \cup (IF Lossy THEN {<<>>} ELSE {}) :
                    inbox' = [left EXCEPT ![m.from] = @ \o replies]
              /\ UNCHANGED cy
           \/ /\ m.kind \in {"gossip", "unicast"}
              /\ cy' = [cy EXCEPT ![n] = onGossip(@, m, wanted, ok)]
              /\ inbox' = left
           \/ /\ m.kind = "data" /\ Listening(n, m.subjectID)
              /\ cy' = [cy EXCEPT ![n] = onData(@, m, ok)]
              /\ inbox' = left
           \/ /\ m.kind = "data" /\ ~Listening(n, m.subjectID)
              /\ inbox' = left
              /\ UNCHANGED cy
        /\ UNCHANGED <<pattern, scouting, stuck, wire, sends, restarts, now>>

Tick ==
    /\ now < MaxTime
    /\ now' = now + 1
    /\ UNCHANGED <<cy, pattern, scouting, stuck, wire, sends, inbox, restarts>>
-----------------------------------------------------------------------------
Init ==
    /\ cy = [n \in Nodes |-> NewCy]
    /\ pattern = {} /\ scouting = {}
    /\ stuck = [n \in Nodes |-> FALSE]
    /\ wire = [n \in Nodes |-> None]
    /\ sends = [n \in Nodes |-> 0]
    /\ inbox = [n \in Nodes |-> <<>>]
    /\ restarts = 0
    /\ now = 0

MayFail == IF Lossy THEN BOOLEAN ELSE {TRUE}
MayRepeat == IF Lossy THEN BOOLEAN ELSE {FALSE}

Next ==
    \/ \E n \in Nodes, t \in Topics :
        \/ \E pin \in Pins \cup {PinNone}, ok \in MayFail : Create(n, t, pin, ok)
        \/ SendUrgent(n, t)
        \/ SendPeriodic(n, t)
        \/ BuildWire(n, t)
    \/ \E n \in Nodes :
        \/ PatternSubscribe(n)
        \/ RetryScout(n)
        \/ SendWire(n)
        \/ Restart(n)
        \/ \E i \in DOMAIN inbox[n], again \in MayRepeat, ok \in MayFail :
                Receive(n, i, again, ok)
    \/ Tick

Spec == Init /\ [][Next]_vars

\* A node spins: its due tasks run, pending scouts are retried and the message
\* that has waited longest is processed.
FairSpec ==
    /\ Spec
    /\ \A n \in Nodes :
        /\ WF_vars(Receive(n, 1, FALSE, TRUE))
        /\ WF_vars(RetryScout(n))
        /\ \A t \in Topics : WF_vars(SendUrgent(n, t))
-----------------------------------------------------------------------------
Known(n) == DOMAIN cy[n].topics

\* "Invariant: every non-pinned topic is the unique occupant of its
\* subject-ID" (consensus_test.go), as far as the test looks: an entry of the
\* subject-ID index is a topic of this node with that very subject-ID.
IndexSound ==
    \A n \in Nodes : \A s \in DOMAIN cy[n].index :
        /\ cy[n].index[s] \in Known(n)
        /\ cy[n].topics[cy[n].index[s]].subjectID = s

\* An open reader is where those who agree with its node on the topic's eviction
\* counter, the node itself among them, publish the topic: after any chain of
\* evictions, pins, gossips and failures to create a reader (resyncTopicReader,
\* topicAllocate).
ReaderFollowsSubject ==
    \A n, o \in Nodes : \A t \in Known(n) \cap Known(o) :
        cy[n].topics[t].evictions = cy[o].topics[t].evictions
            => cy[n].topics[t].reader \in {None, cy[o].topics[t].subjectID}

\* A node that is stuck takes no part any more.
Running == {n \in Nodes : ~stuck[n]}

\* The running nodes that know a topic come to agree on its eviction counter, and
\* with it on its subject-ID, whatever collisions, restarts and crossing gossips
\* there were before and whoever got stuck (onGossipKnownTopic, topicAllocate).
EventualAgreement ==
    <>[](\A n, o \in Running : \A t \in Known(n) \cap Known(o) :
            cy[n].topics[t].evictions = cy[o].topics[t].evictions)

\* Running nodes with one topic each come to use different subject-IDs, unless
\* the application pinned them to one (onGossipUnknownTopic): every collision
\* across the network is resolved, save with nodes that are stuck.
EventuallyDistinct ==
    <>[](\A n, o \in Running : \A t \in Known(n), u \in Known(o) :
            t # u /\ ~cy[n].topics[t].pinned /\ ~cy[o].topics[u].pinned =>
                cy[n].topics[t].subjectID # cy[o].topics[u].subjectID)

\* A running node with a pattern subscription comes to know every topic that
\* matches it and that a running node knows (sendScout, onScout,
\* topicSubscribeIfMatching).
PatternLearns ==
    <>[](\A n \in pattern \cap Running : \A o \in Running : \A t \in Known(o) :
            <<n, t>> \in Matching => t \in Known(n))
=============================================================================
