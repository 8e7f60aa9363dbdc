------------------------------ MODULE CanardRx ------------------------------
(***************************************************************************)
(* The reception pipeline of one Canard instance (rx.go, canard.go):       *)
(* subscriptions, the per-remote sessions with their reassembly slots, and *)
(* the animation list by which Poll reclaims them.                         *)
(*                                                                         *)
(* A session is named <<port, remote>>.  The index trees are sets of keys; *)
(* their shape is not modelled, so a lookup that the code ends at whatever *)
(* node it visited last has a choice (cavlFind).                           *)
(*                                                                         *)
(* The bus is the environment.  Each remote publishes v1 messages; frame i *)
(* of the k-th transfer is [id |-> k, index |-> i].  It may be lost, and   *)
(* it may be received again (CAN retransmission) as long as no other frame *)
(* of that remote has been on the bus and TransferIDTimeout has not        *)
(* elapsed.  A slot's payload is the sequence of the frames written to it. *)
(***************************************************************************)
EXTENDS Integers, Sequences, FiniteSets, FiniteSetsExt, SequencesExt

CONSTANTS
    Ports,              \* port-IDs of messages, numbers
    Remotes,            \* remote node-IDs, numbers
    Prios,              \* priorities; PrioCount is 8 in the code
    TransferIDModulo,   \* 32 in the code
    TransferIDTimeout,  \* sub.TransferIDTimeout
    RxSessionTimeout,   \* rxSessionTimeout
    MaxFrames,          \* bound: frames of a transfer
    MaxTransfers,       \* bound: transfers of all remotes
    LastSend,           \* bound: the time at which the remotes fall silent
    MaxTime,            \* bound: the last value of the clock
    NoSlot,             \* no reassembly in progress
    NoFrame             \* nothing to be received again

ASSUME RxAssumption ==
    /\ Ports \subseteq Nat /\ Remotes \subseteq Nat /\ Prios \subseteq Nat
    /\ TransferIDModulo \in Nat \ {0}
    /\ TransferIDTimeout \in Nat /\ RxSessionTimeout \in Nat
    /\ MaxFrames \in Nat \ {0} /\ MaxTransfers \in Nat
    /\ LastSend \in Nat /\ MaxTime \in Nat

\* A reassembly slot, and the frame that a remote sent last.
Slot == [startTs : Nat, transferID : Nat, expectedToggle : BOOLEAN,
         payload : Seq([id : Nat \ {0}, index : Nat \ {0}])]

Frame == [id : Nat \ {0}, index : Nat \ {0}, port : Ports, src : Remotes, priority : Prios,
          transferID : 0..(TransferIDModulo - 1), start : BOOLEAN, end : BOOLEAN, toggle : BOOLEAN]

ASSUME NothingAssumption == NoSlot \notin Slot /\ NoFrame \notin [frame : Frame, ts : Nat]

VARIABLES
    subscribed,     \* rx.subscriptions: the ports with a subscription
    sessions,       \* the sessions of all subscriptions, by <<port, remote>>
    animation,      \* rx.listSessionByAnimation
    now,            \* Platform.Now and the timestamp of the frames ingested
    sent,           \* the transfers begun by the remotes
    progress,       \* how many frames of each have been on the bus
    intact,         \* transfers that must be delivered once they are complete
    last,           \* the last frame received from each remote
    delivered       \* messages passed to OnMessage of the present subscriptions

rxVars == <<subscribed, sessions, animation, delivered>>
busVars == <<sent, progress, intact, last>>
vars == <<subscribed, sessions, animation, delivered, sent, progress, intact, last, now>>

bigBang == -(MaxTime + TransferIDTimeout + 1)   \* before every timestamp
Larger(a, b) == IF a > b THEN a ELSE b
-----------------------------------------------------------------------------
(***************************************************************************)
(* Lookup.                                                                 *)
(***************************************************************************)
\* cavlFind on a tree with the keys S: k itself if it is there, otherwise the
\* last node visited, which is the predecessor or the successor of k.
cavlFind(S, k) ==
    LET below == {x \in S : x < k}
        above == {x \in S : x > k}
    IN  IF k \in S THEN {k}
        ELSE {x \in below : \A y \in below : y <= x} \cup
             {x \in above : \A y \in above : x <= y}

Sessions == DOMAIN sessions
RemotesOf(p) == {n \in Remotes : <<p, n>> \in Sessions}
-----------------------------------------------------------------------------
(***************************************************************************)
(* One session.                                                            *)
(***************************************************************************)
rxSlotNew(fr) ==
    [startTs |-> now, transferID |-> fr.transferID, expectedToggle |-> TRUE,
     payload |-> <<>>]

rxSlotAdvance(slot, fr) ==
    [slot EXCEPT !.payload = Append(@, [id |-> fr.id, index |-> fr.index]),
                 !.expectedToggle = ~@]

\* Mutant: a new session counts as admitted at time zero.
rxSessionFactoryZero ==
    [slots |-> [p \in Prios |-> NoSlot], lastAdmissionTs |-> 0,
     lastAdmittedTransferID |-> 0, lastAdmittedPriority |-> 0]

rxSessionFactory ==
    [slots |-> [p \in Prios |-> NoSlot], lastAdmissionTs |-> bigBang,
     lastAdmittedTransferID |-> 0, lastAdmittedPriority |-> 0]

\* Mutant: slots live for the transfer-ID timeout only.
rxSessionCleanupEarly(ses) ==
    [ses EXCEPT !.slots = [p \in Prios |->
        IF ses.slots[p] # NoSlot /\ ses.slots[p].startTs < now - TransferIDTimeout
        THEN NoSlot ELSE ses.slots[p]]]

\* Mutant: an abandoned slot is never freed.
rxSessionCleanupNever(ses) == ses

rxSessionCleanup(ses) ==
    LET deadline == now - Larger(RxSessionTimeout, TransferIDTimeout)
    IN  [ses EXCEPT !.slots = [p \in Prios |->
            IF ses.slots[p] # NoSlot /\ ses.slots[p].startTs < deadline
            THEN NoSlot ELSE ses.slots[p]]]

\* Mutant: stale at the timeout instead of after it.
rxSessionSolveAdmissionAtTimeout(ses, fr) ==
    IF fr.start
    THEN \/ fr.transferID # ses.lastAdmittedTransferID
         \/ fr.priority # ses.lastAdmittedPriority
         \/ now - TransferIDTimeout >= ses.lastAdmissionTs
    ELSE /\ ses.slots[fr.priority] # NoSlot
         /\ ses.slots[fr.priority].transferID = fr.transferID
         /\ ses.slots[fr.priority].expectedToggle = fr.toggle

\* With one interface a frame is always affine.
rxSessionSolveAdmission(ses, fr) ==
    LET slot == ses.slots[fr.priority]
        fresh == \/ fr.transferID # ses.lastAdmittedTransferID
                 \/ fr.priority # ses.lastAdmittedPriority
        stale == now - TransferIDTimeout > ses.lastAdmissionTs
    IN  IF fr.start
        THEN fresh \/ stale
        ELSE /\ slot # NoSlot
             /\ slot.transferID = fr.transferID
             /\ slot.expectedToggle = fr.toggle

\* The CRC of a reassembled payload is right iff it is that of one transfer.
crcOK(payload) ==
    \A i \in 1..Len(payload) : payload[i] = [id |-> payload[1].id, index |-> i]

\* An admitted start frame takes over the slot of its priority.
Begin(ses, fr) ==
    LET freed == [ses EXCEPT !.slots[fr.priority] = NoSlot]
        open == IF fr.end THEN freed
                ELSE [rxSessionCleanup(freed) EXCEPT !.slots[fr.priority] = rxSlotNew(fr)]
    IN  [open EXCEPT !.lastAdmissionTs = now,
                     !.lastAdmittedTransferID = fr.transferID,
                     !.lastAdmittedPriority = fr.priority]

\* rxSessionAccept: the session afterwards, and what it passes to OnMessage.
Accepted(ses, fr) ==
    LET p == fr.priority
        slot == rxSlotAdvance(ses.slots[p], fr)
    IN  IF ses.slots[p] = NoSlot THEN ses
        ELSE [ses EXCEPT !.slots[p] = IF fr.end THEN NoSlot ELSE slot]

Message(ses, fr) ==
    LET slot == rxSlotAdvance(ses.slots[fr.priority], fr)
    IN  IF ses.slots[fr.priority] = NoSlot
        THEN <<[id |-> fr.id, src |-> fr.src]>>
        ELSE IF fr.end /\ crcOK(slot.payload)
             THEN <<[id |-> slot.payload[1].id, src |-> fr.src]>>
             ELSE <<>>
-----------------------------------------------------------------------------
(***************************************************************************)
(* IngestFrame.                                                            *)
(***************************************************************************)
WithSession(key, ses) ==
    [k \in Sessions \cup {key} |-> IF k = key THEN ses ELSE sessions[k]]

Deliver(p, messages) ==
    delivered' = [delivered EXCEPT ![p] = @ \o messages]

\* Mutant: a member that is already listed keeps its place.
EnlistTailOnce(key) ==
    IF key \in ToSet(animation) THEN animation ELSE Append(animation, key)

\* delist, of the members K: the others keep their order.
Delist(list, K) ==
    LET kept == {i \in DOMAIN list : list[i] \notin K}
        place(i) == Cardinality({j \in kept : j <= i})
    IN  [n \in 1..Cardinality(kept) |-> list[CHOOSE i \in kept : place(i) = n]]

\* enlistTail moves a member that is already listed.
EnlistTail(key) == Append(Delist(animation, {key}), key)

UpdateStart(p, fr) ==
    LET key == <<p, fr.src>>
        ses == IF key \in Sessions THEN sessions[key] ELSE rxSessionFactory
        open == Begin(ses, fr)
    IN  IF rxSessionSolveAdmission(ses, fr)
        THEN /\ sessions' = WithSession(key, Accepted(open, fr))
             /\ animation' = EnlistTail(key)
             /\ Deliver(p, Message(open, fr))
        ELSE UNCHANGED <<sessions, animation, delivered>>

UpdateContinuation(p, n, fr) ==
    LET key == <<p, n>>
        ses == sessions[key]
    IN  IF rxSessionSolveAdmission(ses, fr)
        THEN /\ sessions' = WithSession(key, Accepted(ses, fr))
             /\ Deliver(p, Message(ses, fr))
             /\ UNCHANGED animation
        ELSE UNCHANGED <<sessions, animation, delivered>>

rxSessionUpdate(p, fr) ==
    \/ fr.start /\ UpdateStart(p, fr)
    \/ ~fr.start /\ \E n \in cavlFind(RemotesOf(p), fr.src) : UpdateContinuation(p, n, fr)
    \/ ~fr.start /\ RemotesOf(p) = {} /\ UNCHANGED <<sessions, animation, delivered>>

IngestFrame(fr) ==
    /\ \/ \E p \in cavlFind(subscribed, fr.port) : rxSessionUpdate(p, fr)
       \/ subscribed = {} /\ UNCHANGED <<sessions, animation, delivered>>
    /\ UNCHANGED subscribed
-----------------------------------------------------------------------------
(***************************************************************************)
(* The application and Poll.                                               *)
(***************************************************************************)
\* With a subscription already there rxSubscribe returns it and changes
\* nothing.
Subscribe(p) ==
    /\ p \notin subscribed
    /\ subscribed' = subscribed \cup {p}
    /\ UNCHANGED <<sessions, animation, delivered, busVars, now>>

Forget(K) ==
    /\ sessions' = [k \in Sessions \ K |-> sessions[k]]
    /\ animation' = Delist(animation, K)

Unsubscribe(p) ==
    /\ p \in subscribed
    /\ subscribed' = subscribed \ {p}
    /\ Forget({k \in Sessions : k[1] = p})
    /\ delivered' = [delivered EXCEPT ![p] = <<>>]
    /\ intact' = {k \in intact : sent[k].port # p}
    /\ UNCHANGED <<sent, progress, last, now>>

\* Poll looks at the session that was admitted least recently.
Poll ==
    /\ animation # <<>>
    /\ LET key == Head(animation)
           ses == rxSessionCleanup(sessions[key])
       IN  IF /\ \A p \in Prios : ses.slots[p] = NoSlot
              /\ ses.lastAdmissionTs < now - TransferIDTimeout
           THEN Forget({key})
           ELSE sessions' = WithSession(key, ses) /\ UNCHANGED animation
    /\ UNCHANGED <<subscribed, delivered, busVars, now>>
-----------------------------------------------------------------------------
(***************************************************************************)
(* The bus.                                                                *)
(***************************************************************************)
Init ==
    /\ subscribed = {}
    /\ sessions = [k \in {} |-> k]
    /\ animation = <<>>
    /\ delivered = [p \in Ports |-> <<>>]
    /\ now = 0
    /\ sent = <<>>
    /\ progress = <<>>
    /\ intact = {}
    /\ last = [n \in Remotes |-> NoFrame]

Transfers == DOMAIN sent

FrameOf(id, tr, i) ==
    [id |-> id, index |-> i, port |-> tr.port, src |-> tr.src,
     priority |-> tr.priority, transferID |-> tr.transferID,
     start |-> i = 1, end |-> i = tr.frames, toggle |-> i % 2 = 1]

\* The receiver is allowed to take a transfer for a repetition of an earlier
\* one only if the two agree in transfer-ID and priority within the timeout,
\* and in the port unless the earlier one went to a neighbour's.
Distinguishable(tr) ==
    \A k \in Transfers :
        sent[k].src = tr.src /\ sent[k].priority = tr.priority
            /\ sent[k].transferID = tr.transferID
            /\ (sent[k].port = tr.port \/ sent[k].strayed)
        => now - TransferIDTimeout > sent[k].heardTs

\* A frame of a port without a subscription goes to a neighbour's (cavlFind),
Astray(port) == port \notin subscribed /\ subscribed # {}

\* and so does one of a remote without a session; the transfers it may damage there.
Strayed(fr) ==
    IF fr.port \in subscribed /\ (fr.start \/ <<fr.port, fr.src>> \in Sessions) THEN {}
    ELSE {k \in Transfers : sent[k].priority = fr.priority}

\* A frame is on the bus: it is lost or received.
OnBus(fr) ==
    \/ /\ last' = [last EXCEPT ![fr.src] = NoFrame]
       /\ UNCHANGED rxVars
    \/ /\ last' = [last EXCEPT ![fr.src] = [frame |-> fr, ts |-> now]]
       /\ IngestFrame(fr)

Lost(fr) == last'[fr.src] = NoFrame

SendStart(port, src, prio, n) ==
    LET number == Cardinality({k \in Transfers : sent[k].port = port /\ sent[k].src = src})
        tr == [port |-> port, src |-> src, priority |-> prio, frames |-> n,
               transferID |-> number % TransferIDModulo,
               startTs |-> now, heardTs |-> now, strayed |-> Astray(port)]
        id == Len(sent) + 1
        fr == FrameOf(id, tr, 1)
    IN  /\ now <= LastSend
        /\ Len(sent) < MaxTransfers
        /\ sent' = Append(sent, tr)
        /\ progress' = Append(progress, 1)
        /\ OnBus(fr)
        /\ intact' = IF ~Lost(fr) /\ port \in subscribed /\ Distinguishable(tr)
                     THEN intact \cup {id}
                     ELSE IF Lost(fr) THEN intact ELSE intact \ Strayed(fr)
        /\ UNCHANGED now

\* A transfer goes on unless the remote has begun another one with the same
\* CAN ID, that is, has given this one up.
SendNext(id) ==
    LET tr == sent[id]
        i == progress[id] + 1
        fr == FrameOf(id, tr, i)
    IN  /\ now <= LastSend
        /\ i <= tr.frames
        /\ \A k \in Transfers : k > id =>
            ~(sent[k].port = tr.port /\ sent[k].src = tr.src /\ sent[k].priority = tr.priority)
        /\ progress' = [progress EXCEPT ![id] = i]
        /\ OnBus(fr)
        /\ intact' = intact \ (IF Lost(fr) THEN {id} ELSE Strayed(fr))
        /\ UNCHANGED <<sent, now>>

\* A frame is received again.
Duplicate(n) ==
    LET fr == last[n].frame
        again == [sent[fr.id] EXCEPT !.heardTs = now, !.strayed = @ \/ Astray(fr.port)]
    IN  /\ last[n] # NoFrame
        /\ now - last[n].ts <= TransferIDTimeout
        /\ IngestFrame(fr)
        /\ sent' = IF fr.start THEN [sent EXCEPT ![fr.id] = again] ELSE sent
        /\ intact' = intact \ Strayed(fr)
        /\ UNCHANGED <<progress, last, now>>

\* A transfer that takes longer than the session timeout may be given up.
Tick ==
    /\ now < MaxTime
    /\ now' = now + 1
    /\ intact' = {k \in intact :
            \/ progress[k] = sent[k].frames
            \/ sent[k].startTs >= now' - Larger(RxSessionTimeout, TransferIDTimeout)}
    /\ UNCHANGED <<rxVars, sent, progress, last>>

Next ==
    \/ \E p \in Ports : Subscribe(p) \/ Unsubscribe(p)
    \/ Poll
    \/ \E p \in Ports, n \in Remotes, prio \in Prios, f \in 1..MaxFrames : SendStart(p, n, prio, f)
    \/ \E id \in Transfers : SendNext(id)
    \/ \E n \in Remotes : Duplicate(n)
    \/ Tick

Spec == Init /\ [][Next]_vars

\* Poll "must be called periodically" (canard.go); the clock advances.
FairSpec == Spec /\ WF_vars(Poll) /\ WF_vars(Tick)
-----------------------------------------------------------------------------
TypeOK ==
    /\ subscribed \subseteq Ports
    /\ Sessions \subseteq Ports \X Remotes
    /\ \A k \in Sessions :
        /\ \A p \in Prios : sessions[k].slots[p] = NoSlot \/ sessions[k].slots[p] \in Slot
        /\ sessions[k].lastAdmissionTs \in Int
        /\ sessions[k].lastAdmittedTransferID \in 0..(TransferIDModulo - 1)
        /\ sessions[k].lastAdmittedPriority \in Prios \cup {0}
    /\ animation \in Seq(Ports \X Remotes)
    /\ intact \subseteq Transfers

\* What lets Poll look at the head only: the animation list holds every
\* session exactly once, of installed subscriptions only, least recently
\* admitted first (enlistTail in rxSessionUpdate, rxSessionDestroy).
AnimationOrdered ==
    /\ TypeOK
    /\ ToSet(animation) = Sessions
    /\ \A i, j \in DOMAIN animation : i < j =>
        /\ animation[i] # animation[j]
        /\ sessions[animation[i]].lastAdmissionTs <= sessions[animation[j]].lastAdmissionTs
    /\ \A k \in Sessions : k[1] \in subscribed

\* No message is delivered twice: a frame repeated within the transfer-ID
\* timeout is recognised whatever was received, preempted, cleaned up or
\* reclaimed by Poll in between.
AtMostOnce ==
    \A p \in Ports : \A i, j \in DOMAIN delivered[p] :
        i # j => delivered[p][i].id # delivered[p][j].id

\* A transfer all of whose frames were received in time is delivered, however
\* the frames of other priorities, duplicates, losses in other transfers, slot
\* cleanup and session reclaiming interleave with it, unless a frame that strayed
\* from another port or remote got between.
NothingLost ==
    \A k \in intact : progress[k] = sent[k].frames =>
        \E i \in DOMAIN delivered[sent[k].port] : delivered[sent[k].port][i].id = k

\* Once the remotes are silent every session is reclaimed.
SessionsReclaimed == <>[](Sessions = {})
=============================================================================
