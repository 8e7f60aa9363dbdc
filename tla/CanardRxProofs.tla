---------------------------- MODULE CanardRxProofs ----------------------------
(***************************************************************************)
(* Proofs about CanardRx, for all ports, remotes, priorities, timeouts and *)
(* bounds: the animation list is a list of the sessions in the order of    *)
(* their admission, no message is delivered twice, and a transfer whose    *)
(* frames all arrive in time is delivered.                                 *)
(*                                                                         *)
(* Three kinds of step are told apart.  A frame on the bus (OnAir) starts  *)
(* a session's slot, extends one or is ignored (Starts, Continues,         *)
(* Ignored).  Poll, Unsubscribe, Subscribe and Tick only forget (Forgets): *)
(* they free slots, sessions and messages.  The invariant is RxInv.        *)
(***************************************************************************)
EXTENDS CanardRx, FiniteSetTheorems, SequenceTheorems, TLAPS

-----------------------------------------------------------------------------
(* The animation list.                                                     *)

\* The members of t come in the order they have in list.
KeepsOrder(t, list) ==
    \A n, m \in DOMAIN t : n < m =>
        \E i, j \in DOMAIN list : i < j /\ list[i] = t[n] /\ list[j] = t[m]

LEMMA DelistFacts ==
    ASSUME NEW S, NEW list \in Seq(S), NEW K, NEW t, t = Delist(list, K)
    PROVE  /\ t \in Seq(S)
           /\ ToSet(t) = ToSet(list) \ K
           /\ KeepsOrder(t, list)
<1>1. PICK kept : kept = {i \in DOMAIN list : list[i] \notin K}
    OBVIOUS
<1>2. PICK c : c = Cardinality(kept)
    OBVIOUS
<1>3. PICK place : place = [i \in kept |-> Cardinality({j \in kept : j <= i})]
    OBVIOUS
<1>4. DOMAIN list = 1..Len(list) /\ Len(list) \in Nat /\ \A i \in DOMAIN list : list[i] \in S
    OBVIOUS
<1>5. kept \subseteq Nat /\ IsFiniteSet(kept) /\ c \in Nat
    <2>1. kept \in SUBSET (1..Len(list))
        BY <1>1, <1>4
    <2>2. IsFiniteSet(1..Len(list))
        BY <1>4, FS_Interval
    <2>3. IsFiniteSet(kept)
        BY <2>1, <2>2, FS_Subset
    <2> QED
        BY <1>2, <1>4, <2>1, <2>3, FS_CardinalityType
<1>0. \A i \in kept : i \in Nat
    BY <1>5
<1>6. ASSUME NEW i \in kept PROVE place[i] \in 1..c
    <2>1. PICK below \in SUBSET kept : below = {j \in kept : j <= i}
        OBVIOUS
    <2>2. IsFiniteSet(below) /\ Cardinality(below) <= c
        BY <1>2, <1>5, FS_Subset
    <2>6. Cardinality(below) \in Nat
        BY <2>2, FS_CardinalityType
    <2>3. below # {}
        BY <1>5, <2>1
    <2>4. Cardinality(below) # 0
        BY <2>2, <2>3, FS_EmptySet
    <2>5. Cardinality(below) \in 1..c
        BY <1>5, <2>2, <2>4, <2>6
    <2> QED
        BY <1>3, <2>1, <2>5
<1>7. ASSUME NEW i \in kept, NEW j \in kept, i < j PROVE place[i] < place[j]
    <2>1. PICK below : below = {k \in kept : k <= i}
        OBVIOUS
    <2>2. PICK more : more = {k \in kept : k <= j}
        OBVIOUS
    <2>3. below \in SUBSET more /\ j \in more /\ j \notin below
        <3>1. i \in Nat /\ j \in Nat
            BY <1>0
        <3> QED
            <4>1. \A k \in below : k \in more
                BY <1>0, <1>7, <2>1, <2>2, <3>1
            <4>2. j \in more /\ j \notin below
                BY <1>7, <2>1, <2>2, <3>1
            <4> QED
                BY <4>1, <4>2
    <2>4. IsFiniteSet(more) /\ Cardinality(more) \in Nat
        <3>1. more \in SUBSET kept
            BY <2>2
        <3>2. IsFiniteSet(more)
            BY <1>5, <3>1, FS_Subset
        <3> QED
            BY <3>2, FS_CardinalityType
    <2>5. Cardinality(below) <= Cardinality(more) /\ Cardinality(below) # Cardinality(more)
        BY <2>3, <2>4, FS_Subset
    <2>6. Cardinality(below) \in Nat
        <3>1. IsFiniteSet(below)
            BY <2>3, <2>4, FS_Subset
        <3> QED
            BY <3>1, FS_CardinalityType
    <2>7. Cardinality(below) < Cardinality(more)
        BY <2>4, <2>5, <2>6
    <2> QED
        BY <1>3, <2>1, <2>2, <2>7
<1>8. \A i, j \in kept : place[i] = place[j] => i = j
    BY <1>5, <1>6, <1>7
<1>9. \A n \in 1..c : \E i \in kept : place[i] = n
    <2>1. place \in [kept -> 1..c]
        BY <1>3, <1>6
    <2>2. place \in Injection(kept, 1..c)
        BY <1>8, <2>1 DEF Injection, IsInjective
    <2>3. IsFiniteSet(1..c) /\ Cardinality(1..c) = c
        BY <1>5, FS_Interval
    <2>4. place \in Surjection(kept, 1..c)
        BY <1>2, <2>2, <2>3, FS_Injection, Zenon
    <2> QED
        BY <2>4 DEF Surjection
<1>10. PICK at : at = [n \in 1..c |-> CHOOSE i \in kept : place[i] = n]
    OBVIOUS
<1>11. \A n \in 1..c : at[n] \in kept /\ place[at[n]] = n
    BY <1>9, <1>10
<1>13. t = [n \in 1..c |-> list[at[n]]]
    <2> DEFINE ranked(n) == CHOOSE i \in kept : Cardinality({j \in kept : j <= i}) = n
    <2>1. \A n \in 1..c : at[n] = ranked(n)
        BY <1>3, <1>10
    <2>2. t = [n \in 1..c |-> list[ranked(n)]]
        BY <1>1, <1>2 DEF Delist
    <2> HIDE DEF ranked
    <2> QED
        BY <2>1, <2>2
<1>14. t \in Seq(S)
    BY <1>1, <1>4, <1>5, <1>11, <1>13
<1>15. ToSet(t) = ToSet(list) \ K
    <2>1. \A x \in ToSet(t) : x \in ToSet(list) \ K
        BY <1>1, <1>11, <1>13 DEF ToSet
    <2>2. ASSUME NEW x \in ToSet(list) \ K PROVE x \in ToSet(t)
        <3>1. PICK i \in kept : list[i] = x
            BY <1>1 DEF ToSet
        <3>2. place[i] \in 1..c /\ at[place[i]] = i
            BY <1>6, <1>8, <1>11
        <3> QED
            BY <1>13, <3>1, <3>2 DEF ToSet
    <2> QED
        BY <2>1, <2>2
<1>16. ASSUME NEW n \in DOMAIN t, NEW m \in DOMAIN t, n < m
       PROVE  \E i, j \in DOMAIN list : i < j /\ list[i] = t[n] /\ list[j] = t[m]
    <2>1. n \in 1..c /\ m \in 1..c
        BY <1>13
    <2>2. at[n] < at[m]
        <3>1. at[n] # at[m] /\ ~(at[m] < at[n])
            BY <1>7, <1>11, <1>16, <2>1
        <3> QED
            BY <1>0, <1>11, <2>1, <3>1
    <2> QED
        BY <1>1, <1>11, <1>13, <2>1, <2>2
<1> QED
    BY <1>14, <1>15, <1>16 DEF KeepsOrder

\* longer is list with key moved to, or put at, its end.
EndsWith(longer, list, key) ==
    /\ ToSet(longer) = ToSet(list) \cup {key}
    /\ \A n, m \in DOMAIN longer : n < m =>
        /\ longer[n] # key
        /\ \/ longer[m] = key /\ longer[n] \in ToSet(list)
           \/ \E i, j \in DOMAIN list :
                i < j /\ list[i] = longer[n] /\ list[j] = longer[m]

LEMMA EnlistFacts ==
    ASSUME NEW S, NEW list \in Seq(S), NEW key \in S, NEW longer
    PROVE  longer = Append(Delist(list, {key}), key) =>
                longer \in Seq(S) /\ EndsWith(longer, list, key)
<1>1. HAVE longer = Append(Delist(list, {key}), key)
<1>2. PICK K : K = {key}
    OBVIOUS
<1>3. PICK t : t = Delist(list, K)
    OBVIOUS
<1>8. t \in Seq(S) /\ ToSet(t) = ToSet(list) \ {key} /\ KeepsOrder(t, list)
    <2>1. t \in Seq(S) /\ ToSet(t) = ToSet(list) \ K /\ KeepsOrder(t, list)
        BY <1>3, DelistFacts
    <2> QED
        BY <1>2, <2>1
<1>9. longer = Append(t, key)
    BY <1>1, <1>2, <1>3
<1>4. /\ Len(t) \in Nat /\ DOMAIN t = 1..Len(t)
      /\ longer \in Seq(S) /\ DOMAIN longer = 1..(Len(t) + 1)
      /\ \A i \in 1..Len(t) : longer[i] = t[i]
      /\ longer[Len(t) + 1] = key
    BY <1>8, <1>9
<1>5. ToSet(longer) = ToSet(t) \cup {key}
    <2>1. \A x \in ToSet(longer) : x \in ToSet(t) \cup {key}
        BY <1>4 DEF ToSet
    <2>2. \A x \in ToSet(t) : x \in ToSet(longer)
        BY <1>4 DEF ToSet
    <2>3. key \in ToSet(longer)
        BY <1>4 DEF ToSet
    <2> QED
        BY <2>1, <2>2, <2>3
<1>6. ASSUME NEW n \in DOMAIN longer, NEW m \in DOMAIN longer, n < m
      PROVE  /\ longer[n] # key
             /\ \/ longer[m] = key /\ longer[n] \in ToSet(list)
                \/ \E i, j \in DOMAIN list :
                        i < j /\ list[i] = longer[n] /\ list[j] = longer[m]
    <2>1. n \in DOMAIN t /\ longer[n] = t[n]
        BY <1>4, <1>6
    <2>2. longer[n] \in ToSet(t)
        BY <2>1 DEF ToSet
    <2>3. CASE m = Len(t) + 1
        BY <1>4, <1>8, <2>2, <2>3
    <2>4. CASE m \in DOMAIN t
        BY <1>4, <1>6, <1>8, <2>1, <2>2, <2>4 DEF KeepsOrder
    <2> QED
        BY <1>4, <2>3, <2>4
<1>7. ToSet(longer) = ToSet(list) \cup {key}
    BY <1>5, <1>8
<1> QED
    BY <1>4, <1>6, <1>7 DEF EndsWith

-----------------------------------------------------------------------------
(* The types of all variables, of which TypeOK is a part.                  *)

Piece == [id : Nat \ {0}, index : Nat \ {0}]

Session == [slots : [Prios -> {NoSlot} \cup Slot], lastAdmissionTs : Int,
            lastAdmittedTransferID : 0..(TransferIDModulo - 1),
            lastAdmittedPriority : Prios \cup {0}]

Transfer == [port : Ports, src : Remotes, priority : Prios, frames : Nat \ {0},
             transferID : 0..(TransferIDModulo - 1), startTs : Nat, heardTs : Nat,
             strayed : BOOLEAN]

Received == [id : Nat \ {0}, src : Remotes]

RxTypes ==
    /\ subscribed \subseteq Ports
    /\ Sessions \subseteq Ports \X Remotes
    /\ sessions \in [Sessions -> Session]
    /\ animation \in Seq(Ports \X Remotes) /\ ToSet(animation) = Sessions
    /\ delivered \in [Ports -> Seq(Received)]

BusTypes ==
    /\ now \in Nat /\ now <= MaxTime
    /\ sent \in Seq(Transfer)
    /\ progress \in Seq(Nat \ {0}) /\ Len(progress) = Len(sent)
    /\ \A k \in Transfers :
        progress[k] <= sent[k].frames /\ sent[k].startTs <= now /\ sent[k].heardTs <= now
    /\ intact \subseteq Transfers
    /\ last \in [Remotes -> {NoFrame} \cup [frame : Frame, ts : Nat]]

Types == RxTypes /\ BusTypes

IdsOf(p) == {delivered[p][i].id : i \in DOMAIN delivered[p]}

SessionOf(s) == IF s \in Sessions THEN sessions[s] ELSE rxSessionFactory

-----------------------------------------------------------------------------
(* What a frame does to the receiver, in one of three ways.                *)

Timeout == Larger(RxSessionTimeout, TransferIDTimeout)

\* An admitted start frame: the session new follows ses.
Opened(ses, fr, new) ==
    /\ new \in Session
    /\ new.lastAdmissionTs = now
    /\ new.lastAdmittedTransferID = fr.transferID
    /\ new.lastAdmittedPriority = fr.priority
    /\ fr.end => new.slots[fr.priority] = NoSlot
    /\ ~fr.end => new.slots[fr.priority] =
            [startTs |-> now, transferID |-> fr.transferID, expectedToggle |-> FALSE,
             payload |-> <<[id |-> fr.id, index |-> fr.index]>>]
    /\ \A q \in Prios \ {fr.priority} :
        \/ new.slots[q] = ses.slots[q]
        \/ /\ new.slots[q] = NoSlot /\ ses.slots[q] # NoSlot
           /\ ses.slots[q].startTs < now - Timeout

\* A frame of an installed subscription goes there, and one of a remote with a
\* session there to that session.
Starts(p, fr) ==
    /\ fr.start
    /\ fr.port \in subscribed => p = fr.port
    /\ rxSessionSolveAdmission(SessionOf(<<p, fr.src>>), fr)
    /\ \E new : /\ Opened(SessionOf(<<p, fr.src>>), fr, new)
                /\ sessions' = WithSession(<<p, fr.src>>, new)
    /\ animation' = EnlistTail(<<p, fr.src>>)
    /\ delivered' = IF fr.end
                    THEN [delivered EXCEPT ![p] = Append(@, [id |-> fr.id, src |-> fr.src])]
                    ELSE delivered

\* A continuation: the slot takes the frame, and ends with the last one.
Extended(slot, fr) == Append(slot.payload, [id |-> fr.id, index |-> fr.index])

Advanced(ses, fr, new) ==
    /\ new \in Session
    /\ new.lastAdmissionTs = ses.lastAdmissionTs
    /\ new.lastAdmittedTransferID = ses.lastAdmittedTransferID
    /\ new.lastAdmittedPriority = ses.lastAdmittedPriority
    /\ fr.end => new.slots[fr.priority] = NoSlot
    /\ ~fr.end => new.slots[fr.priority] =
            [startTs |-> ses.slots[fr.priority].startTs,
             transferID |-> ses.slots[fr.priority].transferID,
             expectedToggle |-> ~ses.slots[fr.priority].expectedToggle,
             payload |-> Extended(ses.slots[fr.priority], fr)]
    /\ \A q \in Prios \ {fr.priority} : new.slots[q] = ses.slots[q]

Continues(p, n, fr) ==
    LET s == <<p, n>>
        payload == Extended(sessions[s].slots[fr.priority], fr)
    IN  /\ ~fr.start
        /\ fr.port \in subscribed => p = fr.port
        /\ <<p, fr.src>> \in Sessions => n = fr.src
        /\ s \in Sessions
        /\ rxSessionSolveAdmission(sessions[s], fr)
        /\ \E new : Advanced(sessions[s], fr, new) /\ sessions' = WithSession(s, new)
        /\ animation' = animation
        /\ delivered' = IF fr.end /\ crcOK(payload)
                        THEN [delivered EXCEPT ![p] = Append(@, [id |-> payload[1].id, src |-> fr.src])]
                        ELSE delivered

Ignored == UNCHANGED <<sessions, animation, delivered>>

\* Where the frame belongs it was not admitted.
Refused(fr) ==
    LET s == <<fr.port, fr.src>>
    IN  fr.port \in subscribed =>
            /\ fr.start => ~rxSessionSolveAdmission(SessionOf(s), fr)
            /\ ~fr.start /\ s \in Sessions => ~rxSessionSolveAdmission(sessions[s], fr)

LEMMA FactoryType == rxSessionFactory \in Session
<1>1. bigBang \in Int /\ 0 \in 0..(TransferIDModulo - 1)
    BY RxAssumption DEF bigBang
<1>2. [p \in Prios |-> NoSlot] \in [Prios -> {NoSlot} \cup Slot]
    OBVIOUS
<1>3. PICK slots \in [Prios -> {NoSlot} \cup Slot] : slots = [p \in Prios |-> NoSlot]
    BY <1>2
<1>4. rxSessionFactory = [slots |-> slots, lastAdmissionTs |-> bigBang,
                          lastAdmittedTransferID |-> 0, lastAdmittedPriority |-> 0]
    BY <1>3 DEF rxSessionFactory
<1> HIDE DEF bigBang
<1> QED
    BY <1>1, <1>4 DEF Session

LEMMA SlotType ==
    ASSUME NEW slot \in Slot, NEW fr \in Frame
    PROVE  /\ rxSlotAdvance(slot, fr) \in Slot
           /\ rxSlotAdvance(slot, fr).payload = Extended(slot, fr)
           /\ rxSlotAdvance(slot, fr) =
                [startTs |-> slot.startTs, transferID |-> slot.transferID,
                 expectedToggle |-> ~slot.expectedToggle, payload |-> Extended(slot, fr)]
<1>1. /\ slot.startTs \in Nat /\ slot.transferID \in Nat /\ slot.expectedToggle \in BOOLEAN
      /\ slot.payload \in Seq(Piece)
    BY DEF Slot, Piece
<1>2. [id |-> fr.id, index |-> fr.index] \in Piece
    BY DEF Frame, Piece
<1>3. Extended(slot, fr) \in Seq(Piece)
    BY <1>1, <1>2 DEF Extended
<1>4. rxSlotAdvance(slot, fr) =
                [startTs |-> slot.startTs, transferID |-> slot.transferID,
                 expectedToggle |-> ~slot.expectedToggle, payload |-> Extended(slot, fr)]
    <2>1. DOMAIN slot = {"startTs", "transferID", "expectedToggle", "payload"}
        BY DEF Slot
    <2>2. PICK payload, toggle : payload = Extended(slot, fr) /\ toggle = ~slot.expectedToggle
        OBVIOUS
    <2>3. rxSlotAdvance(slot, fr) = [slot EXCEPT !.payload = payload, !.expectedToggle = toggle]
        BY <2>2 DEF rxSlotAdvance, Extended
    <2>4. rxSlotAdvance(slot, fr) = [startTs |-> slot.startTs, transferID |-> slot.transferID,
                                     expectedToggle |-> toggle, payload |-> payload]
        BY <2>1, <2>3
    <2> QED
        BY <2>2, <2>4
<1> QED
    BY <1>1, <1>3, <1>4 DEF Slot, Piece

LEMMA BeginFacts ==
    ASSUME NEW ses \in Session, NEW fr \in Frame, now \in Nat
    PROVE  /\ Opened(ses, fr, Accepted(Begin(ses, fr), fr))
           /\ Message(Begin(ses, fr), fr) =
                IF fr.end THEN <<[id |-> fr.id, src |-> fr.src]>> ELSE <<>>
<1>1. PICK open : open = Begin(ses, fr)
    OBVIOUS
<1>2. PICK p : p = fr.priority
    OBVIOUS
<1>3. /\ fr.id \in Nat \ {0} /\ fr.index \in Nat \ {0} /\ fr.end \in BOOLEAN /\ p \in Prios
      /\ fr.transferID \in 0..(TransferIDModulo - 1) /\ fr.transferID \in Nat
    BY <1>2, RxAssumption DEF Frame
<1>4. /\ ses.slots \in [Prios -> {NoSlot} \cup Slot]
      /\ DOMAIN ses = {"slots", "lastAdmissionTs", "lastAdmittedTransferID", "lastAdmittedPriority"}
    BY DEF Session
<1>5. CASE fr.end
    <2>1. PICK slots : slots = [ses.slots EXCEPT ![p] = NoSlot]
        OBVIOUS
    <2>2. open = [slots |-> slots, lastAdmissionTs |-> now,
                  lastAdmittedTransferID |-> fr.transferID, lastAdmittedPriority |-> p]
        BY <1>1, <1>2, <1>4, <1>5, <2>1 DEF Begin, Session
    <2>3. slots \in [Prios -> {NoSlot} \cup Slot] /\ slots[p] = NoSlot
        BY <1>3, <1>4, <2>1
    <2>4. Accepted(open, fr) = open
        BY <1>2, <2>2, <2>3 DEF Accepted
    <2>5. Message(open, fr) = <<[id |-> fr.id, src |-> fr.src]>>
        BY <1>2, <2>2, <2>3 DEF Message
    <2>6. Opened(ses, fr, open)
        BY <1>2, <1>3, <1>4, <1>5, <2>1, <2>2, <2>3 DEF Opened, Session
    <2> QED
        BY <1>1, <1>5, <2>4, <2>5, <2>6
<1>6. CASE ~fr.end
    <2>1. PICK cleaned : cleaned = [q \in Prios |->
                IF [ses.slots EXCEPT ![p] = NoSlot][q] # NoSlot
                   /\ [ses.slots EXCEPT ![p] = NoSlot][q].startTs < now - Timeout
                THEN NoSlot ELSE [ses.slots EXCEPT ![p] = NoSlot][q]]
        OBVIOUS
    <2>2. cleaned \in [Prios -> {NoSlot} \cup Slot]
        BY <1>4, <2>1
    <2>3. \A q \in Prios \ {p} : cleaned[q] =
                IF ses.slots[q] # NoSlot /\ ses.slots[q].startTs < now - Timeout
                THEN NoSlot ELSE ses.slots[q]
        BY <1>4, <2>1
    <2>4. PICK slots : slots = [cleaned EXCEPT ![p] = rxSlotNew(fr)]
        OBVIOUS
    <2>5. open = [slots |-> slots, lastAdmissionTs |-> now,
                  lastAdmittedTransferID |-> fr.transferID, lastAdmittedPriority |-> p]
        <3>1. PICK freed : freed = [ses EXCEPT !.slots[p] = NoSlot]
            OBVIOUS
        <3>2. freed = [ses EXCEPT !.slots = [ses.slots EXCEPT ![p] = NoSlot]]
            BY <3>1
        <3>3. freed.slots = [ses.slots EXCEPT ![p] = NoSlot] /\ DOMAIN freed = DOMAIN ses
            BY <1>4, <3>2
        <3>4. PICK clean : clean = rxSessionCleanup(freed)
            OBVIOUS
        <3>5. clean = [freed EXCEPT !.slots = cleaned]
            BY <2>1, <3>3, <3>4 DEF rxSessionCleanup, Timeout
        <3>6. clean.slots = cleaned /\ DOMAIN clean = DOMAIN ses
            BY <1>4, <3>3, <3>5
        <3>7. PICK last1 : last1 = [clean EXCEPT !.slots[p] = rxSlotNew(fr)]
            OBVIOUS
        <3>8. last1.slots = slots /\ DOMAIN last1 = DOMAIN ses
            BY <1>4, <2>4, <3>6, <3>7
        <3>9. open = [last1 EXCEPT !.lastAdmissionTs = now,
                     !.lastAdmittedTransferID = fr.transferID,
                     !.lastAdmittedPriority = p]
            BY <1>1, <1>2, <1>6, <3>1, <3>4, <3>7 DEF Begin
        <3> QED
            BY <1>4, <3>8, <3>9
    <2>6. rxSlotNew(fr) \in Slot
        BY <1>3 DEF rxSlotNew, Slot
    <2>7. /\ slots \in [Prios -> {NoSlot} \cup Slot] /\ slots[p] = rxSlotNew(fr)
          /\ \A q \in Prios \ {p} : slots[q] = cleaned[q]
        BY <1>3, <2>2, <2>4, <2>6
    <2>8. PICK taken : taken = rxSlotAdvance(rxSlotNew(fr), fr)
        OBVIOUS
    <2>9. taken \in Slot /\ taken = [startTs |-> now, transferID |-> fr.transferID,
                expectedToggle |-> FALSE, payload |-> <<[id |-> fr.id, index |-> fr.index]>>]
        <3>1. Extended(rxSlotNew(fr), fr) = <<[id |-> fr.id, index |-> fr.index]>>
            BY DEF Extended, rxSlotNew
        <3> QED
            BY <2>6, <2>8, <3>1, SlotType DEF rxSlotNew
    <2>10. NoSlot # rxSlotNew(fr)
        BY <2>6, NothingAssumption
    <2>11. Accepted(open, fr) = [open EXCEPT !.slots[p] = taken]
        BY <1>2, <1>6, <2>5, <2>7, <2>8, <2>10 DEF Accepted
    <2>12. PICK finally : finally = [slots EXCEPT ![p] = taken]
        OBVIOUS
    <2>13. /\ finally \in [Prios -> {NoSlot} \cup Slot] /\ finally[p] = taken
           /\ \A q \in Prios \ {p} : finally[q] = cleaned[q]
        BY <1>3, <2>7, <2>9, <2>12
    <2>14. Accepted(open, fr) =
                 [slots |-> finally, lastAdmissionTs |-> now,
                  lastAdmittedTransferID |-> fr.transferID, lastAdmittedPriority |-> p]
        BY <2>5, <2>11, <2>12
    <2>15. Message(open, fr) = <<>>
        BY <1>2, <1>6, <2>5, <2>7, <2>10 DEF Message
    <2>16. PICK new : new = Accepted(open, fr)
        OBVIOUS
    <2>17. new \in Session
        BY <1>3, <2>13, <2>14, <2>16 DEF Session
    <2>18. \A q \in Prios \ {p} :
                \/ new.slots[q] = ses.slots[q]
                \/ /\ new.slots[q] = NoSlot /\ ses.slots[q] # NoSlot
                   /\ ses.slots[q].startTs < now - Timeout
        BY <2>3, <2>13, <2>14, <2>16
    <2>19. Opened(ses, fr, new)
        BY <1>2, <1>6, <2>9, <2>13, <2>14, <2>16, <2>17, <2>18 DEF Opened
    <2> QED
        BY <1>1, <1>6, <2>15, <2>16, <2>19
<1> QED
    BY <1>3, <1>5, <1>6

LEMMA AcceptFacts ==
    ASSUME NEW ses \in Session, NEW fr \in Frame, ses.slots[fr.priority] # NoSlot
    PROVE  /\ Advanced(ses, fr, Accepted(ses, fr))
           /\ Message(ses, fr) =
                IF fr.end /\ crcOK(Extended(ses.slots[fr.priority], fr))
                THEN <<[id |-> Extended(ses.slots[fr.priority], fr)[1].id, src |-> fr.src]>>
                ELSE <<>>
<1>1. PICK p : p = fr.priority
    OBVIOUS
<1>2. /\ ses.slots \in [Prios -> {NoSlot} \cup Slot] /\ p \in Prios
      /\ DOMAIN ses = {"slots", "lastAdmissionTs", "lastAdmittedTransferID", "lastAdmittedPriority"}
    BY <1>1 DEF Session, Frame
<1>3. PICK slot \in Slot : slot = ses.slots[p]
    BY <1>1, <1>2
<1>4. PICK taken : taken = rxSlotAdvance(slot, fr)
    OBVIOUS
<1>5. taken \in Slot /\ taken.payload = Extended(slot, fr) /\
      taken = [startTs |-> slot.startTs, transferID |-> slot.transferID,
               expectedToggle |-> ~slot.expectedToggle, payload |-> Extended(slot, fr)]
    BY <1>4, SlotType
<1>6. PICK slots : slots = [ses.slots EXCEPT ![p] = IF fr.end THEN NoSlot ELSE taken]
    OBVIOUS
<1>7. /\ slots \in [Prios -> {NoSlot} \cup Slot]
      /\ slots[p] = IF fr.end THEN NoSlot ELSE taken
      /\ \A q \in Prios \ {p} : slots[q] = ses.slots[q]
    BY <1>2, <1>5, <1>6
<1>8. Accepted(ses, fr) = [ses EXCEPT !.slots = slots]
    BY <1>1, <1>3, <1>4, <1>6 DEF Accepted
<1>9. PICK new : new = Accepted(ses, fr)
    OBVIOUS
<1>10. new \in Session /\ new.slots = slots
       /\ new.lastAdmissionTs = ses.lastAdmissionTs
       /\ new.lastAdmittedTransferID = ses.lastAdmittedTransferID
       /\ new.lastAdmittedPriority = ses.lastAdmittedPriority
    BY <1>7, <1>8, <1>9 DEF Session
<1>11. Advanced(ses, fr, new)
    BY <1>1, <1>3, <1>5, <1>7, <1>10 DEF Advanced
<1>12. Message(ses, fr) = IF fr.end /\ crcOK(Extended(slot, fr))
                THEN <<[id |-> Extended(slot, fr)[1].id, src |-> fr.src]>>
                ELSE <<>>
    BY <1>1, <1>3, <1>4, <1>5 DEF Message
<1> QED
    BY <1>1, <1>3, <1>9, <1>11, <1>12

LEMMA SessionOfType ==
    ASSUME Types, NEW s
    PROVE  SessionOf(s) \in Session
BY FactoryType DEF Types, RxTypes, SessionOf

LEMMA IngestCases ==
    ASSUME Types, NEW fr \in Frame, IngestFrame(fr)
    PROVE  /\ subscribed' = subscribed
           /\ \/ Ignored /\ Refused(fr)
              \/ \E p \in subscribed : Starts(p, fr)
              \/ \E p \in subscribed, n \in Remotes : Continues(p, n, fr)
<1>1. subscribed' = subscribed
    BY DEF IngestFrame
<1>2. CASE subscribed = {} /\ Ignored
    BY <1>1, <1>2 DEF Refused
<1>3. CASE \E p \in cavlFind(subscribed, fr.port) : rxSessionUpdate(p, fr)
    <2>1. PICK p \in subscribed : rxSessionUpdate(p, fr) /\ (fr.port \in subscribed => p = fr.port)
        BY <1>3 DEF cavlFind
    <2>2. p \in Ports /\ delivered \in [Ports -> Seq(Received)]
        BY DEF Types, RxTypes
    <2>3. CASE fr.start /\ UpdateStart(p, fr)
        <3>1. PICK s : s = <<p, fr.src>>
            OBVIOUS
        <3>2. PICK ses \in Session : ses = SessionOf(s)
            BY SessionOfType
        <3>3. CASE rxSessionSolveAdmission(ses, fr)
            <4>1. /\ sessions' = WithSession(s, Accepted(Begin(ses, fr), fr))
                  /\ animation' = EnlistTail(s)
                  /\ Deliver(p, Message(Begin(ses, fr), fr))
                BY <2>3, <3>1, <3>2, <3>3 DEF UpdateStart, SessionOf
            <4>2. /\ Opened(ses, fr, Accepted(Begin(ses, fr), fr))
                  /\ Message(Begin(ses, fr), fr) =
                        IF fr.end THEN <<[id |-> fr.id, src |-> fr.src]>> ELSE <<>>
                BY BeginFacts DEF Types, BusTypes
            <4>3. delivered' = IF fr.end
                    THEN [delivered EXCEPT ![p] = Append(@, [id |-> fr.id, src |-> fr.src])]
                    ELSE delivered
                <5>1. delivered[p] \in Seq(Received) /\ [id |-> fr.id, src |-> fr.src] \in Received
                    BY <2>2 DEF Frame, Received
                <5>2. CASE fr.end
                    <6>1. delivered' = [delivered EXCEPT ![p] =
                                @ \o <<[id |-> fr.id, src |-> fr.src]>>]
                        BY <4>1, <4>2, <5>2 DEF Deliver
                    <6>2. delivered[p] \o <<[id |-> fr.id, src |-> fr.src]>>
                            = Append(delivered[p], [id |-> fr.id, src |-> fr.src])
                        BY <5>1
                    <6> QED
                        BY <5>2, <6>1, <6>2
                <5>3. CASE ~fr.end
                    <6>1. delivered' = [delivered EXCEPT ![p] = @ \o <<>>]
                        BY <4>1, <4>2, <5>3 DEF Deliver
                    <6>2. delivered[p] \o <<>> = delivered[p]
                        BY <5>1
                    <6> QED
                        BY <2>2, <5>3, <6>1, <6>2
                <5> QED
                    BY <5>2, <5>3
            <4>4. Starts(p, fr)
                BY <2>1, <2>3, <3>1, <3>2, <3>3, <4>1, <4>2, <4>3 DEF Starts
            <4> QED
                BY <1>1, <4>4
        <3>4. CASE ~rxSessionSolveAdmission(ses, fr)
            <4>1. Ignored
                BY <2>3, <3>1, <3>2, <3>4 DEF UpdateStart, SessionOf, Ignored
            <4>2. Refused(fr)
                BY <2>1, <2>3, <3>1, <3>2, <3>4 DEF Refused
            <4> QED
                BY <1>1, <4>1, <4>2
        <3> QED
            BY <3>3, <3>4
    <2>4. CASE ~fr.start /\ \E n \in cavlFind(RemotesOf(p), fr.src) : UpdateContinuation(p, n, fr)
        <3>1. PICK n \in RemotesOf(p) :
                    UpdateContinuation(p, n, fr) /\ (fr.src \in RemotesOf(p) => n = fr.src)
            BY <2>4 DEF cavlFind
        <3>7. <<p, fr.src>> \in Sessions => n = fr.src
            BY <3>1 DEF RemotesOf, Frame
        <3>2. PICK s : s = <<p, n>>
            OBVIOUS
        <3>3. n \in Remotes /\ s \in Sessions /\ sessions[s] \in Session
            BY <3>1, <3>2 DEF RemotesOf, Types, RxTypes
        <3>4. PICK ses \in Session : ses = sessions[s]
            BY <3>3
        <3>5. CASE rxSessionSolveAdmission(ses, fr)
            <4>1. /\ sessions' = WithSession(s, Accepted(ses, fr))
                  /\ animation' = animation
                  /\ Deliver(p, Message(ses, fr))
                BY <3>1, <3>2, <3>4, <3>5 DEF UpdateContinuation
            <4>2. ses.slots[fr.priority] # NoSlot
                BY <2>4, <3>5 DEF rxSessionSolveAdmission
            <4>3. PICK slot : slot = ses.slots[fr.priority]
                OBVIOUS
            <4>4. slot \in Slot /\ slot.payload \in Seq(Piece) /\ fr.src \in Remotes
                  /\ [id |-> fr.id, index |-> fr.index] \in Piece
                BY <4>2, <4>3 DEF Session, Slot, Piece, Frame
            <4>5. PICK payload : payload = Extended(slot, fr)
                OBVIOUS
            <4>6. payload \in Seq(Piece) /\ payload[1] \in Piece
                BY <4>4, <4>5 DEF Extended
            <4>7. PICK m : m = [id |-> payload[1].id, src |-> fr.src]
                OBVIOUS
            <4>8. m \in Received
                BY <4>4, <4>6, <4>7 DEF Received, Piece
            <4>9. Advanced(ses, fr, Accepted(ses, fr))
                BY <4>2, AcceptFacts
            <4>10. Message(ses, fr) = IF fr.end /\ crcOK(payload) THEN <<m>> ELSE <<>>
                BY <4>2, <4>3, <4>5, <4>7, AcceptFacts
            <4>11. delivered' = IF fr.end /\ crcOK(payload)
                    THEN [delivered EXCEPT ![p] = Append(@, m)]
                    ELSE delivered
                <5>1. delivered[p] \in Seq(Received)
                    BY <2>2
                <5>2. CASE fr.end /\ crcOK(payload)
                    <6>1. delivered' = [delivered EXCEPT ![p] = @ \o <<m>>]
                        BY <4>1, <4>10, <5>2 DEF Deliver
                    <6>2. delivered[p] \o <<m>> = Append(delivered[p], m)
                        BY <4>8, <5>1
                    <6> QED
                        BY <5>2, <6>1, <6>2
                <5>3. CASE ~(fr.end /\ crcOK(payload))
                    <6>1. delivered' = [delivered EXCEPT ![p] = @ \o <<>>]
                        BY <4>1, <4>10, <5>3 DEF Deliver
                    <6>2. delivered[p] \o <<>> = delivered[p]
                        BY <5>1
                    <6> QED
                        BY <2>2, <5>3, <6>1, <6>2
                <5> QED
                    BY <5>2, <5>3
            <4>12. Continues(p, n, fr)
                BY <2>1, <2>4, <3>2, <3>3, <3>4, <3>5, <3>7, <4>1, <4>3, <4>5, <4>7, <4>9, <4>11
                DEF Continues
            <4> QED
                BY <1>1, <3>3, <4>12
        <3>6. CASE ~rxSessionSolveAdmission(ses, fr)
            <4>1. Ignored
                BY <3>1, <3>2, <3>4, <3>6 DEF UpdateContinuation, Ignored
            <4>2. Refused(fr)
                BY <2>1, <2>4, <3>2, <3>4, <3>6, <3>7 DEF Refused
            <4> QED
                BY <1>1, <4>1, <4>2
        <3> QED
            BY <3>5, <3>6
    <2>5. CASE ~fr.start /\ RemotesOf(p) = {} /\ UNCHANGED <<sessions, animation, delivered>>
        <3>1. <<p, fr.src>> \notin Sessions
            BY <2>5 DEF RemotesOf, Frame
        <3>2. Refused(fr)
            BY <2>1, <2>5, <3>1 DEF Refused
        <3> QED
            BY <1>1, <2>5, <3>2 DEF Ignored
    <2> QED
        BY <2>1, <2>3, <2>4, <2>5 DEF rxSessionUpdate
<1> QED
    BY <1>1, <1>2, <1>3 DEF IngestFrame, Ignored

-----------------------------------------------------------------------------
(* The steps of the application and Poll, in the same terms.               *)

\* What a cleanup does to a session.
Cleaned(ses, new) ==
    /\ new \in Session
    /\ new.lastAdmissionTs = ses.lastAdmissionTs
    /\ new.lastAdmittedTransferID = ses.lastAdmittedTransferID
    /\ new.lastAdmittedPriority = ses.lastAdmittedPriority
    /\ \A q \in Prios :
        \/ new.slots[q] = ses.slots[q]
        \/ /\ new.slots[q] = NoSlot /\ ses.slots[q] # NoSlot
           /\ ses.slots[q].startTs < now - Timeout

Reclaims(s) ==
    /\ s \in Sessions
    /\ Forget({s})
    /\ sessions[s].lastAdmissionTs < now - TransferIDTimeout
    /\ \A q \in Prios : \/ sessions[s].slots[q] = NoSlot
                        \/ sessions[s].slots[q].startTs < now - Timeout

Cleans(s) ==
    /\ s \in Sessions
    /\ \E new : Cleaned(sessions[s], new) /\ sessions' = WithSession(s, new)
    /\ animation' = animation

LEMMA CleanupFacts ==
    ASSUME NEW ses \in Session, now \in Nat
    PROVE  Cleaned(ses, rxSessionCleanup(ses))
<1>1. PICK slots : slots = [q \in Prios |->
            IF ses.slots[q] # NoSlot /\ ses.slots[q].startTs < now - Timeout
            THEN NoSlot ELSE ses.slots[q]]
    OBVIOUS
<1>2. PICK new : new = rxSessionCleanup(ses)
    OBVIOUS
<1>3. new = [ses EXCEPT !.slots = slots]
    BY <1>1, <1>2 DEF rxSessionCleanup, Timeout
<1>4. slots \in [Prios -> {NoSlot} \cup Slot]
    BY <1>1 DEF Session
<1>5. new \in Session /\ new.slots = slots
      /\ new.lastAdmissionTs = ses.lastAdmissionTs
      /\ new.lastAdmittedTransferID = ses.lastAdmittedTransferID
      /\ new.lastAdmittedPriority = ses.lastAdmittedPriority
    BY <1>3, <1>4 DEF Session
<1> QED
    BY <1>1, <1>2, <1>5 DEF Cleaned

LEMMA PollCases ==
    ASSUME Types, Poll
    PROVE  \E s \in Sessions : Reclaims(s) \/ Cleans(s)
<1>1. PICK s : s = Head(animation)
    OBVIOUS
<1>2. s \in Sessions
    <2>1. animation \in Seq(Ports \X Remotes) /\ animation # <<>> /\ ToSet(animation) = Sessions
        BY DEF Types, RxTypes, Poll
    <2>2. 1 \in DOMAIN animation /\ s = animation[1]
        BY <1>1, <2>1
    <2> QED
        BY <2>1, <2>2 DEF ToSet
<1>3. sessions[s] \in Session /\ now \in Nat
    BY <1>2 DEF Types, RxTypes, BusTypes
<1>4. PICK new : new = rxSessionCleanup(sessions[s])
    OBVIOUS
<1>5. Cleaned(sessions[s], new)
    BY <1>3, <1>4, CleanupFacts
<1>6. \/ /\ Forget({s})
         /\ \A p \in Prios : new.slots[p] = NoSlot
         /\ new.lastAdmissionTs < now - TransferIDTimeout
      \/ sessions' = WithSession(s, new) /\ animation' = animation
    BY <1>1, <1>4 DEF Poll
<1>7. CASE sessions' = WithSession(s, new) /\ animation' = animation
    BY <1>2, <1>5, <1>7 DEF Cleans
<1>8. CASE /\ Forget({s})
           /\ \A p \in Prios : new.slots[p] = NoSlot
           /\ new.lastAdmissionTs < now - TransferIDTimeout
    BY <1>2, <1>5, <1>8 DEF Reclaims, Cleaned
<1> QED
    BY <1>2, <1>6, <1>7, <1>8

LEMMA WithSessionFacts ==
    ASSUME NEW s, NEW new, sessions' = WithSession(s, new)
    PROVE  /\ Sessions' = Sessions \cup {s}
           /\ sessions'[s] = new
           /\ \A k \in Sessions \ {s} : sessions'[k] = sessions[k]
           /\ sessions' \in [Sessions' -> {sessions'[k] : k \in Sessions'}]
BY DEF WithSession, Sessions

LEMMA WithSessionTypes ==
    ASSUME Types, NEW s \in Ports \X Remotes, NEW new \in Session,
           sessions' = WithSession(s, new)
    PROVE  /\ Sessions' \subseteq Ports \X Remotes
           /\ sessions' \in [Sessions' -> Session]
<1>1. /\ Sessions' = Sessions \cup {s} /\ sessions'[s] = new
      /\ \A k \in Sessions \ {s} : sessions'[k] = sessions[k]
    BY WithSessionFacts
<1>2. sessions' = [k \in Sessions' |-> sessions'[k]]
    BY DEF WithSession, Sessions
<1>3. \A k \in Sessions' : sessions'[k] \in Session
    BY <1>1 DEF Types, RxTypes
<1> QED
    BY <1>1, <1>2, <1>3 DEF Types, RxTypes

-----------------------------------------------------------------------------
(* Types.                                                                  *)

LEMMA InitTypes ==
    ASSUME Init
    PROVE  Types
<1>1. Sessions = {} /\ sessions \in [Sessions -> Session]
    BY DEF Init, Sessions
<1>2. animation \in Seq(Ports \X Remotes) /\ ToSet(animation) = {}
    BY DEF Init, ToSet
<1>3. delivered \in [Ports -> Seq(Received)] /\ subscribed \subseteq Ports
    BY DEF Init
<1>4. BusTypes
    BY RxAssumption DEF Init, BusTypes, Transfers
<1> QED
    BY <1>1, <1>2, <1>3, <1>4 DEF Types, RxTypes

LEMMA ForgetTypes ==
    ASSUME Types, NEW K, Forget(K)
    PROVE  /\ Sessions' = Sessions \ K
           /\ \A k \in Sessions' : sessions'[k] = sessions[k]
           /\ Sessions' \subseteq Ports \X Remotes
           /\ sessions' \in [Sessions' -> Session]
           /\ animation' \in Seq(Ports \X Remotes) /\ ToSet(animation') = Sessions'
           /\ KeepsOrder(animation', animation)
<1>1. Sessions' = Sessions \ K /\ \A k \in Sessions' : sessions'[k] = sessions[k]
    BY DEF Forget, Sessions
<1>2. sessions' = [k \in Sessions' |-> sessions'[k]]
    BY DEF Forget, Sessions
<1>3. \A k \in Sessions' : sessions'[k] \in Session
    BY <1>1 DEF Types, RxTypes
<1>4. PICK list : list = animation
    OBVIOUS
<1>5. list \in Seq(Ports \X Remotes) /\ ToSet(list) = Sessions
    BY <1>4 DEF Types, RxTypes
<1>6. PICK t : t = Delist(list, K)
    OBVIOUS
<1>7. t \in Seq(Ports \X Remotes) /\ ToSet(t) = ToSet(list) \ K /\ KeepsOrder(t, list)
    BY <1>5, <1>6, DelistFacts
<1>8. animation' = t
    BY <1>4, <1>6 DEF Forget
<1>9. /\ animation' \in Seq(Ports \X Remotes) /\ ToSet(animation') = Sessions'
      /\ KeepsOrder(animation', animation)
    BY <1>1, <1>4, <1>5, <1>7, <1>8
<1> QED
    BY <1>1, <1>2, <1>3, <1>9 DEF Types, RxTypes

LEMMA EnlistTypes ==
    ASSUME Types, NEW s \in Ports \X Remotes, animation' = EnlistTail(s)
    PROVE  /\ animation' \in Seq(Ports \X Remotes)
           /\ EndsWith(animation', animation, s)
<1>1. PICK list : list = animation
    OBVIOUS
<1>2. list \in Seq(Ports \X Remotes)
    BY <1>1 DEF Types, RxTypes
<1>3. PICK longer : longer = Append(Delist(list, {s}), s)
    OBVIOUS
<1>4. longer \in Seq(Ports \X Remotes) /\ EndsWith(longer, list, s)
    BY <1>2, <1>3, EnlistFacts
<1>5. animation' = longer
    BY <1>1, <1>3 DEF EnlistTail
<1> QED
    BY <1>1, <1>4, <1>5

LEMMA IngestTypes ==
    ASSUME Types, NEW fr \in Frame, IngestFrame(fr)
    PROVE  RxTypes'
<1>1. subscribed' \subseteq Ports
    BY IngestCases DEF Types, RxTypes
<1>2. CASE Ignored
    BY <1>1, <1>2 DEF Types, RxTypes, Ignored, Sessions
<1>3. ASSUME NEW p \in subscribed, Starts(p, fr) PROVE RxTypes'
    <2>1. PICK s : s = <<p, fr.src>>
        OBVIOUS
    <2>2. s \in Ports \X Remotes /\ p \in Ports /\ fr.src \in Remotes
        BY <2>1 DEF Types, RxTypes, Frame
    <2>3. PICK new \in Session : sessions' = WithSession(s, new)
        BY <1>3, <2>1 DEF Starts, Opened
    <2>4. Sessions' \subseteq Ports \X Remotes /\ sessions' \in [Sessions' -> Session]
        BY <2>2, <2>3, WithSessionTypes
    <2>5. animation' \in Seq(Ports \X Remotes) /\ ToSet(animation') = ToSet(animation) \cup {s}
        BY <1>3, <2>1, <2>2, EnlistTypes DEF Starts, EndsWith
    <2>6. Sessions' = Sessions \cup {s}
        BY <2>3, WithSessionFacts
    <2>7. delivered' \in [Ports -> Seq(Received)]
        <3>1. [id |-> fr.id, src |-> fr.src] \in Received
            BY DEF Received, Frame
        <3>2. delivered[p] \in Seq(Received) /\ delivered \in [Ports -> Seq(Received)]
            BY <2>2 DEF Types, RxTypes
        <3>3. Append(delivered[p], [id |-> fr.id, src |-> fr.src]) \in Seq(Received)
            BY <3>1, <3>2
        <3> QED
            BY <1>3, <2>2, <3>2, <3>3 DEF Starts
    <2> QED
        BY <1>1, <2>4, <2>5, <2>6, <2>7 DEF Types, RxTypes
<1>4. ASSUME NEW p \in subscribed, NEW n \in Remotes, Continues(p, n, fr) PROVE RxTypes'
    <2>1. PICK s : s = <<p, n>>
        OBVIOUS
    <2>2. s \in Ports \X Remotes /\ p \in Ports /\ s \in Sessions
        BY <1>4, <2>1 DEF Types, RxTypes, Continues
    <2>3. PICK new \in Session : sessions' = WithSession(s, new)
        BY <1>4, <2>1 DEF Continues, Advanced
    <2>4. Sessions' \subseteq Ports \X Remotes /\ sessions' \in [Sessions' -> Session]
        BY <2>2, <2>3, WithSessionTypes
    <2>5. Sessions' = Sessions
        BY <2>2, <2>3, WithSessionFacts
    <2>6. animation' = animation
        BY <1>4 DEF Continues
    <2>7. delivered' \in [Ports -> Seq(Received)]
        <3>1. PICK slot : slot = sessions[s].slots[fr.priority]
            OBVIOUS
        <3>2. slot \in Slot
            <4>1. sessions[s] \in Session /\ fr.priority \in Prios
                BY <2>2 DEF Types, RxTypes, Frame
            <4>2. slot # NoSlot
                BY <1>4, <2>1, <3>1 DEF Continues, rxSessionSolveAdmission
            <4> QED
                BY <3>1, <4>1, <4>2 DEF Session
        <3>3. PICK payload : payload = Extended(slot, fr)
            OBVIOUS
        <3>4. payload[1] \in Piece /\ fr.src \in Remotes
            <4>1. slot.payload \in Seq(Piece) /\ [id |-> fr.id, index |-> fr.index] \in Piece
                  /\ fr.src \in Remotes
                BY <3>2 DEF Slot, Frame, Piece
            <4> QED
                BY <3>3, <4>1 DEF Extended
        <3>5. PICK m \in Received : m = [id |-> payload[1].id, src |-> fr.src]
            BY <3>4 DEF Received, Piece
        <3>6. \/ delivered' = [delivered EXCEPT ![p] = Append(@, m)]
              \/ delivered' = delivered
            BY <1>4, <2>1, <3>1, <3>3, <3>5 DEF Continues
        <3>7. delivered[p] \in Seq(Received) /\ delivered \in [Ports -> Seq(Received)]
            BY <2>2 DEF Types, RxTypes
        <3>8. Append(delivered[p], m) \in Seq(Received)
            BY <3>5, <3>7
        <3> QED
            BY <2>2, <3>6, <3>7, <3>8
    <2> QED
        BY <1>1, <2>4, <2>5, <2>6, <2>7 DEF Types, RxTypes
<1> QED
    BY <1>2, <1>3, <1>4, IngestCases

LEMMA SubscribeTypes ==
    ASSUME Types, NEW p \in Ports, Subscribe(p)
    PROVE  Types'
<1>1. RxTypes'
    BY DEF Types, RxTypes, Subscribe, Sessions
<1>2. BusTypes'
    BY DEF Types, BusTypes, Subscribe, busVars, Transfers
<1> QED
    BY <1>1, <1>2 DEF Types

LEMMA UnsubscribeTypes ==
    ASSUME Types, NEW p \in Ports, Unsubscribe(p)
    PROVE  Types'
<1>1. PICK K : K = {k \in Sessions : k[1] = p}
    OBVIOUS
<1>2. Forget(K)
    BY <1>1 DEF Unsubscribe
<1>3. subscribed' \subseteq Ports
    BY DEF Types, RxTypes, Unsubscribe
<1>4. delivered' \in [Ports -> Seq(Received)]
    <2>1. delivered' = [delivered EXCEPT ![p] = <<>>] /\ delivered \in [Ports -> Seq(Received)]
        BY DEF Types, RxTypes, Unsubscribe
    <2>2. <<>> \in Seq(Received)
        OBVIOUS
    <2> QED
        BY <2>1, <2>2
<1>5. RxTypes'
    BY <1>2, <1>3, <1>4, ForgetTypes DEF RxTypes
<1>6. BusTypes'
    BY DEF Types, BusTypes, Unsubscribe, Transfers
<1> QED
    BY <1>5, <1>6 DEF Types

LEMMA PollTypes ==
    ASSUME Types, Poll
    PROVE  Types'
<1>1. PICK s \in Sessions : Reclaims(s) \/ Cleans(s)
    BY PollCases
<1>2. subscribed' = subscribed /\ delivered' = delivered
    BY DEF Poll
<1>3. CASE Reclaims(s)
    <2>1. PICK K : K = {s}
        OBVIOUS
    <2>2. Forget(K)
        BY <1>3, <2>1 DEF Reclaims
    <2> QED
        BY <1>2, <2>2, ForgetTypes DEF Types, RxTypes, BusTypes, Poll, busVars, Transfers
<1>4. CASE Cleans(s)
    <2>1. s \in Ports \X Remotes
        BY DEF Types, RxTypes
    <2>2. PICK new \in Session : sessions' = WithSession(s, new)
        BY <1>4 DEF Cleans, Cleaned
    <2>3. Sessions' \subseteq Ports \X Remotes /\ sessions' \in [Sessions' -> Session]
        BY <2>1, <2>2, WithSessionTypes
    <2>4. Sessions' = Sessions
        BY <2>2, WithSessionFacts
    <2>5. animation' = animation
        BY <1>4 DEF Cleans
    <2>6. RxTypes'
        BY <1>2, <2>3, <2>4, <2>5 DEF Types, RxTypes
    <2> QED
        BY <2>6 DEF Types, BusTypes, Poll, busVars, Transfers
<1> QED
    BY <1>1, <1>3, <1>4

LEMMA TickTypes ==
    ASSUME Types, Tick
    PROVE  Types'
<1>1. RxTypes'
    BY DEF Types, RxTypes, Tick, rxVars, Sessions
<1>2. now' \in Nat /\ now' <= MaxTime
    BY RxAssumption DEF Types, BusTypes, Tick
<1>3. \A k \in Transfers' : /\ progress'[k] <= sent'[k].frames
                           /\ sent'[k].startTs <= now' /\ sent'[k].heardTs <= now'
    <2>1. \A k \in Transfers : sent[k].startTs \in Nat /\ sent[k].heardTs \in Nat
        <3>1. \A k \in Transfers : sent[k] \in Transfer
            BY DEF Types, BusTypes, Transfers
        <3> QED
            BY <3>1 DEF Transfer
    <2> QED
        BY <2>1 DEF Types, BusTypes, Tick, Transfers
<1>4. BusTypes'
    BY <1>2, <1>3 DEF Types, BusTypes, Tick, Transfers
<1> QED
    BY <1>1, <1>4 DEF Types

LEMMA FrameType ==
    ASSUME NEW id \in Nat \ {0}, NEW tr \in Transfer, NEW i \in Nat \ {0}
    PROVE  FrameOf(id, tr, i) \in Frame
BY DEF FrameOf, Frame, Transfer

-----------------------------------------------------------------------------
(* A frame on the bus: what it says of the transfers and changes in them.  *)

SameButHeard(a, b) ==
    /\ a.port = b.port /\ a.src = b.src /\ a.priority = b.priority /\ a.frames = b.frames
    /\ a.transferID = b.transferID /\ a.startTs = b.startTs

SameCanID(a, b) == a.port = b.port /\ a.src = b.src /\ a.priority = b.priority

\* fr is the frame sent last of a transfer that no later one with the same CAN
\* ID has replaced.
Carried(fr) ==
    /\ fr \in Frame
    /\ fr.id \in Transfers /\ fr = FrameOf(fr.id, sent[fr.id], progress[fr.id])
    /\ \A o \in Transfers : o > fr.id => ~SameCanID(sent[o], fr)

\* What sending or repeating fr does to the transfers.
Air(fr) ==
    /\ now' = now
    /\ Transfers \subseteq Transfers'
    /\ \A k \in Transfers :
        /\ SameButHeard(sent'[k], sent[k])
        /\ sent'[k].heardTs >= sent[k].heardTs
        /\ sent[k].strayed => sent'[k].strayed
        /\ k # fr.id => progress'[k] = progress[k]
    /\ \A k \in Transfers' \ Transfers : k = fr.id
    /\ fr.start => sent'[fr.id].heardTs = now
    /\ fr.start /\ Astray(fr.port) => sent'[fr.id].strayed

LEMMA SendStartFacts ==
    ASSUME Types, NEW port \in Ports, NEW src \in Remotes, NEW prio \in Prios,
           NEW n \in 1..MaxFrames, SendStart(port, src, prio, n)
    PROVE  \E fr \in Frame, tr \in Transfer :
        /\ fr.id = Len(sent) + 1 /\ fr.id \notin Transfers /\ fr.start
        /\ fr.port = port /\ fr.src = src /\ fr.priority = prio
        /\ Air(fr) /\ Carried(fr)' /\ OnBus(fr) /\ BusTypes'
        /\ sent'[fr.id] = tr /\ tr.startTs = now /\ tr.heardTs = now /\ tr.frames = n
        /\ progress'[fr.id] = 1
        /\ intact' = IF ~Lost(fr) /\ port \in subscribed /\ Distinguishable(tr)
                     THEN intact \cup {fr.id}
                     ELSE IF Lost(fr) THEN intact ELSE intact \ Strayed(fr)
<1>1. PICK number : number = Cardinality({k \in Transfers : sent[k].port = port /\ sent[k].src = src})
    OBVIOUS
<1>2. number \in Nat
    <2>1. PICK K \in SUBSET Transfers : K = {k \in Transfers : sent[k].port = port /\ sent[k].src = src}
        OBVIOUS
    <2>2. Transfers = 1..Len(sent) /\ Len(sent) \in Nat
        BY DEF Transfers, Types, BusTypes
    <2>3. IsFiniteSet(Transfers)
        BY <2>2, FS_Interval
    <2>4. IsFiniteSet(K)
        BY <2>1, <2>3, FS_Subset
    <2> QED
        BY <1>1, <2>1, <2>4, FS_CardinalityType
<1>3. PICK tr : tr = [port |-> port, src |-> src, priority |-> prio, frames |-> n,
                      transferID |-> number % TransferIDModulo, startTs |-> now, heardTs |-> now,
                      strayed |-> Astray(port)]
    OBVIOUS
<1>4. tr \in Transfer
    <2>3. PICK astray \in BOOLEAN : astray = Astray(port)
        BY Zenon DEF Astray
    <2>1. number % TransferIDModulo \in 0..(TransferIDModulo - 1)
        BY <1>2, RxAssumption
    <2>2. n \in Nat \ {0} /\ now \in Nat
        BY RxAssumption DEF Types, BusTypes
    <2>4. tr = [port |-> port, src |-> src, priority |-> prio, frames |-> n,
                transferID |-> number % TransferIDModulo, startTs |-> now, heardTs |-> now,
                strayed |-> astray]
        BY <1>3, <2>3
    <2> QED
        BY <2>1, <2>2, <2>3, <2>4 DEF Transfer
<1>5. PICK id : id = Len(sent) + 1
    OBVIOUS
<1>6. PICK fr : fr = FrameOf(id, tr, 1)
    OBVIOUS
<1>7. /\ sent \in Seq(Transfer) /\ progress \in Seq(Nat \ {0}) /\ Len(sent) \in Nat
      /\ Len(progress) = Len(sent) /\ Transfers = 1..Len(sent) /\ id \in Nat \ {0}
      /\ \A k \in Transfers : sent[k] \in Transfer
    BY <1>5 DEF Types, BusTypes, Transfers
<1>8. fr \in Frame /\ fr.id = id /\ fr.start /\ fr.port = port /\ fr.src = src /\ fr.priority = prio
    <2>1. fr \in Frame
        BY <1>4, <1>6, <1>7, FrameType
    <2> QED
        BY <1>3, <1>6, <2>1 DEF FrameOf
<1>9. /\ sent' = Append(sent, tr) /\ progress' = Append(progress, 1) /\ OnBus(fr) /\ now' = now
      /\ intact' = IF ~Lost(fr) /\ port \in subscribed /\ Distinguishable(tr)
                     THEN intact \cup {fr.id}
                     ELSE IF Lost(fr) THEN intact ELSE intact \ Strayed(fr)
    <2>1. /\ sent' = Append(sent, tr) /\ progress' = Append(progress, 1) /\ OnBus(fr) /\ now' = now
          /\ intact' = IF ~Lost(fr) /\ port \in subscribed /\ Distinguishable(tr)
                     THEN intact \cup {id}
                     ELSE IF Lost(fr) THEN intact ELSE intact \ Strayed(fr)
        BY <1>1, <1>3, <1>5, <1>6 DEF SendStart
    <2> QED
        BY <1>8, <2>1
<1>10. /\ sent' \in Seq(Transfer) /\ Len(sent') = id /\ Transfers' = 1..id
       /\ sent'[id] = tr /\ \A k \in Transfers : sent'[k] = sent[k]
       /\ progress' \in Seq(Nat \ {0}) /\ Len(progress') = id
       /\ progress'[id] = 1 /\ \A k \in Transfers : progress'[k] = progress[k]
    BY <1>4, <1>5, <1>7, <1>9 DEF Transfers
<1>11. Air(fr)
    <2>1. Transfers \subseteq Transfers' /\ \A k \in Transfers' \ Transfers : k = id
        BY <1>5, <1>7, <1>10
    <2>2. \A k \in Transfers : /\ SameButHeard(sent'[k], sent[k]) /\ sent'[k].heardTs >= sent[k].heardTs
                               /\ sent[k].strayed => sent'[k].strayed
        <3>1. ASSUME NEW k \in Transfers PROVE sent'[k] = sent[k] /\ sent[k].heardTs \in Nat
            BY <1>7, <1>10 DEF Transfer
        <3> QED
            BY <3>1 DEF SameButHeard
    <2>3. sent'[fr.id].heardTs = now /\ (Astray(fr.port) => sent'[fr.id].strayed)
        BY <1>3, <1>8, <1>10
    <2> QED
        BY <1>8, <1>9, <1>10, <2>1, <2>2, <2>3 DEF Air
<1>12. Carried(fr)'
    <2>1. \A o \in Transfers' : ~(o > id)
        BY <1>7, <1>10
    <2>2. fr = FrameOf(fr.id, sent'[fr.id], progress'[fr.id]) /\ fr.id \in Transfers'
        BY <1>6, <1>7, <1>8, <1>10
    <2> QED
        BY <1>8, <2>1, <2>2 DEF Carried
<1>13. BusTypes'
    <2>1. ASSUME NEW k \in Transfers'
          PROVE  progress'[k] <= sent'[k].frames /\ sent'[k].startTs <= now' /\ sent'[k].heardTs <= now'
        <3>1. CASE k = id
            <4>1. 1 <= tr.frames /\ tr.startTs <= now /\ tr.heardTs <= now
                BY <1>3, <1>4 DEF Transfer, Types, BusTypes
            <4> QED
                BY <1>9, <1>10, <3>1, <4>1
        <3>2. CASE k \in Transfers
            BY <1>9, <1>10, <3>2 DEF Types, BusTypes
        <3> QED
            BY <1>5, <1>7, <1>10, <3>1, <3>2
    <2>2. intact' \subseteq Transfers'
        <3>1. intact \subseteq Transfers'
            BY <1>5, <1>7, <1>10 DEF Types, BusTypes
        <3>2. fr.id \in Transfers'
            BY <1>7, <1>8, <1>10
        <3> QED
            BY <1>9, <3>1, <3>2
    <2>3. last' \in [Remotes -> {NoFrame} \cup [frame : Frame, ts : Nat]]
        <3>1. now \in Nat /\ last \in [Remotes -> {NoFrame} \cup [frame : Frame, ts : Nat]]
            BY DEF Types, BusTypes
        <3> QED
            BY <1>8, <1>9, <3>1 DEF OnBus
    <2>4. now' \in Nat /\ now' <= MaxTime
        BY <1>9 DEF Types, BusTypes
    <2> QED
        BY <1>10, <2>1, <2>2, <2>3, <2>4 DEF BusTypes
<1>14. fr.id = Len(sent) + 1 /\ fr.id \notin Transfers
    BY <1>5, <1>7, <1>8
<1>15. sent'[fr.id] = tr /\ tr.startTs = now /\ tr.heardTs = now /\ tr.frames = n /\ progress'[fr.id] = 1
    BY <1>3, <1>8, <1>10
<1>16. fr \in Frame
    BY <1>8
<1> QED
    BY <1>4, <1>8, <1>9, <1>11, <1>12, <1>13, <1>14, <1>15, <1>16

LEMMA SendNextFacts ==
    ASSUME Types, NEW id \in Transfers, SendNext(id)
    PROVE  \E fr \in Frame :
        /\ fr.id = id /\ ~fr.start /\ fr = FrameOf(id, sent[id], progress[id] + 1)
        /\ Air(fr) /\ Carried(fr)' /\ OnBus(fr) /\ BusTypes'
        /\ sent' = sent /\ progress'[id] = progress[id] + 1
        /\ progress[id] < sent[id].frames
        /\ intact' = intact \ (IF Lost(fr) THEN {id} ELSE Strayed(fr))
<1>1. PICK tr \in Transfer : tr = sent[id]
    BY DEF Transfers, Types, BusTypes
<1>2. PICK i \in Nat \ {0} : i = progress[id] + 1 /\ i >= 2
    <2>1. progress[id] \in Nat \ {0}
        BY DEF Transfers, Types, BusTypes
    <2> QED
        BY <2>1
<1>3. PICK fr : fr = FrameOf(id, tr, i)
    OBVIOUS
<1>4. /\ sent \in Seq(Transfer) /\ progress \in Seq(Nat \ {0}) /\ Len(sent) \in Nat
      /\ Len(progress) = Len(sent) /\ Transfers = 1..Len(sent) /\ id \in Nat \ {0}
    BY DEF Types, BusTypes, Transfers
<1>5. fr \in Frame /\ fr.id = id /\ ~fr.start
      /\ fr.port = tr.port /\ fr.src = tr.src /\ fr.priority = tr.priority
    <2>1. fr \in Frame
        BY <1>3, <1>4, FrameType
    <2>2. fr.start <=> i = 1
        BY <1>3 DEF FrameOf
    <2> QED
        BY <1>2, <1>3, <2>1, <2>2 DEF FrameOf
<1>6. /\ i <= tr.frames
      /\ \A k \in Transfers : k > id =>
            ~(sent[k].port = tr.port /\ sent[k].src = tr.src /\ sent[k].priority = tr.priority)
      /\ progress' = [progress EXCEPT ![id] = i]
      /\ OnBus(fr)
      /\ intact' = intact \ (IF Lost(fr) THEN {id} ELSE Strayed(fr))
      /\ sent' = sent /\ now' = now
    BY <1>1, <1>2, <1>3 DEF SendNext
<1>7. /\ progress' \in Seq(Nat \ {0}) /\ Len(progress') = Len(sent) /\ Transfers' = Transfers
      /\ progress'[id] = i /\ \A k \in Transfers : k # id => progress'[k] = progress[k]
    BY <1>2, <1>4, <1>6 DEF Transfers
<1>8. Air(fr)
    <2>1. \A k \in Transfers : SameButHeard(sent'[k], sent[k]) /\ sent'[k].heardTs >= sent[k].heardTs
        <3>1. ASSUME NEW k \in Transfers PROVE sent'[k] = sent[k] /\ sent[k].heardTs \in Nat
            <4>1. sent[k] \in Transfer
                BY <1>4
            <4> QED
                BY <1>6, <4>1 DEF Transfer
        <3> QED
            BY <3>1 DEF SameButHeard
    <2> QED
        BY <1>5, <1>6, <1>7, <2>1 DEF Air
<1>9. Carried(fr)'
    BY <1>1, <1>3, <1>5, <1>6, <1>7 DEF Carried, SameCanID
<1>10. BusTypes'
    <2>1. \A k \in Transfers' : /\ progress'[k] <= sent'[k].frames
                               /\ sent'[k].startTs <= now' /\ sent'[k].heardTs <= now'
        BY <1>1, <1>6, <1>7 DEF Types, BusTypes
    <2>2. intact' \subseteq Transfers'
        BY <1>6, <1>7 DEF Types, BusTypes
    <2>3. last' \in [Remotes -> {NoFrame} \cup [frame : Frame, ts : Nat]]
        <3>1. now \in Nat /\ last \in [Remotes -> {NoFrame} \cup [frame : Frame, ts : Nat]]
            BY DEF Types, BusTypes
        <3> QED
            BY <1>5, <1>6, <3>1 DEF OnBus
    <2>4. now' \in Nat /\ now' <= MaxTime
        BY <1>6 DEF Types, BusTypes
    <2> QED
        BY <1>4, <1>6, <1>7, <2>1, <2>2, <2>3, <2>4 DEF BusTypes
<1>11. progress[id] < sent[id].frames
    <2>1. progress[id] \in Nat /\ tr.frames \in Nat
        BY <1>4 DEF Transfer
    <2> QED
        BY <1>1, <1>2, <1>6, <2>1
<1> QED
    BY <1>1, <1>2, <1>3, <1>5, <1>6, <1>7, <1>8, <1>9, <1>10, <1>11

LEMMA DuplicateFacts ==
    ASSUME Types, NEW n \in Remotes, Duplicate(n), Carried(last[n].frame)
    PROVE  \E fr \in Frame :
        /\ fr = last[n].frame /\ last[n] # NoFrame
        /\ now - last[n].ts <= TransferIDTimeout
        /\ Air(fr) /\ Carried(fr)' /\ IngestFrame(fr) /\ BusTypes'
        /\ fr.id \in Transfers /\ progress' = progress /\ last' = last
        /\ intact' = intact \ Strayed(fr)
<1>1. PICK fr : fr = last[n].frame
    OBVIOUS
<1>2. PICK id : id = fr.id
    OBVIOUS
<1>3. last[n] \in [frame : Frame, ts : Nat] /\ fr \in Frame
    BY <1>1 DEF Duplicate, Types, BusTypes
<1>4. /\ id \in Transfers /\ fr = FrameOf(id, sent[id], progress[id])
      /\ \A o \in Transfers : o > id => ~SameCanID(sent[o], fr)
    BY <1>1, <1>2 DEF Carried
<1>5. /\ sent \in Seq(Transfer) /\ Len(sent) \in Nat /\ Transfers = 1..Len(sent) /\ now \in Nat
    BY DEF Types, BusTypes, Transfers
<1>6. /\ \A again : again = [sent[id] EXCEPT !.heardTs = now, !.strayed = @ \/ Astray(fr.port)]
            => sent' = IF fr.start THEN [sent EXCEPT ![id] = again] ELSE sent
      /\ IngestFrame(fr) /\ intact' = intact \ Strayed(fr)
      /\ progress' = progress /\ last' = last /\ now' = now
      /\ last[n] # NoFrame /\ now - last[n].ts <= TransferIDTimeout
    BY <1>1, <1>2 DEF Duplicate
<1>16. sent[id] \in Transfer
    BY <1>4, <1>5
<1>17. PICK astray \in BOOLEAN : astray = (sent[id].strayed \/ Astray(fr.port))
    OBVIOUS
<1>7. PICK tr \in Transfer : tr = [sent[id] EXCEPT !.heardTs = now, !.strayed = astray]
    BY <1>5, <1>16 DEF Transfer
<1>18. sent' = IF fr.start THEN [sent EXCEPT ![id] = tr] ELSE sent
    BY <1>6, <1>7, <1>17
<1>8. /\ sent' \in Seq(Transfer) /\ Transfers' = Transfers /\ Len(sent') = Len(sent)
      /\ \A k \in Transfers : k # id => sent'[k] = sent[k]
      /\ sent'[id] = IF fr.start THEN tr ELSE sent[id]
    BY <1>4, <1>5, <1>7, <1>18 DEF Transfers
<1>9. SameButHeard(sent'[id], sent[id])
    <2>1. sent[id] \in Transfer
        BY <1>4, <1>5
    <2> QED
        BY <1>7, <1>8, <2>1 DEF SameButHeard, Transfer
<1>10. \A k \in Transfers : SameButHeard(sent'[k], sent[k])
    BY <1>8, <1>9 DEF SameButHeard
<1>11. BusTypes'
    <2>1. \A k \in Transfers' : progress'[k] <= sent'[k].frames /\ sent'[k].startTs <= now'
        BY <1>6, <1>8, <1>10 DEF Types, BusTypes, SameButHeard
    <2>2. \A k \in Transfers' : sent'[k].heardTs <= now'
        <3>1. tr.heardTs = now
            BY <1>4, <1>5, <1>7 DEF Transfer
        <3> QED
            BY <1>5, <1>6, <1>8, <3>1 DEF Types, BusTypes
    <2>3. intact' \subseteq Transfers'
        BY <1>6, <1>8 DEF Types, BusTypes
    <2> QED
        BY <1>6, <1>8, <2>1, <2>2, <2>3 DEF Types, BusTypes
<1>12. \A k \in Transfers : sent'[k].heardTs >= sent[k].heardTs
    <2>1. tr.heardTs = now
        BY <1>4, <1>5, <1>7 DEF Transfer
    <2>2. \A k \in Transfers : sent[k].heardTs \in Nat /\ sent[k].heardTs <= now
        <3>1. \A k \in Transfers : sent[k] \in Transfer
            BY <1>5
        <3> QED
            BY <3>1 DEF Types, BusTypes, Transfer
    <2> QED
        BY <1>4, <1>5, <1>8, <2>1, <2>2
<1>19. tr.heardTs = now /\ tr.strayed = astray
    BY <1>7, <1>16 DEF Transfer
<1>13. fr.start => sent'[id].heardTs = now /\ (Astray(fr.port) => sent'[id].strayed)
    BY <1>8, <1>17, <1>19
<1>20. \A k \in Transfers : sent[k].strayed => sent'[k].strayed
    BY <1>8, <1>17, <1>19
<1>14. Air(fr)
    BY <1>2, <1>6, <1>8, <1>10, <1>12, <1>13, <1>20 DEF Air
<1>15. Carried(fr)'
    <2>1. FrameOf(id, sent'[id], progress'[id]) = FrameOf(id, sent[id], progress[id])
        BY <1>6, <1>9 DEF FrameOf, SameButHeard
    <2>2. \A o \in Transfers' : o > id => ~SameCanID(sent'[o], fr)
        BY <1>4, <1>8, <1>10 DEF SameCanID, SameButHeard
    <2> QED
        BY <1>2, <1>3, <1>4, <1>8, <2>1, <2>2 DEF Carried
<1>21. /\ IngestFrame(fr) /\ intact' = intact \ Strayed(fr) /\ progress' = progress /\ last' = last
       /\ last[n] # NoFrame /\ now - last[n].ts <= TransferIDTimeout
    BY <1>6
<1> QED
    BY <1>1, <1>2, <1>3, <1>4, <1>11, <1>14, <1>15, <1>21

-----------------------------------------------------------------------------
(* The frame that may be repeated is that of the transfer in progress.     *)

Repeatable ==
    \A n \in Remotes, fr \in Frame : last[n] # NoFrame /\ last[n].frame = fr =>
        fr.src = n /\ last[n].ts <= now /\ Carried(fr)

\* What every action of the bus has in common.
OnAir(fr) ==
    /\ Air(fr) /\ Carried(fr)' /\ BusTypes'
    /\ fr.id \in Transfers /\ progress[fr.id] = sent[fr.id].frames => progress'[fr.id] = progress[fr.id]
    /\ fr.id \notin Transfers => fr.start
    /\ \A n \in Remotes \ {fr.src} : last'[n] = last[n]
    /\ \/ last'[fr.src] = NoFrame /\ UNCHANGED rxVars
       \/ /\ last'[fr.src] = [frame |-> fr, ts |-> now] /\ IngestFrame(fr)
          /\ fr.id \notin Transfers \/ ~fr.start
       \/ /\ last'[fr.src] = last[fr.src] /\ IngestFrame(fr)
          /\ last[fr.src] # NoFrame /\ last[fr.src].frame = fr
          /\ now - last[fr.src].ts <= TransferIDTimeout

BusStep ==
    \/ \E p \in Ports, n \in Remotes, prio \in Prios, f \in 1..MaxFrames : SendStart(p, n, prio, f)
    \/ \E id \in Transfers : SendNext(id)
    \/ \E n \in Remotes : Duplicate(n)

LEMMA OnBusFacts ==
    ASSUME Types, NEW fr \in Frame, OnBus(fr)
    PROVE  /\ \A n \in Remotes \ {fr.src} : last'[n] = last[n]
           /\ \/ last'[fr.src] = NoFrame /\ UNCHANGED rxVars
              \/ last'[fr.src] = [frame |-> fr, ts |-> now] /\ IngestFrame(fr)
<1>1. fr.src \in Remotes /\ DOMAIN last = Remotes
    BY DEF Types, BusTypes, Frame
<1> QED
    BY <1>1 DEF OnBus

LEMMA BusStepFacts ==
    ASSUME Types, Repeatable, BusStep
    PROVE  \E fr \in Frame : OnAir(fr)
<1>1. ASSUME NEW p \in Ports, NEW n \in Remotes, NEW prio \in Prios, NEW f \in 1..MaxFrames,
             SendStart(p, n, prio, f)
      PROVE  \E fr \in Frame : OnAir(fr)
    <2>1. PICK fr \in Frame : /\ fr.id \notin Transfers /\ fr.start
                              /\ Air(fr) /\ Carried(fr)' /\ OnBus(fr) /\ BusTypes'
        BY <1>1, SendStartFacts
    <2> QED
        BY <2>1, OnBusFacts DEF OnAir
<1>2. ASSUME NEW id \in Transfers, SendNext(id)
      PROVE  \E fr \in Frame : OnAir(fr)
    <2>1. PICK fr \in Frame : /\ fr.id = id /\ ~fr.start /\ progress[id] < sent[id].frames
                              /\ Air(fr) /\ Carried(fr)' /\ OnBus(fr) /\ BusTypes'
        BY <1>2, SendNextFacts
    <2>2. progress[id] # sent[id].frames
        <3>1. progress[id] \in Nat
            BY DEF Types, BusTypes, Transfers
        <3>2. sent[id] \in Transfer
            BY DEF Types, BusTypes, Transfers
        <3> QED
            BY <2>1, <3>1, <3>2 DEF Transfer
    <2> QED
        BY <2>1, <2>2, OnBusFacts DEF OnAir
<1>3. ASSUME NEW n \in Remotes, Duplicate(n)
      PROVE  \E fr \in Frame : OnAir(fr)
    <2>1. last[n] # NoFrame
        BY <1>3 DEF Duplicate
    <2>2. Carried(last[n].frame) /\ last[n].frame.src = n
        <3>1. PICK g \in Frame : g = last[n].frame
            BY <2>1 DEF Types, BusTypes
        <3> QED
            BY <2>1, <3>1 DEF Repeatable
    <2>3. PICK fr \in Frame : /\ fr = last[n].frame /\ last[n] # NoFrame
                              /\ now - last[n].ts <= TransferIDTimeout
                              /\ Air(fr) /\ Carried(fr)' /\ IngestFrame(fr) /\ BusTypes'
                              /\ fr.id \in Transfers /\ progress' = progress /\ last' = last
        BY <1>3, <2>2, DuplicateFacts
    <2> QED
        BY <2>2, <2>3 DEF OnAir
<1> QED
    BY <1>1, <1>2, <1>3 DEF BusStep

LEMMA BusStepTypes ==
    ASSUME Types, NEW fr \in Frame, OnAir(fr)
    PROVE  Types'
<1>1. CASE IngestFrame(fr)
    BY <1>1, IngestTypes DEF OnAir, Types
<1>2. CASE UNCHANGED rxVars
    BY <1>2 DEF OnAir, Types, RxTypes, rxVars, Sessions
<1> QED
    BY <1>1, <1>2 DEF OnAir

LEMMA BusStepRepeatable ==
    ASSUME Types, Repeatable, NEW fr \in Frame, OnAir(fr)
    PROVE  Repeatable'
<1>1. Carried(fr)' /\ Air(fr) /\ now' = now /\ now \in Nat
    BY DEF OnAir, Air, Types, BusTypes
<1>2. last'[fr.src] # NoFrame =>
            last'[fr.src].frame = fr /\ last'[fr.src].ts <= now'
    BY <1>1 DEF OnAir, Repeatable, Frame
<1>3. ASSUME NEW n \in Remotes, NEW g \in Frame, n # fr.src, last[n] # NoFrame, last[n].frame = g
      PROVE  last'[n] = last[n] /\ g.src = n /\ last[n].ts <= now /\ Carried(g)'
    <2>2. last'[n] = last[n] /\ g.src = n /\ last[n].ts <= now
        BY <1>3 DEF OnAir, Repeatable
    <2>3. /\ g \in Frame /\ g.id \in Transfers /\ g = FrameOf(g.id, sent[g.id], progress[g.id])
          /\ \A o \in Transfers : o > g.id => ~SameCanID(sent[o], g)
        BY <1>3 DEF Repeatable, Carried
    <2>4. g.src = sent[g.id].src
        <3>1. FrameOf(g.id, sent[g.id], progress[g.id]).src = sent[g.id].src
            BY DEF FrameOf
        <3> QED
            BY <2>3, <3>1
    <2>5. fr.id \in Transfers' /\ sent'[fr.id].src = fr.src
        <3>1. FrameOf(fr.id, sent'[fr.id], progress'[fr.id]).src = sent'[fr.id].src
            BY DEF FrameOf
        <3> QED
            BY <1>1, <3>1 DEF Carried
    <2>6. g.id # fr.id
        <3>1. sent'[g.id].src = sent[g.id].src
            BY <1>1, <2>3 DEF Air, SameButHeard
        <3> QED
            BY <1>3, <2>2, <2>4, <2>5, <3>1
    <2>7. g.id \in Transfers' /\ FrameOf(g.id, sent'[g.id], progress'[g.id])
                                    = FrameOf(g.id, sent[g.id], progress[g.id])
        BY <1>1, <2>3, <2>6 DEF Air, SameButHeard, FrameOf
    <2>8. ASSUME NEW o \in Transfers', o > g.id PROVE ~SameCanID(sent'[o], g)
        <3>1. CASE o \in Transfers
            BY <1>1, <2>3, <2>8, <3>1 DEF Air, SameButHeard, SameCanID
        <3>2. CASE o = fr.id
            BY <1>3, <2>2, <2>5, <3>2 DEF SameCanID
        <3> QED
            BY <1>1, <3>1, <3>2 DEF Air
    <2>9. Carried(g)'
        BY <2>3, <2>7, <2>8 DEF Carried
    <2> QED
        BY <2>2, <2>9
<1>4. ASSUME NEW n \in Remotes, NEW g \in Frame, last'[n] # NoFrame, last'[n].frame = g
      PROVE  g.src = n /\ last'[n].ts <= now' /\ Carried(g)'
    <2>1. CASE n = fr.src
        BY <1>1, <1>2, <1>4, <2>1
    <2>2. CASE n # fr.src
        BY <1>1, <1>3, <1>4, <2>2 DEF OnAir
    <2> QED
        BY <2>1, <2>2
<1> QED
    BY <1>4 DEF Repeatable

-----------------------------------------------------------------------------
(* The animation list is ordered by admission.                             *)

Ordered ==
    /\ \A i, j \in DOMAIN animation : i < j =>
        /\ animation[i] # animation[j]
        /\ sessions[animation[i]].lastAdmissionTs <= sessions[animation[j]].lastAdmissionTs
    /\ \A s \in Sessions : s[1] \in subscribed /\ sessions[s].lastAdmissionTs <= now

\* Every session keeps its time of admission.
LEMMA OrderedKept ==
    ASSUME Types, Ordered, KeepsOrder(animation', animation) \/ animation' = animation,
           Sessions' \subseteq Sessions, ToSet(animation') = Sessions',
           \A s \in Sessions' : sessions'[s].lastAdmissionTs = sessions[s].lastAdmissionTs,
           \A s \in Sessions' : s[1] \in subscribed',
           now' >= now, now' \in Nat
    PROVE  Ordered'
<1>1. ASSUME NEW i \in DOMAIN animation', NEW j \in DOMAIN animation', i < j
      PROVE  \E m, n \in DOMAIN animation :
                m < n /\ animation[m] = animation'[i] /\ animation[n] = animation'[j]
    <2>1. CASE KeepsOrder(animation', animation)
        BY <1>1, <2>1 DEF KeepsOrder
    <2>2. CASE animation' = animation
        BY <1>1, <2>2
    <2> QED
        BY <2>1, <2>2
<1>2. ASSUME NEW i \in DOMAIN animation', NEW j \in DOMAIN animation', i < j
      PROVE  /\ animation'[i] # animation'[j]
             /\ sessions'[animation'[i]].lastAdmissionTs <= sessions'[animation'[j]].lastAdmissionTs
    <2>1. PICK m \in DOMAIN animation, n \in DOMAIN animation :
                m < n /\ animation[m] = animation'[i] /\ animation[n] = animation'[j]
        BY <1>1, <1>2
    <2>2. animation'[i] \in Sessions' /\ animation'[j] \in Sessions'
        BY <1>2 DEF ToSet
    <2>3. PICK x, y : x = animation'[i] /\ y = animation'[j]
        OBVIOUS
    <2>4. x # y /\ sessions[x].lastAdmissionTs <= sessions[y].lastAdmissionTs
        BY <2>1, <2>3 DEF Ordered
    <2>5. sessions'[x].lastAdmissionTs = sessions[x].lastAdmissionTs
          /\ sessions'[y].lastAdmissionTs = sessions[y].lastAdmissionTs
        BY <2>2, <2>3
    <2> QED
        BY <2>3, <2>4, <2>5
<1>3. ASSUME NEW s \in Sessions' PROVE sessions'[s].lastAdmissionTs <= now'
    <2>1. s \in Sessions /\ sessions[s] \in Session
        BY DEF Types, RxTypes
    <2>2. sessions[s].lastAdmissionTs \in Int /\ sessions[s].lastAdmissionTs <= now /\ now \in Nat
        BY <2>1 DEF Ordered, Session, Types, BusTypes
    <2> QED
        BY <2>2
<1> QED
    BY <1>2, <1>3 DEF Ordered

LEMMA StartsOrdered ==
    ASSUME Types, Ordered, NEW fr \in Frame, NEW p \in subscribed, Starts(p, fr),
           now' = now, subscribed' = subscribed
    PROVE  Ordered'
<1>1. PICK s : s = <<p, fr.src>>
    OBVIOUS
<1>2. s \in Ports \X Remotes /\ s[1] = p /\ now \in Nat
    BY <1>1 DEF Types, RxTypes, BusTypes, Frame
<1>3. PICK new \in Session : sessions' = WithSession(s, new) /\ new.lastAdmissionTs = now
    BY <1>1 DEF Starts, Opened
<1>4. Sessions' = Sessions \cup {s} /\ sessions'[s] = new
      /\ \A k \in Sessions \ {s} : sessions'[k] = sessions[k]
    BY <1>3, WithSessionFacts
<1>5. EndsWith(animation', animation, s) /\ ToSet(animation) = Sessions
    BY <1>1, <1>2, EnlistTypes DEF Starts, Types, RxTypes
<1>6. \A k \in Sessions : sessions[k].lastAdmissionTs <= now
    BY DEF Ordered
<1>7. ASSUME NEW i \in DOMAIN animation', NEW j \in DOMAIN animation', i < j
      PROVE  /\ animation'[i] # animation'[j]
             /\ sessions'[animation'[i]].lastAdmissionTs <= sessions'[animation'[j]].lastAdmissionTs
    <2>1. PICK x, y : x = animation'[i] /\ y = animation'[j]
        OBVIOUS
    <2>2. x # s /\ \/ y = s /\ x \in ToSet(animation)
                   \/ \E m, n \in DOMAIN animation : m < n /\ animation[m] = x /\ animation[n] = y
        BY <1>5, <1>7, <2>1 DEF EndsWith
    <2>3. x \in Sessions
        BY <1>5, <2>2 DEF ToSet
    <2>4. CASE y = s
        BY <1>3, <1>4, <1>6, <2>1, <2>2, <2>3, <2>4
    <2>5. CASE y # s
        <3>1. PICK m \in DOMAIN animation, n \in DOMAIN animation :
                    m < n /\ animation[m] = x /\ animation[n] = y
            BY <2>2, <2>5
        <3>2. y \in Sessions
            BY <1>5, <3>1 DEF ToSet
        <3>3. x # y /\ sessions[x].lastAdmissionTs <= sessions[y].lastAdmissionTs
            BY <3>1 DEF Ordered
        <3>4. sessions'[x] = sessions[x] /\ sessions'[y] = sessions[y]
            BY <1>4, <2>2, <2>3, <2>5, <3>2
        <3> QED
            BY <2>1, <3>3, <3>4
    <2> QED
        BY <2>4, <2>5
<1>8. \A k \in Sessions' : k[1] \in subscribed' /\ sessions'[k].lastAdmissionTs <= now'
    BY <1>2, <1>3, <1>4 DEF Ordered
<1> QED
    BY <1>7, <1>8 DEF Ordered

LEMMA ContinuesFacts ==
    ASSUME Types, NEW fr, NEW p \in subscribed, NEW n \in Remotes, Continues(p, n, fr)
    PROVE  /\ Sessions' = Sessions
           /\ \A s \in Sessions : /\ sessions'[s].lastAdmissionTs = sessions[s].lastAdmissionTs
                                  /\ sessions'[s].lastAdmittedTransferID = sessions[s].lastAdmittedTransferID
                                  /\ sessions'[s].lastAdmittedPriority = sessions[s].lastAdmittedPriority
           /\ animation' = animation
<1>1. PICK s : s = <<p, n>>
    OBVIOUS
<1>2. PICK new : Advanced(sessions[s], fr, new) /\ sessions' = WithSession(s, new)
    BY <1>1 DEF Continues
<1>3. Sessions' = Sessions \cup {s} /\ sessions'[s] = new /\ s \in Sessions
      /\ \A k \in Sessions \ {s} : sessions'[k] = sessions[k]
    BY <1>1, <1>2, WithSessionFacts DEF Continues
<1> QED
    BY <1>2, <1>3 DEF Advanced, Continues

LEMMA CleansFacts ==
    ASSUME Types, NEW s \in Sessions, Cleans(s)
    PROVE  /\ Sessions' = Sessions
           /\ \A k \in Sessions : /\ sessions'[k].lastAdmissionTs = sessions[k].lastAdmissionTs
                                  /\ sessions'[k].lastAdmittedTransferID = sessions[k].lastAdmittedTransferID
                                  /\ sessions'[k].lastAdmittedPriority = sessions[k].lastAdmittedPriority
           /\ animation' = animation
           /\ \A k \in Sessions, q \in Prios :
                \/ sessions'[k].slots[q] = sessions[k].slots[q]
                \/ /\ sessions'[k].slots[q] = NoSlot /\ sessions[k].slots[q] # NoSlot
                   /\ sessions[k].slots[q].startTs < now - Timeout
<1>1. PICK new : Cleaned(sessions[s], new) /\ sessions' = WithSession(s, new)
    BY DEF Cleans
<1>2. Sessions' = Sessions \cup {s} /\ sessions'[s] = new
      /\ \A k \in Sessions \ {s} : sessions'[k] = sessions[k]
    BY <1>1, WithSessionFacts
<1> QED
    BY <1>1, <1>2 DEF Cleaned, Cleans

LEMMA IngestOrdered ==
    ASSUME Types, Ordered, NEW fr \in Frame, IngestFrame(fr), Types', now' = now
    PROVE  Ordered'
<1>1. subscribed' = subscribed /\ now \in Nat /\ now >= now /\ ToSet(animation') = Sessions'
    BY IngestCases DEF Types, BusTypes, RxTypes
<1>2. CASE Ignored
    BY <1>1, <1>2 DEF Ordered, Ignored, Sessions
<1>3. ASSUME NEW p \in subscribed, Starts(p, fr) PROVE Ordered'
    BY <1>1, <1>3, StartsOrdered
<1>4. ASSUME NEW p \in subscribed, NEW n \in Remotes, Continues(p, n, fr) PROVE Ordered'
    <2>1. Sessions' = Sessions /\ animation' = animation
          /\ \A s \in Sessions : sessions'[s].lastAdmissionTs = sessions[s].lastAdmissionTs
        BY <1>4, ContinuesFacts
    <2>2. \A s \in Sessions' : s[1] \in subscribed'
        BY <1>1, <2>1 DEF Ordered
    <2> QED
        BY <1>1, <2>1, <2>2, OrderedKept
<1> QED
    BY <1>2, <1>3, <1>4, IngestCases

LEMMA BusStepOrdered ==
    ASSUME Types, Ordered, NEW fr \in Frame, OnAir(fr)
    PROVE  Ordered'
<1>1. Types' /\ now' = now
    BY BusStepTypes DEF OnAir, Air
<1>2. CASE IngestFrame(fr)
    BY <1>1, <1>2, IngestOrdered
<1>3. CASE UNCHANGED rxVars
    BY <1>1, <1>3 DEF Ordered, rxVars, Sessions
<1> QED
    BY <1>2, <1>3 DEF OnAir

LEMMA UnsubscribeOrdered ==
    ASSUME Types, Ordered, NEW p \in Ports, Unsubscribe(p)
    PROVE  Ordered'
<1>1. PICK K : K = {k \in Sessions : k[1] = p}
    OBVIOUS
<1>2. Forget(K)
    BY <1>1 DEF Unsubscribe
<1>3. now' = now /\ now \in Nat /\ now >= now /\ subscribed' = subscribed \ {p}
    BY DEF Unsubscribe, Types, BusTypes
<1>4. /\ Sessions' = Sessions \ K /\ \A k \in Sessions' : sessions'[k] = sessions[k]
      /\ ToSet(animation') = Sessions' /\ KeepsOrder(animation', animation)
    BY <1>2, ForgetTypes
<1>5. \A k \in Sessions' : k[1] \in subscribed'
    BY <1>1, <1>3, <1>4 DEF Ordered
<1> QED
    BY <1>3, <1>4, <1>5, OrderedKept

LEMMA PollOrdered ==
    ASSUME Types, Ordered, Poll
    PROVE  Ordered'
<1>1. PICK s \in Sessions : Reclaims(s) \/ Cleans(s)
    BY PollCases
<1>2. now' = now /\ now \in Nat /\ now >= now /\ subscribed' = subscribed
    BY DEF Poll, Types, BusTypes
<1>3. CASE Reclaims(s)
    <2>1. PICK K : K = {s}
        OBVIOUS
    <2>2. Forget(K)
        BY <1>3, <2>1 DEF Reclaims
    <2>3. /\ Sessions' = Sessions \ K /\ \A k \in Sessions' : sessions'[k] = sessions[k]
          /\ ToSet(animation') = Sessions' /\ KeepsOrder(animation', animation)
        BY <2>2, ForgetTypes
    <2>4. \A k \in Sessions' : k[1] \in subscribed'
        BY <1>2, <2>3 DEF Ordered
    <2> QED
        BY <1>2, <2>3, <2>4, OrderedKept
<1>4. CASE Cleans(s)
    <2>1. Sessions' = Sessions /\ animation' = animation
          /\ \A k \in Sessions : sessions'[k].lastAdmissionTs = sessions[k].lastAdmissionTs
        BY <1>4, CleansFacts
    <2>2. \A k \in Sessions' : k[1] \in subscribed'
        BY <1>2, <2>1 DEF Ordered
    <2>3. ToSet(animation') = Sessions'
        BY <2>1 DEF Types, RxTypes
    <2> QED
        BY <1>2, <2>1, <2>2, <2>3, OrderedKept
<1> QED
    BY <1>1, <1>3, <1>4

LEMMA TickOrdered ==
    ASSUME Types, Ordered, Tick
    PROVE  Ordered'
<1>1. Sessions' = Sessions /\ sessions' = sessions /\ animation' = animation /\ subscribed' = subscribed
    BY DEF Tick, rxVars, Sessions
<1>2. now' >= now /\ now' \in Nat
    BY DEF Tick, Types, BusTypes
<1>3. ToSet(animation') = Sessions' /\ \A k \in Sessions' : k[1] \in subscribed'
    BY <1>1 DEF Types, RxTypes, Ordered
<1> QED
    BY <1>1, <1>2, <1>3, OrderedKept

-----------------------------------------------------------------------------
(* Messages are delivered of finished transfers, and once.                 *)

Finished ==
    \A p \in Ports : \A k \in IdsOf(p) : k \in Transfers /\ progress[k] = sent[k].frames

\* A slot belongs to a transfer of its remote and priority that has more than
\* one frame and was not delivered.
Reassembled(s, prio, k) ==
    /\ k \in Transfers /\ sent[k].src = s[2] /\ sent[k].priority = prio
    /\ sent[k].frames > 1 /\ k \notin IdsOf(s[1])

Slots ==
    \A s \in Sessions, q \in Prios : sessions[s].slots[q] # NoSlot =>
        /\ sessions[s].slots[q].payload # <<>>
        /\ \A k : k = sessions[s].slots[q].payload[1].id => Reassembled(s, q, k)

\* The session still knows the single frame fr, received at ts or later.
Remembered(s, fr, ts) ==
    /\ s \in Sessions
    /\ sessions[s].lastAdmittedTransferID = fr.transferID
    /\ sessions[s].lastAdmittedPriority = fr.priority
    /\ sessions[s].lastAdmissionTs >= ts

\* As long as a delivered single-frame transfer may be repeated.
Guarded ==
    \A n \in Remotes, p \in Ports, fr \in Frame, ts \in Nat :
        /\ last[n] # NoFrame /\ last[n].frame = fr /\ last[n].ts = ts
        /\ now - ts <= TransferIDTimeout
        /\ fr.start /\ fr.end /\ fr.id \in IdsOf(p)
        => Remembered(<<p, n>>, fr, ts)

LEMMA FrameOfFacts ==
    ASSUME NEW fr, NEW id, NEW tr, NEW i, fr = FrameOf(id, tr, i)
    PROVE  /\ fr.id = id /\ fr.index = i /\ fr.port = tr.port /\ fr.src = tr.src
           /\ fr.priority = tr.priority /\ fr.transferID = tr.transferID
           /\ fr.start <=> i = 1
           /\ fr.end <=> i = tr.frames
           /\ fr.toggle <=> i % 2 = 1
BY DEF FrameOf

LEMMA AirFacts ==
    ASSUME Types, NEW fr \in Frame, OnAir(fr)
    PROVE  \E tr \in Transfer, i \in Nat \ {0} :
            /\ fr.id \in Transfers' /\ tr = sent'[fr.id] /\ i = progress'[fr.id] /\ i <= tr.frames
            /\ fr.index = i /\ fr.port = tr.port /\ fr.src = tr.src
            /\ fr.priority = tr.priority /\ fr.transferID = tr.transferID
            /\ fr.start <=> i = 1
            /\ fr.end <=> i = tr.frames
            /\ fr.toggle <=> i % 2 = 1
<1>1. fr.id \in Transfers' /\ fr = FrameOf(fr.id, sent'[fr.id], progress'[fr.id])
    BY DEF OnAir, Carried
<1>2. sent'[fr.id] \in Transfer /\ progress'[fr.id] \in Nat \ {0} /\ progress'[fr.id] <= sent'[fr.id].frames
    BY <1>1 DEF OnAir, BusTypes, Transfers
<1>3. PICK tr \in Transfer, i \in Nat \ {0} : tr = sent'[fr.id] /\ i = progress'[fr.id]
    BY <1>2
<1>4. fr = FrameOf(fr.id, tr, i)
    BY <1>1, <1>3
<1> QED
    BY <1>1, <1>2, <1>3, <1>4, FrameOfFacts

LEMMA AppendIds ==
    ASSUME Types, NEW p \in Ports, NEW m \in Received,
           delivered' = [delivered EXCEPT ![p] = Append(@, m)]
    PROVE  /\ IdsOf(p)' = IdsOf(p) \cup {m.id}
           /\ \A r \in Ports \ {p} : IdsOf(r)' = IdsOf(r)
           /\ AtMostOnce /\ m.id \notin IdsOf(p) => AtMostOnce'
<1>1. PICK d \in Seq(Received) : d = delivered[p]
    BY DEF Types, RxTypes
<1>2. delivered'[p] = Append(d, m) /\ \A r \in Ports \ {p} : delivered'[r] = delivered[r]
    BY <1>1 DEF Types, RxTypes
<1>3. PICK e : e = Append(d, m)
    OBVIOUS
<1>4. /\ Len(d) \in Nat /\ DOMAIN d = 1..Len(d) /\ DOMAIN e = 1..(Len(d) + 1)
      /\ e[Len(d) + 1] = m /\ \A i \in 1..Len(d) : e[i] = d[i]
    BY <1>1, <1>3
<1>5. {e[i].id : i \in DOMAIN e} = {d[i].id : i \in DOMAIN d} \cup {m.id}
    <2>1. \A x \in {e[i].id : i \in DOMAIN e} : x \in {d[i].id : i \in DOMAIN d} \cup {m.id}
        BY <1>4
    <2>2. \A x \in {d[i].id : i \in DOMAIN d} : x \in {e[i].id : i \in DOMAIN e}
        BY <1>4
    <2>3. m.id \in {e[i].id : i \in DOMAIN e}
        BY <1>4
    <2> QED
        BY <2>1, <2>2, <2>3
<1>6. IdsOf(p)' = IdsOf(p) \cup {m.id}
    BY <1>1, <1>2, <1>3, <1>5 DEF IdsOf
<1>7. \A r \in Ports \ {p} : IdsOf(r)' = IdsOf(r)
    BY <1>2 DEF IdsOf
<1>8. ASSUME AtMostOnce, m.id \notin IdsOf(p)
      PROVE  AtMostOnce'
    <2>1. ASSUME NEW i \in DOMAIN e, NEW j \in DOMAIN e, i # j PROVE e[i].id # e[j].id
        <3>1. \A n \in 1..Len(d) : d[n].id # m.id
            BY <1>1, <1>4, <1>8 DEF IdsOf
        <3>2. \A n, o \in 1..Len(d) : n # o => d[n].id # d[o].id
            BY <1>1, <1>4, <1>8 DEF AtMostOnce
        <3>3. CASE i = Len(d) + 1
            BY <1>4, <2>1, <3>1, <3>3
        <3>4. CASE j = Len(d) + 1
            BY <1>4, <2>1, <3>1, <3>4
        <3>5. CASE i \in 1..Len(d) /\ j \in 1..Len(d)
            BY <1>4, <2>1, <3>2, <3>5
        <3> QED
            BY <1>4, <3>3, <3>4, <3>5
    <2>2. \A r \in Ports : delivered'[r] = IF r = p THEN e ELSE delivered[r]
        BY <1>2, <1>3
    <2>3. ASSUME NEW r \in Ports, NEW i \in DOMAIN delivered'[r], NEW j \in DOMAIN delivered'[r], i # j
          PROVE  delivered'[r][i].id # delivered'[r][j].id
        <3>1. CASE r = p
            BY <2>1, <2>2, <2>3, <3>1
        <3>2. CASE r # p
            BY <1>8, <2>2, <2>3, <3>2 DEF AtMostOnce
        <3> QED
            BY <3>1, <3>2
    <2> QED
        BY <2>3 DEF AtMostOnce
<1> QED
    BY <1>6, <1>7, <1>8

\* Where a frame is delivered the slot of its transfer is free afterwards.
Delivers(p, fr) ==
    /\ fr.end
    /\ delivered' = [delivered EXCEPT ![p] = Append(@, [id |-> fr.id, src |-> fr.src])]
    /\ fr.id \notin IdsOf(p)
    /\ <<p, fr.src>> \in Sessions'
    /\ sessions'[<<p, fr.src>>].slots[fr.priority] = NoSlot

LEMMA StartsDelivers ==
    ASSUME Types, Finished, Guarded, NEW fr \in Frame, OnAir(fr), NEW p \in subscribed,
           Starts(p, fr), ~UNCHANGED rxVars
    PROVE  delivered' = delivered \/ Delivers(p, fr)
<1>1. CASE ~fr.end
    BY <1>1 DEF Starts
<1>2. CASE fr.end
    <2>1. PICK s : s = <<p, fr.src>>
        OBVIOUS
    <2>2. PICK new : sessions' = WithSession(s, new) /\ Opened(SessionOf(s), fr, new)
        BY <2>1 DEF Starts
    <2>3. s \in Sessions' /\ sessions'[s].slots[fr.priority] = NoSlot
        BY <1>2, <2>2, WithSessionFacts DEF Opened
    <2>4. ASSUME fr.id \in IdsOf(p) PROVE FALSE
        <3>1. fr.id \in Transfers /\ p \in Ports /\ fr.src \in Remotes
            BY <2>4 DEF Finished, Types, RxTypes, Frame
        <3>2. /\ last[fr.src] # NoFrame /\ last[fr.src].frame = fr
              /\ now - last[fr.src].ts <= TransferIDTimeout
            BY <3>1 DEF OnAir, Starts
        <3>10. last[fr.src].ts \in Nat
            BY <3>1, <3>2 DEF Types, BusTypes
        <3>3. Remembered(s, fr, last[fr.src].ts)
            BY <1>2, <2>1, <2>4, <3>1, <3>2, <3>10 DEF Guarded, Starts
        <3>4. PICK ses : ses = sessions[s]
            OBVIOUS
        <3>5. s \in Sessions /\ ses \in Session /\ ses = SessionOf(s)
            BY <3>3, <3>4 DEF Remembered, SessionOf, Types, RxTypes
        <3>6. /\ ses.lastAdmittedTransferID = fr.transferID /\ ses.lastAdmittedPriority = fr.priority
              /\ ses.lastAdmissionTs >= last[fr.src].ts
            BY <3>3, <3>4 DEF Remembered
        <3>7. last[fr.src].ts \in Nat /\ ses.lastAdmissionTs \in Int /\ now \in Nat /\ TransferIDTimeout \in Nat
            BY <3>1, <3>2, <3>5, RxAssumption DEF Types, BusTypes, Session
        <3>8. ~(now - TransferIDTimeout > ses.lastAdmissionTs)
            BY <3>2, <3>6, <3>7
        <3>9. ~rxSessionSolveAdmission(ses, fr)
            BY <3>6, <3>8 DEF rxSessionSolveAdmission, Starts
        <3> QED
            BY <2>1, <3>5, <3>9 DEF Starts
    <2> QED
        BY <1>2, <2>1, <2>3, <2>4 DEF Starts, Delivers
<1> QED
    BY <1>1, <1>2

LEMMA ContinuesDelivers ==
    ASSUME Types, Slots, NEW fr \in Frame, OnAir(fr), NEW p \in subscribed, NEW n \in Remotes,
           Continues(p, n, fr)
    PROVE  delivered' = delivered \/ Delivers(p, fr)
<1>1. PICK s : s = <<p, n>>
    OBVIOUS
<1>2. s \in Sessions /\ sessions[s] \in Session /\ fr.priority \in Prios
    BY <1>1 DEF Continues, Types, RxTypes, Frame
<1>3. PICK slot : slot = sessions[s].slots[fr.priority]
    OBVIOUS
<1>4. slot \in Slot /\ slot # NoSlot
    BY <1>1, <1>2, <1>3 DEF Continues, rxSessionSolveAdmission, Session
<1>5. slot.payload # <<>> /\ Reassembled(s, fr.priority, slot.payload[1].id)
    BY <1>2, <1>3, <1>4 DEF Slots
<1>6. PICK payload : payload = Extended(slot, fr)
    OBVIOUS
<1>7. slot.payload \in Seq(Piece) /\ [id |-> fr.id, index |-> fr.index] \in Piece
    BY <1>4 DEF Slot, Piece, Frame
<1>8. /\ payload[1] = slot.payload[1]
      /\ payload[Len(payload)] = [id |-> fr.id, index |-> fr.index]
      /\ Len(payload) \in 1..Len(payload)
    BY <1>5, <1>6, <1>7 DEF Extended
<1>9. CASE ~(fr.end /\ crcOK(payload))
    BY <1>1, <1>3, <1>6, <1>9 DEF Continues
<1>10. CASE fr.end /\ crcOK(payload)
    <2>1. payload[1].id = fr.id
        <3>1. PICK a, b : /\ a = [id |-> payload[1].id, index |-> Len(payload)]
                          /\ b = [id |-> fr.id, index |-> fr.index]
            OBVIOUS
        <3>2. a = b
            BY <1>8, <1>10, <3>1 DEF crcOK
        <3>3. a.id = payload[1].id /\ b.id = fr.id
            BY <3>1
        <3> QED
            BY <3>2, <3>3
    <2>2. fr.id \in Transfers /\ sent[fr.id].src = n /\ fr.id \notin IdsOf(p)
        BY <1>1, <1>5, <1>8, <2>1 DEF Reassembled
    <2>3. fr.src = n
        BY <2>2, AirFacts DEF OnAir, Air, SameButHeard
    <2>4. delivered' = [delivered EXCEPT ![p] = Append(@, [id |-> fr.id, src |-> fr.src])]
        BY <1>1, <1>3, <1>6, <1>10, <2>1 DEF Continues
    <2>5. PICK new : Advanced(sessions[s], fr, new) /\ sessions' = WithSession(s, new)
        BY <1>1 DEF Continues
    <2>6. s \in Sessions' /\ sessions'[s].slots[fr.priority] = NoSlot
        BY <1>10, <2>5, WithSessionFacts DEF Advanced
    <2> QED
        BY <1>1, <1>10, <2>2, <2>3, <2>4, <2>6 DEF Delivers
<1> QED
    BY <1>9, <1>10

LEMMA BusStepDelivers ==
    ASSUME Types, Finished, Slots, Guarded, NEW fr \in Frame, OnAir(fr)
    PROVE  delivered' = delivered \/ \E p \in subscribed : Delivers(p, fr)
<1>1. CASE UNCHANGED rxVars
    BY <1>1 DEF rxVars
<1>2. CASE ~UNCHANGED rxVars /\ IngestFrame(fr)
    BY <1>2, IngestCases, StartsDelivers, ContinuesDelivers DEF Ignored
<1> QED
    BY <1>1, <1>2 DEF OnAir

\* What a delivery adds to the messages.
LEMMA DeliversFacts ==
    ASSUME Types, NEW fr \in Frame, NEW p \in subscribed, Delivers(p, fr)
    PROVE  /\ IdsOf(p)' = IdsOf(p) \cup {fr.id}
           /\ \A r \in Ports \ {p} : IdsOf(r)' = IdsOf(r)
           /\ AtMostOnce => AtMostOnce'
<1>1. p \in Ports
    BY DEF Types, RxTypes
<1>2. PICK m \in Received : m = [id |-> fr.id, src |-> fr.src]
    BY DEF Received, Frame
<1>3. delivered' = [delivered EXCEPT ![p] = Append(@, m)] /\ m.id = fr.id /\ fr.id \notin IdsOf(p)
    BY <1>2 DEF Delivers
<1> QED
    BY <1>1, <1>3, AppendIds

LEMMA BusStepIds ==
    ASSUME Types, Finished, Slots, Guarded, NEW fr \in Frame, OnAir(fr)
    PROVE  /\ \A r \in Ports : \A k : k \in IdsOf(r)' => k \in IdsOf(r) \/ (k = fr.id /\ fr.end)
           /\ \A r \in Ports : IdsOf(r) \subseteq IdsOf(r)'
           /\ \A r \in Ports : \A k : k \in IdsOf(r)' \ IdsOf(r) => Delivers(r, fr) /\ k = fr.id
           /\ AtMostOnce => AtMostOnce'
<1>1. CASE delivered' = delivered
    <2>1. \A r \in Ports : IdsOf(r)' = IdsOf(r)
        BY <1>1 DEF IdsOf
    <2>2. AtMostOnce => AtMostOnce'
        BY <1>1 DEF AtMostOnce
    <2>3. \A r \in Ports : \A k : k \in IdsOf(r)' \ IdsOf(r) => FALSE
        BY <2>1
    <2>4. \A r \in Ports : IdsOf(r) \subseteq IdsOf(r)'
        BY <2>1
    <2>5. \A r \in Ports : \A k : k \in IdsOf(r)' => k \in IdsOf(r) \/ (k = fr.id /\ fr.end)
        BY <2>1
    <2> QED
        BY <2>2, <2>3, <2>4, <2>5
<1>2. ASSUME NEW p \in subscribed, Delivers(p, fr)
      PROVE  /\ \A r \in Ports : \A k : k \in IdsOf(r)' => k \in IdsOf(r) \/ (k = fr.id /\ fr.end)
             /\ \A r \in Ports : IdsOf(r) \subseteq IdsOf(r)'
             /\ \A r \in Ports : \A k : k \in IdsOf(r)' \ IdsOf(r) => Delivers(r, fr) /\ k = fr.id
             /\ AtMostOnce => AtMostOnce'
    <2>1. /\ IdsOf(p)' = IdsOf(p) \cup {fr.id}
          /\ \A r \in Ports \ {p} : IdsOf(r)' = IdsOf(r)
          /\ AtMostOnce => AtMostOnce'
        BY <1>2, DeliversFacts
    <2>2. fr.end
        BY <1>2 DEF Delivers
    <2>3. \A r \in Ports : IdsOf(r) \subseteq IdsOf(r)'
        BY <2>1
    <2>4. \A r \in Ports : \A k : k \in IdsOf(r)' \ IdsOf(r) => Delivers(r, fr) /\ k = fr.id
        BY <1>2, <2>1
    <2> QED
        BY <2>1, <2>2, <2>3, <2>4
<1> QED
    BY <1>1, <1>2, BusStepDelivers

LEMMA BusStepFinished ==
    ASSUME Types, Finished, Slots, Guarded, NEW fr \in Frame, OnAir(fr)
    PROVE  Finished'
<1>1. PICK tr \in Transfer, i \in Nat \ {0} :
        /\ fr.id \in Transfers' /\ tr = sent'[fr.id] /\ i = progress'[fr.id]
        /\ fr.end <=> i = tr.frames
    BY AirFacts
<1>2. ASSUME NEW p \in Ports, NEW k \in IdsOf(p)'
      PROVE  k \in Transfers' /\ progress'[k] = sent'[k].frames
    <2>1. CASE k \in IdsOf(p)
        <3>1. k \in Transfers /\ progress[k] = sent[k].frames
            BY <2>1 DEF Finished
        <3>2. k \in Transfers' /\ sent'[k].frames = sent[k].frames
            BY <3>1 DEF OnAir, Air, SameButHeard
        <3>3. progress'[k] = progress[k]
            BY <3>1 DEF OnAir, Air
        <3> QED
            BY <3>1, <3>2, <3>3
    <2>2. CASE k = fr.id /\ fr.end
        BY <1>1, <2>2
    <2> QED
        BY <2>1, <2>2, BusStepIds
<1> QED
    BY <1>2 DEF Finished

\* A slot that is occupied after a frame was occupied before, or is of the
\* transfer that the frame starts.
LEMMA IngestSlots ==
    ASSUME Types, Slots, NEW fr \in Frame, IngestFrame(fr), NEW s \in Sessions', NEW q \in Prios,
           NEW slot, slot = sessions'[s].slots[q], slot # NoSlot
    PROVE  \/ /\ s \in Sessions /\ sessions[s].slots[q] # NoSlot
              /\ slot.payload # <<>> /\ slot.payload[1] = sessions[s].slots[q].payload[1]
           \/ /\ fr.start /\ ~fr.end /\ s[2] = fr.src /\ q = fr.priority
              /\ slot.payload # <<>> /\ slot.payload[1].id = fr.id
              /\ delivered' = delivered
<1> DEFINE Same(t) == /\ t \in Sessions /\ sessions[t].slots[q] # NoSlot
                      /\ slot.payload # <<>> /\ slot.payload[1] = sessions[t].slots[q].payload[1]
<1>1. ASSUME s \in Sessions, slot = sessions[s].slots[q]
      PROVE  Same(s)
    BY <1>1 DEF Slots
<1>2. CASE Ignored
    BY <1>1, <1>2 DEF Ignored, Sessions
<1>3. ASSUME NEW p \in subscribed, Starts(p, fr), s = <<p, fr.src>>
      PROVE  \/ Same(s)
             \/ /\ fr.start /\ ~fr.end /\ s[2] = fr.src /\ q = fr.priority
                /\ slot.payload # <<>> /\ slot.payload[1].id = fr.id
                /\ delivered' = delivered
    <2>1. PICK new : sessions' = WithSession(s, new) /\ Opened(SessionOf(s), fr, new)
        BY <1>3 DEF Starts
    <2>2. slot = new.slots[q]
        BY <2>1, WithSessionFacts
    <2>3. CASE q = fr.priority
        <3>1. ~fr.end
            BY <2>1, <2>2, <2>3 DEF Opened
        <3>2. slot.payload = <<[id |-> fr.id, index |-> fr.index]>>
            BY <2>1, <2>2, <2>3, <3>1 DEF Opened
        <3>3. fr.start /\ delivered' = delivered
            BY <1>3, <3>1 DEF Starts
        <3>4. slot.payload # <<>> /\ slot.payload[1].id = fr.id
            BY <3>2
        <3> QED
            BY <1>3, <2>3, <3>1, <3>3, <3>4
    <2>4. CASE q # fr.priority
        <3>1. slot = SessionOf(s).slots[q]
            BY <2>1, <2>2, <2>4 DEF Opened
        <3>2. s \in Sessions
            BY <3>1 DEF SessionOf, rxSessionFactory
        <3> QED
            BY <1>1, <3>1, <3>2 DEF SessionOf
    <2> QED
        BY <2>3, <2>4
<1>4. ASSUME NEW p \in subscribed, Starts(p, fr), s # <<p, fr.src>>
      PROVE  Same(s)
    <2>1. PICK t, new : t = <<p, fr.src>> /\ sessions' = WithSession(t, new)
        BY <1>4 DEF Starts
    <2> QED
        BY <1>1, <1>4, <2>1, WithSessionFacts
<1>5. ASSUME NEW p \in subscribed, NEW n \in Remotes, Continues(p, n, fr)
      PROVE  Same(s)
    <2>1. PICK t, new : t = <<p, n>> /\ sessions' = WithSession(t, new) /\ Advanced(sessions[t], fr, new)
        BY <1>5 DEF Continues
    <2>2. t \in Sessions
        BY <1>5, <2>1 DEF Continues
    <2>3. CASE s # t
        BY <1>1, <2>1, <2>2, <2>3, WithSessionFacts
    <2>4. CASE s = t /\ q # fr.priority
        BY <1>1, <2>1, <2>2, <2>4, WithSessionFacts DEF Advanced
    <2>5. CASE s = t /\ q = fr.priority
        <3>1. PICK old : old = sessions[s].slots[q]
            OBVIOUS
        <3>2. old \in Slot /\ old # NoSlot
            BY <1>5, <2>1, <2>2, <2>5, <3>1
            DEF Continues, rxSessionSolveAdmission, Types, RxTypes, Session
        <3>3. slot = new.slots[q] /\ slot.payload = Extended(old, fr)
            BY <2>1, <2>5, <3>1, WithSessionFacts DEF Advanced
        <3>4. old.payload \in Seq(Piece) /\ [id |-> fr.id, index |-> fr.index] \in Piece
            BY <3>2 DEF Slot, Piece, Frame
        <3>5. old.payload # <<>>
            BY <2>2, <2>5, <3>1, <3>2 DEF Slots
        <3>6. slot.payload # <<>> /\ slot.payload[1] = old.payload[1]
            BY <3>3, <3>4, <3>5 DEF Extended
        <3> QED
            BY <2>2, <2>5, <3>1, <3>2, <3>6
    <2> QED
        BY <2>3, <2>4, <2>5
<1> QED
    BY <1>1, <1>2, <1>3, <1>4, <1>5, IngestCases

LEMMA BusStepSlots ==
    ASSUME Types, Finished, Slots, Guarded, NEW fr \in Frame, OnAir(fr)
    PROVE  Slots'
<1>1. PICK tr \in Transfer, i \in Nat \ {0} :
        /\ fr.id \in Transfers' /\ tr = sent'[fr.id] /\ i = progress'[fr.id] /\ i <= tr.frames
        /\ fr.src = tr.src /\ fr.priority = tr.priority
        /\ fr.start <=> i = 1
        /\ fr.end <=> i = tr.frames
    BY AirFacts
<1>2. ASSUME NEW s \in Sessions', NEW q \in Prios, sessions'[s].slots[q] # NoSlot
      PROVE  /\ sessions'[s].slots[q].payload # <<>>
             /\ \A k : k = sessions'[s].slots[q].payload[1].id => Reassembled(s, q, k)'
    <2>1. PICK slot : slot = sessions'[s].slots[q]
        OBVIOUS
    <2>2. PICK k : k = slot.payload[1].id
        OBVIOUS
    <2>3. \/ /\ s \in Sessions /\ sessions[s].slots[q] # NoSlot
             /\ slot.payload # <<>> /\ slot.payload[1] = sessions[s].slots[q].payload[1]
          \/ /\ fr.start /\ ~fr.end /\ s[2] = fr.src /\ q = fr.priority
             /\ slot.payload # <<>> /\ slot.payload[1].id = fr.id
             /\ delivered' = delivered
        <3>1. CASE IngestFrame(fr)
            BY <1>2, <2>1, <3>1, IngestSlots
        <3>2. CASE UNCHANGED rxVars
            BY <1>2, <2>1, <3>2 DEF rxVars, Sessions, Slots
        <3> QED
            BY <3>1, <3>2 DEF OnAir
    <2>4. s[1] \in Ports
        <3>1. s \in Ports \X Remotes
            BY BusStepTypes DEF Types, RxTypes
        <3> QED
            BY <3>1
    <2>5. CASE /\ s \in Sessions /\ sessions[s].slots[q] # NoSlot
               /\ slot.payload # <<>> /\ slot.payload[1] = sessions[s].slots[q].payload[1]
        <3>1. Reassembled(s, q, k)
            BY <2>2, <2>5 DEF Slots
        <3>2. /\ k \in Transfers' /\ sent'[k].src = s[2] /\ sent'[k].priority = q
              /\ sent'[k].frames > 1
            BY <3>1 DEF Reassembled, OnAir, Air, SameButHeard
        <3>3. ASSUME k \in IdsOf(s[1])' PROVE FALSE
            <4>1. PICK p \in Ports : p = s[1]
                BY <2>4
            <4>2. k \in IdsOf(p)' \ IdsOf(p)
                BY <3>1, <3>3, <4>1 DEF Reassembled
            <4>3. Delivers(p, fr) /\ k = fr.id
                BY <4>2, BusStepIds
            <4>4. s = <<p, fr.src>>
                <5>1. s \in Ports \X Remotes
                    BY <2>5 DEF Types, RxTypes
                <5> QED
                    BY <1>1, <3>2, <4>1, <4>3, <5>1
            <4>5. q = fr.priority
                BY <1>1, <3>2, <4>3
            <4> QED
                BY <1>2, <4>3, <4>4, <4>5 DEF Delivers
        <3> QED
            BY <2>1, <2>2, <2>5, <3>2, <3>3 DEF Reassembled
    <2>6. CASE /\ fr.start /\ ~fr.end /\ s[2] = fr.src /\ q = fr.priority
               /\ slot.payload # <<>> /\ slot.payload[1].id = fr.id
               /\ delivered' = delivered
        <3>1. tr.frames > 1
            BY <1>1, <2>6 DEF Transfer
        <3>2. IdsOf(s[1])' = IdsOf(s[1])
            BY <2>6 DEF IdsOf
        <3>3. ASSUME fr.id \in IdsOf(s[1]) PROVE FALSE
            <4>1. fr.id \in Transfers /\ progress[fr.id] = sent[fr.id].frames
                BY <2>4, <3>3 DEF Finished
            <4>2. progress'[fr.id] = progress[fr.id] /\ sent'[fr.id].frames = sent[fr.id].frames
                BY <4>1 DEF OnAir, Air, SameButHeard
            <4> QED
                BY <1>1, <2>6, <4>1, <4>2
        <3> QED
            BY <1>1, <2>1, <2>6, <3>1, <3>2, <3>3 DEF Reassembled
    <2> QED
        BY <2>3, <2>5, <2>6
<1> QED
    BY <1>2 DEF Slots

\* A session that a frame of another remote finds is remembered as before.
LEMMA OthersRemembered ==
    ASSUME Types, NEW fr \in Frame, OnAir(fr), NEW s, NEW g, NEW ts, Remembered(s, g, ts),
           \A p \in subscribed : Starts(p, fr) => s # <<p, fr.src>>
    PROVE  Remembered(s, g, ts)'
<1>1. CASE Ignored \/ UNCHANGED rxVars
    BY <1>1 DEF Ignored, rxVars, Remembered, Sessions
<1>2. ASSUME NEW p \in subscribed, Starts(p, fr)
      PROVE  Remembered(s, g, ts)'
    <2>1. PICK t, new : t = <<p, fr.src>> /\ sessions' = WithSession(t, new)
        BY <1>2 DEF Starts
    <2>2. s # t
        BY <1>2, <2>1
    <2> QED
        BY <2>1, <2>2, WithSessionFacts DEF Remembered
<1>3. ASSUME NEW p \in subscribed, NEW n \in Remotes, Continues(p, n, fr)
      PROVE  Remembered(s, g, ts)'
    BY <1>3, ContinuesFacts DEF Remembered
<1> QED
    BY <1>1, <1>2, <1>3, IngestCases DEF OnAir

LEMMA BusStepGuarded ==
    ASSUME Types, Repeatable, Finished, Slots, Guarded, NEW fr \in Frame, OnAir(fr)
    PROVE  Guarded'
<1>1. now' = now /\ now \in Nat /\ fr.src \in Remotes
    BY DEF OnAir, Air, Types, BusTypes, Frame
<1>2. fr.id \in Transfers' /\ sent'[fr.id].src = fr.src
    BY AirFacts
<1>3. ASSUME NEW n \in Remotes, NEW p \in Ports, NEW g \in Frame, NEW ts \in Nat,
             last'[n] # NoFrame, last'[n].frame = g, last'[n].ts = ts,
             now - ts <= TransferIDTimeout, g.start, g.end, g.id \in IdsOf(p)'
      PROVE  Remembered(<<p, n>>, g, ts)'
    <2>1. PICK s : s = <<p, n>>
        OBVIOUS
    <2>2. CASE n # fr.src
        <3>1. last'[n] = last[n]
            BY <2>2 DEF OnAir
        <3>2. g.src = n /\ g.id \in Transfers /\ sent[g.id].src = n
            <4>1. Carried(g) /\ g.src = n
                BY <1>3, <3>1 DEF Repeatable
            <4>2. FrameOf(g.id, sent[g.id], progress[g.id]).src = sent[g.id].src
                BY DEF FrameOf
            <4> QED
                BY <4>1, <4>2 DEF Carried
        <3>3. g.id # fr.id
            BY <1>2, <2>2, <3>2 DEF OnAir, Air, SameButHeard
        <3>4. g.id \in IdsOf(p)
            BY <1>3, <3>3, BusStepIds
        <3>5. Remembered(s, g, ts)
            BY <1>3, <2>1, <3>1, <3>4 DEF Guarded
        <3>6. \A r \in subscribed : s # <<r, fr.src>>
            BY <2>1, <2>2
        <3>7. Remembered(s, g, ts)'
            BY <3>5, <3>6, OthersRemembered
        <3> QED
            BY <2>1, <3>7
    <2>3. CASE n = fr.src
        <3>1. g = fr /\ ts <= now
            <4>1. CASE last'[n] = [frame |-> fr, ts |-> now]
                BY <1>1, <1>3, <2>1, <4>1
            <4>2. CASE last'[n] = last[n] /\ last[n].frame = fr /\ last[n] # NoFrame
                BY <1>3, <2>1, <4>2 DEF Repeatable
            <4> QED
                BY <1>3, <2>3, <4>1, <4>2 DEF OnAir
        <3>2. CASE \E r \in subscribed : Starts(r, fr) /\ s = <<r, fr.src>>
            <4>1. PICK new : Opened(SessionOf(s), fr, new) /\ sessions' = WithSession(s, new)
                BY <3>2 DEF Starts
            <4>2. s \in Sessions' /\ sessions'[s] = new
                BY <4>1, WithSessionFacts
            <4>3. Remembered(s, g, ts)'
                BY <3>1, <4>1, <4>2 DEF Remembered, Opened
            <4> QED
                BY <2>1, <4>3
        <3>3. CASE ~\E r \in subscribed : Starts(r, fr) /\ s = <<r, fr.src>>
            <4>1. \A r \in subscribed : Starts(r, fr) => s # <<r, fr.src>>
                BY <3>3
            <4>2. g.id \in IdsOf(p)
                <5>1. ASSUME g.id \in IdsOf(p)' \ IdsOf(p) PROVE FALSE
                    <6>1. Delivers(p, fr)
                        BY <5>1, BusStepIds
                    <6>2. delivered' # delivered
                        BY <5>1 DEF IdsOf
                    <6>3. PICK r \in subscribed : Starts(r, fr)
                        BY <1>3, <3>1, <6>2, IngestCases DEF OnAir, Ignored, Continues, rxVars
                    <6>4. r = p
                        <7>1. IdsOf(p)' # IdsOf(p)
                            BY <5>1
                        <7>2. delivered' = [delivered EXCEPT ![r] =
                                    Append(@, [id |-> fr.id, src |-> fr.src])]
                            BY <6>2, <6>3 DEF Starts
                        <7>3. r # p => delivered'[p] = delivered[p]
                            BY <7>2 DEF Types, RxTypes
                        <7> QED
                            BY <7>1, <7>3 DEF IdsOf
                    <6> QED
                        BY <2>1, <2>3, <4>1, <6>3, <6>4
                <5> QED
                    BY <1>3, <5>1
            <4>3. fr.id \in Transfers
                BY <3>1, <4>2 DEF Finished
            <4>4. last'[n] = last[n] /\ last[n] # NoFrame /\ last[n].frame = fr
                BY <1>3, <2>3, <3>1, <4>3 DEF OnAir
            <4>5. Remembered(s, g, ts)
                BY <1>3, <2>1, <3>1, <4>2, <4>4 DEF Guarded
            <4>6. Remembered(s, g, ts)'
                BY <4>1, <4>5, OthersRemembered
            <4> QED
                BY <2>1, <4>6
        <3> QED
            BY <3>2, <3>3
    <2> QED
        BY <2>2, <2>3
<1> QED
    BY <1>1, <1>3 DEF Guarded

\* What the other actions have in common: the bus is as it was, and the
\* receiver only forgets, nothing of what Guarded needs.
Forgets ==
    /\ sent' = sent /\ progress' = progress /\ last' = last /\ now' >= now
    /\ \A r \in Ports : delivered'[r] = delivered[r] \/ delivered'[r] = <<>>
    /\ \A s \in Sessions' :
        /\ s \in Sessions
        /\ sessions'[s].lastAdmissionTs = sessions[s].lastAdmissionTs
        /\ sessions'[s].lastAdmittedTransferID = sessions[s].lastAdmittedTransferID
        /\ sessions'[s].lastAdmittedPriority = sessions[s].lastAdmittedPriority
        /\ \A q \in Prios : sessions'[s].slots[q] \in {sessions[s].slots[q], NoSlot}
    /\ \A s \in Sessions \ Sessions' :
        \/ delivered'[s[1]] = <<>>
        \/ sessions[s].lastAdmissionTs < now - TransferIDTimeout

LEMMA ForgetsKeeps ==
    ASSUME Types, Types', Forgets
    PROVE  /\ Repeatable => Repeatable'
           /\ Finished => Finished'
           /\ Slots => Slots'
           /\ Guarded => Guarded'
           /\ AtMostOnce => AtMostOnce'
<1>1. /\ sent' = sent /\ progress' = progress /\ last' = last /\ now' >= now
      /\ now \in Nat /\ now' \in Nat /\ Transfers' = Transfers
    BY DEF Forgets, Types, BusTypes, Transfers
<1>2. \A r \in Ports : \A k : k \in IdsOf(r)' => k \in IdsOf(r)
    BY DEF Forgets, IdsOf
<1>3. ASSUME Repeatable PROVE Repeatable'
    <2>1. \A fr : Carried(fr) => Carried(fr)'
        BY <1>1 DEF Carried
    <2>2. ASSUME NEW n \in Remotes, NEW fr \in Frame, last'[n] # NoFrame, last'[n].frame = fr
          PROVE  fr.src = n /\ last'[n].ts <= now' /\ Carried(fr)'
        <3>1. fr.src = n /\ last[n].ts <= now /\ Carried(fr)
            BY <1>1, <1>3, <2>2 DEF Repeatable
        <3>2. last[n].ts \in Nat
            BY <1>1, <2>2 DEF Types, BusTypes
        <3> QED
            BY <1>1, <2>1, <3>1, <3>2
    <2> QED
        BY <2>2 DEF Repeatable
<1>4. ASSUME Finished PROVE Finished'
    BY <1>1, <1>2, <1>4 DEF Finished
<1>5. ASSUME Slots PROVE Slots'
    <2>1. ASSUME NEW s \in Sessions', NEW q \in Prios, sessions'[s].slots[q] # NoSlot
          PROVE  /\ sessions'[s].slots[q].payload # <<>>
                 /\ \A k : k = sessions'[s].slots[q].payload[1].id => Reassembled(s, q, k)'
        <3>1. s \in Sessions /\ sessions'[s].slots[q] = sessions[s].slots[q]
            BY <2>1 DEF Forgets
        <3>2. s[1] \in Ports
            <4>1. s \in Ports \X Remotes
                BY <3>1 DEF Types, RxTypes
            <4> QED
                BY <4>1
        <3>3. \A k : Reassembled(s, q, k) => Reassembled(s, q, k)'
            BY <1>1, <1>2, <3>2 DEF Reassembled
        <3> QED
            BY <1>5, <2>1, <3>1, <3>3 DEF Slots
    <2> QED
        BY <2>1 DEF Slots
<1>6. ASSUME Guarded PROVE Guarded'
    <2>1. ASSUME NEW n \in Remotes, NEW p \in Ports, NEW g \in Frame, NEW ts \in Nat,
                 last'[n] # NoFrame, last'[n].frame = g, last'[n].ts = ts,
                 now' - ts <= TransferIDTimeout, g.start, g.end, g.id \in IdsOf(p)'
          PROVE  Remembered(<<p, n>>, g, ts)'
        <3>1. PICK s : s = <<p, n>>
            OBVIOUS
        <3>2. now - ts <= TransferIDTimeout
            <4>1. PICK x, y : x = now /\ y = now'
                OBVIOUS
            <4>2. x \in Nat /\ y \in Nat /\ y >= x /\ TransferIDTimeout \in Nat
                BY <1>1, <4>1, RxAssumption
            <4>3. y - ts <= TransferIDTimeout
                <5>1. now' - ts <= TransferIDTimeout
                    BY <2>1
                <5> QED
                    BY <4>1, <5>1
            <4>4. x - ts <= TransferIDTimeout
                BY <4>2, <4>3
            <4> QED
                BY <4>1, <4>4
        <3>3. Remembered(s, g, ts)
            BY <1>1, <1>2, <1>6, <2>1, <3>1, <3>2 DEF Guarded
        <3>4. s \in Sessions'
            <4>1. delivered'[p] # <<>>
                BY <2>1 DEF IdsOf
            <4>2. sessions[s] \in Session
                BY <3>3 DEF Remembered, Types, RxTypes
            <4>3. ~(sessions[s].lastAdmissionTs < now - TransferIDTimeout)
                BY <1>1, <3>2, <3>3, <4>2, RxAssumption DEF Remembered, Session
            <4> QED
                BY <3>1, <3>3, <4>1, <4>3 DEF Forgets, Remembered
        <3>5. Remembered(s, g, ts)'
            BY <3>3, <3>4 DEF Remembered, Forgets
        <3> QED
            BY <3>1, <3>5
    <2> QED
        BY <2>1 DEF Guarded
<1>7. ASSUME AtMostOnce PROVE AtMostOnce'
    <2>1. \A r \in Ports : delivered'[r] = delivered[r] \/ delivered'[r] = <<>>
        BY DEF Forgets
    <2> QED
        BY <1>7, <2>1 DEF AtMostOnce
<1> QED
    BY <1>3, <1>4, <1>5, <1>6, <1>7

LEMMA SubscribeForgets ==
    ASSUME Types, NEW p \in Ports, Subscribe(p)
    PROVE  Forgets
<1>1. now' >= now
    BY DEF Subscribe, Types, BusTypes
<1>2. Sessions' = Sessions /\ sessions' = sessions /\ delivered' = delivered
    BY DEF Subscribe, Sessions
<1> QED
    BY <1>1, <1>2 DEF Subscribe, Forgets, busVars

LEMMA TickForgets ==
    ASSUME Types, Tick
    PROVE  Forgets
<1>1. now' >= now
    BY DEF Tick, Types, BusTypes
<1>2. Sessions' = Sessions /\ sessions' = sessions /\ delivered' = delivered
    BY DEF Tick, rxVars, Sessions
<1> QED
    BY <1>1, <1>2 DEF Tick, Forgets

LEMMA UnsubscribeForgets ==
    ASSUME Types, NEW p \in Ports, Unsubscribe(p)
    PROVE  Forgets
<1>1. PICK K : K = {k \in Sessions : k[1] = p}
    OBVIOUS
<1>2. Forget(K)
    BY <1>1 DEF Unsubscribe
<1>3. Sessions' = Sessions \ K /\ \A k \in Sessions' : sessions'[k] = sessions[k]
    BY <1>2, ForgetTypes
<1>4. now' >= now
    BY DEF Unsubscribe, Types, BusTypes
<1>5. delivered'[p] = <<>> /\ \A r \in Ports \ {p} : delivered'[r] = delivered[r]
    BY DEF Unsubscribe, Types, RxTypes
<1> QED
    BY <1>1, <1>3, <1>4, <1>5 DEF Forgets, Unsubscribe

LEMMA PollForgets ==
    ASSUME Types, Poll
    PROVE  Forgets
<1>1. PICK s \in Sessions : Reclaims(s) \/ Cleans(s)
    BY PollCases
<1>2. now' >= now /\ now \in Nat /\ delivered' = delivered
    BY DEF Poll, Types, BusTypes
<1>3. CASE Reclaims(s)
    <2>1. PICK K : K = {s}
        OBVIOUS
    <2>2. Forget(K) /\ sessions[s].lastAdmissionTs < now - TransferIDTimeout
        BY <1>3, <2>1 DEF Reclaims
    <2>3. Sessions' = Sessions \ K /\ \A k \in Sessions' : sessions'[k] = sessions[k]
        BY <2>2, ForgetTypes
    <2> QED
        BY <1>2, <2>1, <2>2, <2>3 DEF Forgets, Poll, busVars
<1>4. CASE Cleans(s)
    <2>1. /\ Sessions' = Sessions
          /\ \A k \in Sessions : /\ sessions'[k].lastAdmissionTs = sessions[k].lastAdmissionTs
                                 /\ sessions'[k].lastAdmittedTransferID = sessions[k].lastAdmittedTransferID
                                 /\ sessions'[k].lastAdmittedPriority = sessions[k].lastAdmittedPriority
          /\ \A k \in Sessions, q \in Prios : sessions'[k].slots[q] \in {sessions[k].slots[q], NoSlot}
        BY <1>4, CleansFacts
    <2> QED
        BY <1>2, <2>1 DEF Forgets, Poll, busVars
<1> QED
    BY <1>1, <1>3, <1>4

-----------------------------------------------------------------------------
(* A transfer that arrives whole is delivered.                             *)

\* What a session admitted last was heard at that time or later, if not by it
\* then by a neighbour's.
Heard ==
    \A s \in Sessions : \E k \in Transfers :
        /\ sent[k].src = s[2] /\ sent[k].priority = sessions[s].lastAdmittedPriority
        /\ sent[k].transferID = sessions[s].lastAdmittedTransferID
        /\ sent[k].heardTs >= sessions[s].lastAdmissionTs
        /\ sent[k].port = s[1] \/ sent[k].strayed

Latest(k) == \A o \in Transfers : o > k => ~SameCanID(sent[o], sent[k])

\* The first i frames of transfer k, and the slot that holds those on the bus.
Whole(k, i) == [j \in 1..i |-> [id |-> k, index |-> j]]

InSlot(k) ==
    LET s == <<sent[k].port, sent[k].src>>
        slot == sessions[s].slots[sent[k].priority]
    IN  /\ s \in Sessions /\ slot # NoSlot
        /\ slot.startTs >= sent[k].startTs
        /\ slot.transferID = sent[k].transferID
        /\ slot.expectedToggle <=> progress[k] % 2 = 0
        /\ slot.payload = Whole(k, progress[k])

\* The remote may have abandoned the transfer for another with its CAN ID.
KeptOne(k) ==
    /\ sent[k].port \in subscribed
    /\ progress[k] = sent[k].frames => k \in IdsOf(sent[k].port)
    /\ progress[k] < sent[k].frames => sent[k].startTs >= now - Timeout
    /\ progress[k] < sent[k].frames /\ Latest(k) => InSlot(k)

Kept == \A k \in intact : KeptOne(k)

LEMMA BusStepHeard ==
    ASSUME Types, Heard, NEW fr \in Frame, OnAir(fr)
    PROVE  Heard'
<1>1. /\ Transfers \subseteq Transfers' /\ fr.id \in Transfers' /\ sent'[fr.id].src = fr.src
      /\ sent'[fr.id].priority = fr.priority /\ sent'[fr.id].transferID = fr.transferID
      /\ fr.start => sent'[fr.id].heardTs = now
      /\ now \in Nat
    <2>1. /\ fr.id \in Transfers' /\ sent'[fr.id].src = fr.src
          /\ sent'[fr.id].priority = fr.priority /\ sent'[fr.id].transferID = fr.transferID
        BY AirFacts
    <2>2. Transfers \subseteq Transfers' /\ (fr.start => sent'[fr.id].heardTs = now)
        BY DEF OnAir, Air
    <2> QED
        BY <2>1, <2>2 DEF Types, BusTypes
<1>2. ASSUME NEW s \in Sessions, s \in Sessions',
             sessions'[s].lastAdmissionTs = sessions[s].lastAdmissionTs,
             sessions'[s].lastAdmittedTransferID = sessions[s].lastAdmittedTransferID,
             sessions'[s].lastAdmittedPriority = sessions[s].lastAdmittedPriority
      PROVE  \E k \in Transfers' :
                /\ sent'[k].src = s[2] /\ sent'[k].priority = sessions'[s].lastAdmittedPriority
                /\ sent'[k].transferID = sessions'[s].lastAdmittedTransferID
                /\ sent'[k].heardTs >= sessions'[s].lastAdmissionTs
                /\ sent'[k].port = s[1] \/ sent'[k].strayed
    <2>1. PICK k \in Transfers :
            /\ sent[k].src = s[2] /\ sent[k].priority = sessions[s].lastAdmittedPriority
            /\ sent[k].transferID = sessions[s].lastAdmittedTransferID
            /\ sent[k].heardTs >= sessions[s].lastAdmissionTs
            /\ sent[k].port = s[1] \/ sent[k].strayed
        BY DEF Heard
    <2>2. /\ k \in Transfers' /\ SameButHeard(sent'[k], sent[k]) /\ sent'[k].heardTs >= sent[k].heardTs
          /\ sent[k].strayed => sent'[k].strayed
        BY DEF OnAir, Air
    <2>3. sent'[k].heardTs >= sessions[s].lastAdmissionTs
        <3>1. sent[k] \in Transfer /\ sent'[k] \in Transfer /\ sessions[s] \in Session
            BY <2>2, BusStepTypes DEF Types, BusTypes, RxTypes, Transfers
        <3>2. PICK x, y, z : x = sent'[k].heardTs /\ y = sent[k].heardTs /\ z = sessions[s].lastAdmissionTs
            OBVIOUS
        <3>3. x \in Nat /\ y \in Nat /\ z \in Int
            BY <3>1, <3>2 DEF Transfer, Session
        <3>4. x >= y /\ y >= z
            BY <2>1, <2>2, <3>2
        <3> QED
            BY <3>2, <3>3, <3>4
    <2> QED
        BY <1>2, <2>1, <2>2, <2>3 DEF SameButHeard
<1>3. CASE Ignored \/ UNCHANGED rxVars
    BY <1>2, <1>3 DEF Ignored, rxVars, Sessions, Heard
<1>4. ASSUME NEW p \in subscribed, Starts(p, fr)
      PROVE  Heard'
    <2>1. PICK t, new : t = <<p, fr.src>> /\ sessions' = WithSession(t, new)
                        /\ Opened(SessionOf(t), fr, new)
        BY <1>4 DEF Starts
    <2>2. Sessions' = Sessions \cup {t} /\ sessions'[t] = new
          /\ \A k \in Sessions \ {t} : sessions'[k] = sessions[k]
        BY <2>1, WithSessionFacts
    <2>3. /\ sent'[fr.id].src = t[2] /\ sent'[fr.id].priority = sessions'[t].lastAdmittedPriority
          /\ sent'[fr.id].transferID = sessions'[t].lastAdmittedTransferID
          /\ sent'[fr.id].heardTs >= sessions'[t].lastAdmissionTs
          /\ sent'[fr.id].port = t[1] \/ sent'[fr.id].strayed
        <3>1. /\ fr.start /\ new.lastAdmissionTs = now /\ new.lastAdmittedPriority = fr.priority
              /\ new.lastAdmittedTransferID = fr.transferID /\ t[2] = fr.src
            BY <1>4, <2>1 DEF Opened, Starts
        <3>2. sent'[fr.id].heardTs = now /\ now >= now
            BY <1>1, <3>1
        <3>3. sent'[fr.id].port = p \/ sent'[fr.id].strayed
            <4>1. sent'[fr.id].port = fr.port
                BY AirFacts
            <4>2. CASE fr.port \in subscribed
                BY <1>4, <4>1, <4>2 DEF Starts
            <4>3. CASE fr.port \notin subscribed
                BY <3>1, <4>3 DEF OnAir, Air, Astray
            <4> QED
                BY <4>2, <4>3
        <3> QED
            BY <1>1, <2>1, <2>2, <3>1, <3>2, <3>3
    <2>4. ASSUME NEW s \in Sessions'
          PROVE  \E k \in Transfers' :
                    /\ sent'[k].src = s[2] /\ sent'[k].priority = sessions'[s].lastAdmittedPriority
                    /\ sent'[k].transferID = sessions'[s].lastAdmittedTransferID
                    /\ sent'[k].heardTs >= sessions'[s].lastAdmissionTs
                    /\ sent'[k].port = s[1] \/ sent'[k].strayed
        <3>1. CASE s = t
            BY <1>1, <2>3, <3>1
        <3>2. CASE s # t
            BY <1>2, <2>2, <3>2
        <3> QED
            BY <3>1, <3>2
    <2> QED
        BY <2>4 DEF Heard
<1>5. ASSUME NEW p \in subscribed, NEW n \in Remotes, Continues(p, n, fr)
      PROVE  Heard'
    BY <1>2, <1>5, ContinuesFacts DEF Heard
<1> QED
    BY <1>3, <1>4, <1>5, IngestCases DEF OnAir

LEMMA ForgetsHeard ==
    ASSUME Types, Forgets, Heard
    PROVE  Heard'
<1>1. Transfers' = Transfers /\ sent' = sent
    BY DEF Forgets, Transfers
<1>2. ASSUME NEW s \in Sessions'
      PROVE  /\ s \in Sessions
             /\ sessions'[s].lastAdmissionTs = sessions[s].lastAdmissionTs
             /\ sessions'[s].lastAdmittedTransferID = sessions[s].lastAdmittedTransferID
             /\ sessions'[s].lastAdmittedPriority = sessions[s].lastAdmittedPriority
    BY DEF Forgets
<1>3. ASSUME NEW s \in Sessions'
      PROVE  \E k \in Transfers' :
                /\ sent'[k].src = s[2] /\ sent'[k].priority = sessions'[s].lastAdmittedPriority
                /\ sent'[k].transferID = sessions'[s].lastAdmittedTransferID
                /\ sent'[k].heardTs >= sessions'[s].lastAdmissionTs
                /\ sent'[k].port = s[1] \/ sent'[k].strayed
    BY <1>1, <1>2 DEF Heard
<1> QED
    BY <1>3 DEF Heard

LEMMA WholeFacts ==
    ASSUME NEW k \in Nat \ {0}, NEW i \in Nat \ {0}
    PROVE  /\ Whole(k, i) \in Seq(Piece) /\ Len(Whole(k, i)) = i
           /\ Append(Whole(k, i), [id |-> k, index |-> i + 1]) = Whole(k, i + 1)
           /\ crcOK(Whole(k, i)) /\ Whole(k, i)[1].id = k
<1>1. PICK w : w = Whole(k, i)
    OBVIOUS
<1>2. \A j \in 1..i : [id |-> k, index |-> j] \in Piece
    BY DEF Piece
<1>3. w \in Seq(Piece) /\ Len(w) = i /\ \A j \in 1..i : w[j] = [id |-> k, index |-> j]
    BY <1>1, <1>2 DEF Whole
<1>4. w[1].id = k
    <2>1. w[1] = [id |-> k, index |-> 1]
        BY <1>3
    <2> QED
        BY <2>1
<1>5. crcOK(w)
    <2>1. \A j \in 1..Len(w) : w[j] = [id |-> w[1].id, index |-> j]
        BY <1>3, <1>4
    <2> QED
        BY <2>1, Zenon DEF crcOK
<1>10. PICK n \in Nat \ {0} : n = i + 1
    OBVIOUS
<1>11. PICK x : x = [id |-> k, index |-> n]
    OBVIOUS
<1>6. x \in Piece
    BY <1>11 DEF Piece
<1>7. PICK a : a = Append(w, x)
    OBVIOUS
<1>8. a \in Seq(Piece) /\ Len(a) = n /\ \A j \in 1..n : a[j] = [id |-> k, index |-> j]
    <2>1. a \in Seq(Piece) /\ Len(a) = n /\ a[n] = x /\ \A j \in 1..i : a[j] = w[j]
        BY <1>3, <1>6, <1>7, <1>10
    <2>2. \A j \in 1..n : j \in 1..i \/ j = n
        BY <1>10
    <2> QED
        BY <1>3, <1>11, <2>1, <2>2
<1>9. a = Whole(k, n)
    <2>1. a = [j \in 1..n |-> a[j]]
        BY <1>8
    <2> QED
        BY <1>8, <2>1 DEF Whole
<1>12. [id |-> k, index |-> i + 1] = x
    BY <1>10, <1>11
<1>13. Append(w, [id |-> k, index |-> i + 1]) = Whole(k, i + 1)
    BY <1>7, <1>9, <1>10, <1>12
<1> QED
    BY <1>1, <1>3, <1>4, <1>5, <1>13

\* The slot of a transfer that is still expected is not for cleanup.
LEMMA ExpectedSlot ==
    ASSUME Types, NEW k \in Transfers, NEW s \in Sessions, NEW q \in Prios,
           sent[k].startTs >= now - Timeout, sessions[s].slots[q] # NoSlot,
           sessions[s].slots[q].startTs >= sent[k].startTs
    PROVE  ~(sessions[s].slots[q].startTs < now - Timeout)
<1>1. PICK slot \in Slot : slot = sessions[s].slots[q]
    BY DEF Types, RxTypes, Session
<1>2. PICK a, b : a = slot.startTs /\ b = sent[k].startTs
    OBVIOUS
<1>3. sent[k] \in Transfer
    BY DEF Types, BusTypes, Transfers
<1>4. a \in Nat /\ b \in Nat /\ now \in Nat /\ Timeout \in Nat
    BY <1>1, <1>2, <1>3, RxAssumption DEF Slot, Transfer, Types, BusTypes, Timeout, Larger
<1> QED
    BY <1>1, <1>2, <1>4

\* A frame of another transfer leaves an expected one in its slot.
LEMMA OthersInSlot ==
    ASSUME Types, NEW fr \in Frame, OnAir(fr), NEW k \in Transfers, k # fr.id,
           ~UNCHANGED rxVars => k \notin Strayed(fr),
           sent[k].startTs >= now - Timeout, InSlot(k), Latest(k)'
    PROVE  InSlot(k)'
<1>1. /\ SameButHeard(sent'[k], sent[k]) /\ progress'[k] = progress[k] /\ now' = now
      /\ k \in Transfers'
    BY DEF OnAir, Air
<1>2. PICK s, q : s = <<sent[k].port, sent[k].src>> /\ q = sent[k].priority
    OBVIOUS
<1>3. /\ s \in Sessions /\ sessions[s].slots[q] # NoSlot /\ q \in Prios
      /\ ~(sessions[s].slots[q].startTs < now - Timeout)
    <2>1. q \in Prios
        <3>1. sent[k] \in Transfer
            BY DEF Types, BusTypes, Transfers
        <3> QED
            BY <1>2, <3>1 DEF Transfer
    <2>2. s \in Sessions /\ sessions[s].slots[q] # NoSlot
          /\ sessions[s].slots[q].startTs >= sent[k].startTs
        BY <1>2 DEF InSlot
    <2> QED
        BY <2>1, <2>2, ExpectedSlot
<1>4. SUFFICES s \in Sessions' /\ sessions'[s].slots[q] = sessions[s].slots[q]
    BY <1>1, <1>2 DEF InSlot, SameButHeard, Whole
<1>5. \* The frame is not one of the same CAN ID.
      ~SameCanID(fr, sent[k])
    <2>1. SUFFICES ASSUME SameCanID(fr, sent[k]) PROVE FALSE
        OBVIOUS
    <2>2. /\ fr.id \in Transfers' /\ SameCanID(sent'[fr.id], fr)
          /\ \A o \in Transfers' : o > fr.id => ~SameCanID(sent'[o], fr)
        BY AirFacts DEF OnAir, Carried, SameCanID
    <2>3. SameCanID(sent'[k], fr) /\ SameCanID(sent'[fr.id], sent'[k])
        BY <1>1, <2>1, <2>2 DEF SameCanID, SameButHeard
    <2>4. ~(k > fr.id) /\ ~(fr.id > k)
        BY <1>1, <2>2, <2>3 DEF Latest
    <2>5. k \in Nat /\ fr.id \in Nat
        BY DEF Types, BusTypes, Transfers, Frame
    <2> QED
        BY <2>4, <2>5
<1>6. CASE UNCHANGED rxVars \/ Ignored
    BY <1>3, <1>6 DEF rxVars, Ignored, Sessions
<1>7. ASSUME ~UNCHANGED rxVars, NEW p \in subscribed, Starts(p, fr)
      PROVE  s \in Sessions' /\ sessions'[s].slots[q] = sessions[s].slots[q]
    <2>1. PICK t, new : t = <<p, fr.src>> /\ sessions' = WithSession(t, new)
                        /\ Opened(SessionOf(t), fr, new)
        BY <1>7 DEF Starts
    <2>2. Sessions' = Sessions \cup {t} /\ sessions'[t] = new
          /\ \A o \in Sessions \ {t} : sessions'[o] = sessions[o]
        BY <2>1, WithSessionFacts
    <2>3. CASE t # s
        BY <1>3, <2>2, <2>3
    <2>4. CASE t = s
        <3>1. SessionOf(t) = sessions[s] /\ p = sent[k].port /\ fr.src = sent[k].src
            BY <1>2, <1>3, <2>1, <2>4 DEF SessionOf
        <3>2. q # fr.priority
            <4>1. SUFFICES ASSUME q = fr.priority PROVE FALSE
                OBVIOUS
            <4>2. p = fr.port
                BY <1>2, <1>7, <4>1 DEF Strayed, Starts
            <4> QED
                BY <1>2, <1>5, <3>1, <4>1, <4>2 DEF SameCanID
        <3>3. \/ new.slots[q] = sessions[s].slots[q]
              \/ sessions[s].slots[q].startTs < now - Timeout
            BY <1>3, <2>1, <3>1, <3>2 DEF Opened
        <3> QED
            BY <1>3, <2>2, <2>4, <3>3
    <2> QED
        BY <2>3, <2>4
<1>8. ASSUME ~UNCHANGED rxVars, NEW p \in subscribed, NEW n \in Remotes, Continues(p, n, fr)
      PROVE  s \in Sessions' /\ sessions'[s].slots[q] = sessions[s].slots[q]
    <2>1. PICK t, new : t = <<p, n>> /\ sessions' = WithSession(t, new)
                        /\ Advanced(sessions[t], fr, new) /\ t \in Sessions
        BY <1>8 DEF Continues
    <2>2. Sessions' = Sessions \cup {t} /\ sessions'[t] = new
          /\ \A o \in Sessions \ {t} : sessions'[o] = sessions[o]
        BY <2>1, WithSessionFacts
    <2>3. CASE t # s
        BY <1>3, <2>2, <2>3
    <2>4. CASE t = s
        <3>1. p = sent[k].port /\ n = sent[k].src
            BY <1>2, <2>1, <2>4
        <3>2. q # fr.priority
            <4>1. SUFFICES ASSUME q = fr.priority PROVE FALSE
                OBVIOUS
            <4>2. fr.port \in subscribed /\ <<fr.port, fr.src>> \in Sessions
                BY <1>2, <1>8, <4>1 DEF Strayed, Continues
            <4>3. p = fr.port /\ n = fr.src
                BY <1>8, <4>2 DEF Continues
            <4> QED
                BY <1>2, <1>5, <3>1, <4>1, <4>3 DEF SameCanID
        <3>3. new.slots[q] = sessions[s].slots[q]
            BY <1>3, <2>1, <2>4, <3>2 DEF Advanced
        <3> QED
            BY <1>3, <2>2, <2>4, <3>3
    <2> QED
        BY <2>3, <2>4
<1> QED
    BY <1>6, <1>7, <1>8, IngestCases DEF OnAir

LEMMA OthersKept ==
    ASSUME Types, NEW fr \in Frame, OnAir(fr), NEW k \in Transfers, k # fr.id,
           ~UNCHANGED rxVars => k \notin Strayed(fr), KeptOne(k),
           \A r \in Ports : IdsOf(r) \subseteq IdsOf(r)'
    PROVE  KeptOne(k)'
<1>1. /\ SameButHeard(sent'[k], sent[k]) /\ progress'[k] = progress[k] /\ now' = now
      /\ Transfers \subseteq Transfers'
    BY DEF OnAir, Air
<1>2. subscribed' = subscribed
    BY IngestCases DEF OnAir, rxVars
<1>3. sent[k].port \in Ports
    <2>1. sent[k] \in Transfer
        BY DEF Types, BusTypes, Transfers
    <2> QED
        BY <2>1 DEF Transfer
<1>4. Latest(k)' => Latest(k)
    BY <1>1 DEF Latest, OnAir, Air, SameButHeard, SameCanID
<1>5. progress'[k] < sent'[k].frames /\ Latest(k)' => InSlot(k)'
    BY <1>1, <1>4, OthersInSlot DEF KeptOne, SameButHeard
<1>6. sent'[k].port \in subscribed'
    BY <1>1, <1>2 DEF KeptOne, SameButHeard
<1>7. (progress[k] = sent[k].frames => k \in IdsOf(sent[k].port))'
    <2>1. PICK r \in Ports : r = sent[k].port
        BY <1>3
    <2>2. sent'[k].port = r /\ sent'[k].frames = sent[k].frames
        BY <1>1, <2>1 DEF SameButHeard
    <2>3. progress[k] = sent[k].frames => k \in IdsOf(r)'
        BY <2>1 DEF KeptOne
    <2> QED
        BY <1>1, <2>2, <2>3 DEF IdsOf
<1>8. progress'[k] < sent'[k].frames => sent'[k].startTs >= now' - Timeout
    BY <1>1 DEF KeptOne, SameButHeard
<1> QED
    BY <1>5, <1>6, <1>7, <1>8 DEF KeptOne

\* An admitted start frame opens the slot of its transfer, or delivers it.
LEMMA StartsKept ==
    ASSUME Types, NEW fr \in Frame, OnAir(fr), fr.port \in subscribed, subscribed' = subscribed,
           Starts(fr.port, fr), ~fr.end => sent'[fr.id].startTs >= now - Timeout
    PROVE  KeptOne(fr.id)'
<1>1. PICK id : id = fr.id
    OBVIOUS
<1>2. PICK tr \in Transfer, i \in Nat \ {0} :
        /\ id \in Transfers' /\ tr = sent'[id] /\ i = progress'[id]
        /\ fr.index = i /\ fr.port = tr.port /\ fr.src = tr.src
        /\ fr.priority = tr.priority /\ fr.transferID = tr.transferID
        /\ fr.start <=> i = 1
        /\ fr.end <=> i = tr.frames
    BY <1>1, AirFacts
<1>3. fr.start /\ i = 1 /\ now' = now
    BY <1>2 DEF Starts, OnAir, Air
<1>4. tr.port \in subscribed' /\ tr.port \in Ports /\ tr.startTs <= now /\ now \in Nat
    BY <1>2, <1>3 DEF OnAir, BusTypes, Types, Transfer
<1>5. PICK s, q : s = <<tr.port, tr.src>> /\ q = tr.priority
    OBVIOUS
<1>6. PICK new : sessions' = WithSession(s, new) /\ Opened(SessionOf(s), fr, new)
    BY <1>2, <1>5 DEF Starts
<1>7. s \in Sessions' /\ sessions'[s] = new
    BY <1>6, WithSessionFacts
<1>8. CASE fr.end
    <2>1. PICK m \in Received : m = [id |-> id, src |-> fr.src]
        BY <1>1 DEF Received, Frame
    <2>2. delivered' = [delivered EXCEPT ![tr.port] = Append(@, m)] /\ m.id = id
        BY <1>1, <1>2, <1>8, <2>1 DEF Starts
    <2>3. PICK r \in Ports : r = tr.port
        BY <1>4
    <2>4. id \in IdsOf(r)'
        BY <2>2, <2>3, AppendIds
    <2>5. progress'[id] = tr.frames /\ sent'[id].frames = tr.frames /\ ~(progress'[id] < sent'[id].frames)
        BY <1>2, <1>8
    <2>6. (id \in IdsOf(sent[id].port))'
        BY <1>2, <2>3, <2>4 DEF IdsOf
    <2> QED
        BY <1>1, <1>2, <1>4, <2>5, <2>6 DEF KeptOne
<1>9. CASE ~fr.end
    <2>1. new.slots[q] = [startTs |-> now, transferID |-> fr.transferID, expectedToggle |-> FALSE,
                          payload |-> <<[id |-> fr.id, index |-> fr.index]>>]
        BY <1>2, <1>5, <1>6, <1>9 DEF Opened
    <2>2. PICK slot : slot = new.slots[q]
        OBVIOUS
    <2>3. slot # NoSlot
        <3>1. fr.transferID \in Nat /\ now \in Nat /\ fr.id \in Nat \ {0} /\ fr.index \in Nat \ {0}
            BY <1>4, RxAssumption DEF Frame
        <3>2. PICK payload \in Seq(Piece) : payload = <<[id |-> fr.id, index |-> fr.index]>>
            <4>1. PICK x : x = [id |-> fr.id, index |-> fr.index]
                OBVIOUS
            <4>2. x \in Piece
                BY <3>1, <4>1 DEF Piece
            <4>3. <<x>> \in Seq(Piece)
                BY <4>2
            <4> QED
                BY <4>1, <4>3
        <3>3. slot = [startTs |-> now, transferID |-> fr.transferID, expectedToggle |-> FALSE,
                      payload |-> payload]
            BY <2>1, <2>2, <3>2
        <3>4. slot \in Slot
            BY <3>1, <3>2, <3>3 DEF Slot, Piece
        <3> QED
            BY <3>4, NothingAssumption
    <2>4. slot.payload = Whole(id, 1)
        <3>1. PICK x : x = [id |-> id, index |-> 1]
            OBVIOUS
        <3>2. slot.payload = <<x>>
            <4>1. [id |-> fr.id, index |-> fr.index] = x
                BY <1>1, <1>2, <1>3, <3>1
            <4>2. slot.payload = <<[id |-> fr.id, index |-> fr.index]>>
                BY <2>1, <2>2
            <4> QED
                BY <4>1, <4>2
        <3>3. id \in Nat \ {0} /\ i \in Nat \ {0}
            BY <1>1 DEF Frame
        <3>4. PICK w : w = Whole(id, i)
            OBVIOUS
        <3>5. w \in Seq(Piece) /\ Len(w) = 1
            <4>1. Whole(id, i) \in Seq(Piece) /\ Len(Whole(id, i)) = i
                BY <3>3, WholeFacts, Zenon
            <4> QED
                BY <1>3, <3>4, <4>1
        <3>6. w[1] = x
            BY <1>3, <3>1, <3>4 DEF Whole
        <3>7. w = <<x>>
            BY <3>5, <3>6
        <3> QED
            BY <1>3, <3>2, <3>4, <3>7
    <2>5. slot.startTs >= tr.startTs /\ slot.transferID = tr.transferID /\ ~slot.expectedToggle
        BY <1>2, <1>4, <2>1, <2>2 DEF Transfer
    <2>6. progress'[id] = 1 /\ ~(progress'[id] % 2 = 0) /\ progress'[id] # tr.frames
        BY <1>2, <1>3, <1>9
    <2>7. InSlot(id)'
        <3>1. sent'[id].port = tr.port /\ sent'[id].src = tr.src /\ sent'[id].priority = q
              /\ sent'[id].startTs = tr.startTs /\ sent'[id].transferID = tr.transferID
            BY <1>2, <1>5
        <3>2. sessions'[s].slots[q] = slot
            BY <1>7, <2>2
        <3> QED
            BY <1>5, <1>7, <2>3, <2>4, <2>5, <2>6, <3>1, <3>2 DEF InSlot, Whole
    <2>8. tr.startTs >= now - Timeout
        BY <1>1, <1>2, <1>9
    <2> QED
        BY <1>1, <1>2, <1>3, <1>4, <2>6, <2>7, <2>8 DEF KeptOne
<1> QED
    BY <1>8, <1>9

\* So does the frame that begins a transfer which the receiver must tell from
\* the earlier ones.
LEMMA BegunKept ==
    ASSUME Types, Heard, NEW fr \in Frame, OnAir(fr), fr.start, IngestFrame(fr),
           fr.port \in subscribed, sent'[fr.id].startTs = now,
           NEW tr \in Transfer, tr = sent'[fr.id], Distinguishable(tr)
    PROVE  KeptOne(fr.id)'
<1>1. PICK s : s = <<fr.port, fr.src>>
    OBVIOUS
<1>2. PICK ses \in Session : ses = SessionOf(s)
    BY SessionOfType
<1>3. now \in Nat /\ now <= MaxTime /\ TransferIDTimeout \in Nat /\ MaxTime \in Nat /\ Timeout \in Nat
    BY RxAssumption DEF Types, BusTypes, Timeout, Larger
<1>4. /\ fr.src = tr.src /\ fr.priority = tr.priority /\ fr.transferID = tr.transferID
      /\ fr.port = tr.port
    BY AirFacts
<1>5. rxSessionSolveAdmission(ses, fr)
    <2>1. SUFFICES ASSUME fr.transferID = ses.lastAdmittedTransferID,
                          fr.priority = ses.lastAdmittedPriority
                   PROVE  now - TransferIDTimeout > ses.lastAdmissionTs
        BY DEF rxSessionSolveAdmission
    <2>2. CASE s \in Sessions
        <3>1. ses = sessions[s] /\ s[2] = fr.src
            BY <1>1, <1>2, <2>2 DEF SessionOf
        <3>2. PICK k \in Transfers :
                /\ sent[k].src = tr.src /\ sent[k].priority = tr.priority
                /\ sent[k].transferID = tr.transferID
                /\ sent[k].heardTs >= ses.lastAdmissionTs
                /\ sent[k].port = tr.port \/ sent[k].strayed
            BY <1>1, <1>4, <2>1, <2>2, <3>1 DEF Heard
        <3>3. now - TransferIDTimeout > sent[k].heardTs
            BY <3>2 DEF Distinguishable
        <3>4. sent[k].heardTs \in Nat /\ ses.lastAdmissionTs \in Int
            <4>1. sent[k] \in Transfer
                BY DEF Types, BusTypes, Transfers
            <4> QED
                BY <4>1 DEF Transfer, Session
        <3>5. PICK h : h = sent[k].heardTs
            OBVIOUS
        <3> QED
            BY <1>3, <3>2, <3>3, <3>4, <3>5
    <2>3. CASE s \notin Sessions
        <3>1. ses.lastAdmissionTs = -(MaxTime + TransferIDTimeout + 1)
            BY <1>2, <2>3 DEF SessionOf, rxSessionFactory, bigBang
        <3> QED
            BY <1>3, <3>1
    <2> QED
        BY <2>2, <2>3
<1>6. ~(Ignored /\ Refused(fr))
    BY <1>1, <1>2, <1>5 DEF Refused
<1>7. Starts(fr.port, fr) /\ subscribed' = subscribed
    <2>1. \A p, n : ~Continues(p, n, fr)
        BY DEF Continues
    <2>2. PICK p \in subscribed : Starts(p, fr)
        BY <1>6, <2>1, IngestCases
    <2>3. p = fr.port
        BY <2>2 DEF Starts
    <2> QED
        BY <2>2, <2>3, IngestCases
<1>8. sent'[fr.id].startTs >= now - Timeout
    BY <1>3
<1> QED
    BY <1>7, <1>8, StartsKept

\* The next frame of a transfer finds its slot.
LEMMA NextKept ==
    ASSUME Types, NEW fr \in Frame, OnAir(fr), ~fr.start, IngestFrame(fr),
           fr.id \in Transfers, KeptOne(fr.id), progress[fr.id] < sent[fr.id].frames,
           sent' = sent, progress'[fr.id] = progress[fr.id] + 1
    PROVE  KeptOne(fr.id)'
<1>1. PICK id : id = fr.id
    OBVIOUS
<1>2. PICK tr \in Transfer, i \in Nat \ {0} :
        /\ id \in Transfers' /\ tr = sent'[id] /\ i = progress'[id] /\ i <= tr.frames
        /\ fr.index = i /\ fr.port = tr.port /\ fr.src = tr.src
        /\ fr.priority = tr.priority /\ fr.transferID = tr.transferID
        /\ fr.start <=> i = 1
        /\ fr.end <=> i = tr.frames
        /\ fr.toggle <=> i % 2 = 1
    BY <1>1, AirFacts
<1>3. PICK m \in Nat \ {0} : m = progress[id]
    BY <1>1 DEF Types, BusTypes, Transfers
<1>4. /\ i = m + 1 /\ m < tr.frames /\ tr = sent[id] /\ now' = now /\ id \in Nat \ {0}
      /\ tr.frames \in Nat /\ tr.port \in Ports
    BY <1>1, <1>2, <1>3 DEF OnAir, Air, Frame, Transfer
<1>5. tr.port \in subscribed /\ tr.startTs >= now - Timeout /\ subscribed' = subscribed
    BY <1>1, <1>3, <1>4, IngestCases DEF KeptOne
<1>6. Latest(id)
    <2>1. \A o \in Transfers : o > id => ~SameCanID(sent[o], fr)
        BY <1>1 DEF OnAir, Carried, Air
    <2> QED
        BY <1>2, <1>4, <2>1 DEF Latest, SameCanID
<1>7. InSlot(id)
    BY <1>1, <1>3, <1>4, <1>6 DEF KeptOne
<1>8. PICK s, q : s = <<tr.port, tr.src>> /\ q = tr.priority
    OBVIOUS
<1>9. PICK slot : slot = sessions[s].slots[q]
    OBVIOUS
<1>10. /\ s \in Sessions /\ slot # NoSlot /\ slot.startTs >= tr.startTs
       /\ slot.transferID = tr.transferID /\ (slot.expectedToggle <=> m % 2 = 0)
       /\ slot.payload = Whole(id, m)
    BY <1>3, <1>4, <1>7, <1>8, <1>9 DEF InSlot
<1>11. q \in Prios /\ sessions[s] \in Session /\ slot \in Slot /\ slot.expectedToggle \in BOOLEAN
    <2>1. q \in Prios /\ sessions[s] \in Session
        BY <1>8, <1>10 DEF Types, RxTypes, Transfer
    <2>2. slot \in Slot
        BY <1>9, <1>10, <2>1 DEF Session
    <2> QED
        BY <2>1, <2>2 DEF Slot
<1>12. slot.expectedToggle = fr.toggle
    <2>1. fr.toggle \in BOOLEAN
        BY DEF Frame
    <2>2. i % 2 = 1 <=> m % 2 = 0
        BY <1>3, <1>4
    <2> QED
        BY <1>2, <1>10, <1>11, <2>1, <2>2
<1>13. rxSessionSolveAdmission(sessions[s], fr)
    BY <1>2, <1>8, <1>9, <1>10, <1>12 DEF rxSessionSolveAdmission
<1>14. s = <<fr.port, fr.src>> /\ q = fr.priority
    BY <1>2, <1>8
<1>15. Continues(fr.port, fr.src, fr)
    <2>1. ~(Ignored /\ Refused(fr))
        BY <1>2, <1>5, <1>10, <1>13, <1>14 DEF Refused
    <2>2. \A p : ~Starts(p, fr)
        BY DEF Starts
    <2>3. PICK p \in subscribed, n \in Remotes : Continues(p, n, fr)
        BY <2>1, <2>2, IngestCases
    <2>4. p = fr.port /\ n = fr.src
        BY <1>2, <1>5, <1>10, <1>14, <2>3 DEF Continues
    <2> QED
        BY <2>3, <2>4
<1>16. PICK new : Advanced(sessions[s], fr, new) /\ sessions' = WithSession(s, new)
    BY <1>14, <1>15 DEF Continues
<1>17. s \in Sessions' /\ sessions'[s] = new
    BY <1>16, WithSessionFacts
<1>18. Extended(slot, fr) = Whole(id, i)
    <2>1. Extended(slot, fr) = Append(Whole(id, m), [id |-> id, index |-> m + 1])
        BY <1>1, <1>2, <1>4, <1>10 DEF Extended
    <2>2. Append(Whole(id, m), [id |-> id, index |-> m + 1]) = Whole(id, m + 1)
        BY <1>3, <1>4, WholeFacts, Zenon
    <2> QED
        BY <1>4, <2>1, <2>2
<1>19. CASE fr.end
    <2>1. crcOK(Whole(id, i)) /\ Whole(id, i)[1].id = id
        BY <1>2, <1>4, WholeFacts, Zenon
    <2>2. crcOK(Extended(slot, fr)) /\ Extended(slot, fr)[1].id = id
        BY <1>18, <2>1
    <2>3. PICK r \in Received : r = [id |-> id, src |-> fr.src]
        BY <1>1 DEF Received, Frame
    <2>4. delivered' = [delivered EXCEPT ![tr.port] = Append(@, r)] /\ r.id = id
        <3>1. delivered' = [delivered EXCEPT ![fr.port] =
                    Append(@, [id |-> Extended(slot, fr)[1].id, src |-> fr.src])]
            BY <1>9, <1>14, <1>15, <1>19, <2>2 DEF Continues
        <3> QED
            BY <1>2, <2>2, <2>3, <3>1
    <2>5. PICK p \in Ports : p = tr.port
        BY <1>4
    <2>6. id \in IdsOf(p)'
        BY <2>4, <2>5, AppendIds
    <2>7. (id \in IdsOf(sent[id].port))'
        BY <1>2, <2>5, <2>6 DEF IdsOf
    <2>8. ~(progress'[id] < sent'[id].frames)
        BY <1>2, <1>19
    <2> QED
        BY <1>1, <1>2, <1>5, <2>7, <2>8 DEF KeptOne
<1>20. CASE ~fr.end
    <2>1. PICK after : after = new.slots[q]
        OBVIOUS
    <2>2. after = [startTs |-> slot.startTs, transferID |-> slot.transferID,
                   expectedToggle |-> ~slot.expectedToggle, payload |-> Extended(slot, fr)]
        BY <1>9, <1>14, <1>16, <1>20, <2>1 DEF Advanced
    <2>3. /\ after.startTs = slot.startTs /\ after.transferID = slot.transferID
          /\ (after.expectedToggle <=> ~slot.expectedToggle) /\ after.payload = Whole(id, i)
        BY <1>18, <2>2
    <2>4. after # NoSlot
        <3>1. Extended(slot, fr) \in Seq(Piece)
            <4>1. Whole(id, i) \in Seq(Piece)
                BY <1>2, <1>4, WholeFacts, Zenon
            <4> QED
                BY <1>18, <4>1
        <3>2. after \in Slot
            BY <1>11, <2>2, <3>1 DEF Slot, Piece
        <3> QED
            BY <3>2, NothingAssumption
    <2>5. after.expectedToggle <=> i % 2 = 0
        <3>1. i % 2 = 0 <=> ~(m % 2 = 0)
            BY <1>3, <1>4
        <3> QED
            BY <1>10, <2>3, <3>1
    <2>6. InSlot(id)'
        <3>1. sent'[id].port = tr.port /\ sent'[id].src = tr.src /\ sent'[id].priority = q
              /\ sent'[id].startTs = tr.startTs /\ sent'[id].transferID = tr.transferID
              /\ progress'[id] = i
            BY <1>2, <1>8
        <3>2. sessions'[s].slots[q] = after
            BY <1>17, <2>1
        <3> QED
            BY <1>8, <1>10, <1>17, <2>3, <2>4, <2>5, <3>1, <3>2 DEF InSlot, Whole
    <2>7. progress'[id] # sent'[id].frames
        BY <1>2, <1>20
    <2> QED
        BY <1>1, <1>2, <1>4, <1>5, <2>6, <2>7 DEF KeptOne
<1> QED
    BY <1>19, <1>20

\* A frame received again starts its transfer anew or is not the one expected.
LEMMA AgainKept ==
    ASSUME Types, NEW fr \in Frame, OnAir(fr), IngestFrame(fr),
           fr.id \in Transfers, KeptOne(fr.id), progress'[fr.id] = progress[fr.id],
           \A r \in Ports : IdsOf(r) \subseteq IdsOf(r)'
    PROVE  KeptOne(fr.id)'
<1>1. PICK id : id = fr.id
    OBVIOUS
<1>2. PICK tr \in Transfer, i \in Nat \ {0} :
        /\ id \in Transfers' /\ tr = sent'[id] /\ i = progress'[id] /\ i <= tr.frames
        /\ fr.index = i /\ fr.port = tr.port /\ fr.src = tr.src
        /\ fr.priority = tr.priority /\ fr.transferID = tr.transferID
        /\ fr.start <=> i = 1
        /\ fr.end <=> i = tr.frames
        /\ fr.toggle <=> i % 2 = 1
    BY <1>1, AirFacts
<1>3. SameButHeard(tr, sent[id]) /\ i = progress[id] /\ now' = now
    BY <1>1, <1>2 DEF OnAir, Air
<1>4. /\ tr.port \in subscribed /\ subscribed' = subscribed /\ tr.port \in Ports
      /\ tr.frames \in Nat /\ (i < tr.frames => tr.startTs >= now - Timeout)
    BY <1>1, <1>2, <1>3, IngestCases DEF KeptOne, SameButHeard, Transfer
<1>5. CASE \E p \in subscribed : Starts(p, fr)
    <2>1. Starts(fr.port, fr)
        BY <1>2, <1>4, <1>5 DEF Starts
    <2>2. ~fr.end => sent'[fr.id].startTs >= now - Timeout
        BY <1>1, <1>2, <1>4
    <2> QED
        BY <1>2, <1>4, <2>1, <2>2, StartsKept
<1>6. CASE ~\E p \in subscribed : Starts(p, fr)
    <2>1. (progress[id] = sent[id].frames => id \in IdsOf(sent[id].port))'
        <3>1. PICK r \in Ports : r = tr.port
            BY <1>4
        <3>2. i = tr.frames => id \in IdsOf(r)'
            BY <1>1, <1>3, <3>1 DEF KeptOne, SameButHeard
        <3> QED
            BY <1>2, <3>1, <3>2 DEF IdsOf
    <2>2. ASSUME i < tr.frames PROVE InSlot(id)'
        <3>1. Latest(id)
            <4>1. \A o \in Transfers' : o > id => ~SameCanID(sent'[o], fr)
                BY <1>1 DEF OnAir, Carried
            <4>2. \A o \in Transfers : o \in Transfers' /\ SameButHeard(sent'[o], sent[o])
                BY DEF OnAir, Air
            <4> QED
                BY <1>2, <1>3, <4>1, <4>2 DEF Latest, SameCanID, SameButHeard
        <3>2. InSlot(id)
            BY <1>1, <1>3, <2>2, <3>1 DEF KeptOne, SameButHeard
        <3>3. PICK s, q : s = <<tr.port, tr.src>> /\ q = tr.priority
            OBVIOUS
        <3>4. /\ s \in Sessions /\ sessions[s].slots[q] # NoSlot
              /\ sessions[s].slots[q].expectedToggle <=> i % 2 = 0
            BY <1>3, <3>2, <3>3 DEF InSlot, SameButHeard
        <3>5. ~rxSessionSolveAdmission(sessions[s], fr) \/ fr.start
            BY <1>2, <3>3, <3>4 DEF rxSessionSolveAdmission
        <3>6. \A p \in subscribed, n \in Remotes : ~Continues(p, n, fr)
            BY <1>2, <1>4, <3>3, <3>4, <3>5 DEF Continues
        <3>7. Ignored
            BY <1>6, <3>6, IngestCases
        <3> QED
            BY <1>2, <1>3, <3>2, <3>7 DEF Ignored, InSlot, Sessions, SameButHeard
    <2> QED
        BY <1>1, <1>2, <1>3, <1>4, <2>1, <2>2 DEF KeptOne
<1> QED
    BY <1>5, <1>6

LEMMA LostFacts ==
    ASSUME Types, NEW fr \in Frame, OnBus(fr)
    PROVE  /\ Lost(fr) => UNCHANGED rxVars
           /\ ~Lost(fr) => IngestFrame(fr)
<1>1. now \in Nat
    BY DEF Types, BusTypes
<1>2. [frame |-> fr, ts |-> now] # NoFrame
    BY <1>1, NothingAssumption
<1> QED
    BY <1>2, OnBusFacts DEF Lost

LEMMA BusStepKept ==
    ASSUME Types, Repeatable, Finished, Slots, Guarded, Heard, Kept, BusStep
    PROVE  Kept'
<1>1. ASSUME NEW fr \in Frame, OnAir(fr)
      PROVE  \A r \in Ports : IdsOf(r) \subseteq IdsOf(r)'
    BY <1>1, BusStepIds
<1>2. ASSUME NEW fr \in Frame, OnAir(fr), NEW k \in intact, k # fr.id,
             ~UNCHANGED rxVars => k \notin Strayed(fr)
      PROVE  KeptOne(k)'
    <2>1. k \in Transfers /\ KeptOne(k)
        BY DEF Types, BusTypes, Kept
    <2> QED
        BY <1>1, <1>2, <2>1, OthersKept
<1>3. ASSUME NEW port \in Ports, NEW src \in Remotes, NEW prio \in Prios, NEW n \in 1..MaxFrames,
             SendStart(port, src, prio, n)
      PROVE  Kept'
    <2>1. PICK fr \in Frame, tr \in Transfer :
            /\ fr.id \notin Transfers /\ fr.start /\ fr.port = port
            /\ Air(fr) /\ Carried(fr)' /\ OnBus(fr) /\ BusTypes'
            /\ sent'[fr.id] = tr /\ tr.startTs = now
            /\ intact' = IF ~Lost(fr) /\ port \in subscribed /\ Distinguishable(tr)
                         THEN intact \cup {fr.id}
                         ELSE IF Lost(fr) THEN intact ELSE intact \ Strayed(fr)
        BY <1>3, SendStartFacts
    <2>2. OnAir(fr) /\ (Lost(fr) => UNCHANGED rxVars) /\ (~Lost(fr) => IngestFrame(fr))
        BY <2>1, OnBusFacts, LostFacts DEF OnAir
    <2>3. intact \subseteq Transfers /\ (port \in subscribed => Strayed(fr) = {})
        BY <2>1 DEF Types, BusTypes, Strayed
    <2>4. ASSUME NEW k \in intact', k # fr.id PROVE KeptOne(k)'
        <3>1. k \in intact /\ (~UNCHANGED rxVars => k \notin Strayed(fr))
            BY <2>1, <2>2, <2>3, <2>4
        <3> QED
            BY <1>2, <2>2, <2>4, <3>1
    <2>5. ASSUME fr.id \in intact' PROVE KeptOne(fr.id)'
        <3>1. ~Lost(fr) /\ port \in subscribed /\ Distinguishable(tr)
            BY <2>1, <2>3, <2>5
        <3> QED
            BY <2>1, <2>2, <3>1, BegunKept
    <2> QED
        BY <2>4, <2>5 DEF Kept
<1>4. ASSUME NEW id \in Transfers, SendNext(id)
      PROVE  Kept'
    <2>1. PICK fr \in Frame :
            /\ fr.id = id /\ ~fr.start
            /\ Air(fr) /\ Carried(fr)' /\ OnBus(fr) /\ BusTypes'
            /\ sent' = sent /\ progress'[id] = progress[id] + 1
            /\ progress[id] < sent[id].frames
            /\ intact' = intact \ (IF Lost(fr) THEN {id} ELSE Strayed(fr))
        BY <1>4, SendNextFacts
    <2>2. progress[id] # sent[id].frames
        <3>1. progress[id] \in Nat /\ sent[id] \in Transfer
            BY DEF Types, BusTypes, Transfers
        <3> QED
            BY <2>1, <3>1 DEF Transfer
    <2>3. OnAir(fr) /\ (Lost(fr) => UNCHANGED rxVars) /\ (~Lost(fr) => IngestFrame(fr))
        BY <2>1, <2>2, OnBusFacts, LostFacts DEF OnAir
    <2>4. ASSUME NEW k \in intact', k # fr.id PROVE KeptOne(k)'
        <3>1. k \in intact /\ (~UNCHANGED rxVars => k \notin Strayed(fr))
            BY <2>1, <2>3
        <3> QED
            BY <1>2, <2>3, <2>4, <3>1
    <2>5. ASSUME fr.id \in intact' PROVE KeptOne(fr.id)'
        <3>1. ~Lost(fr) /\ fr.id \in intact
            BY <2>1, <2>5
        <3>2. KeptOne(fr.id) /\ fr.id \in Transfers
            BY <2>1, <3>1 DEF Kept
        <3> QED
            BY <2>1, <2>3, <3>1, <3>2, NextKept
    <2> QED
        BY <2>4, <2>5 DEF Kept
<1>5. ASSUME NEW n \in Remotes, Duplicate(n)
      PROVE  Kept'
    <2>1. last[n] # NoFrame
        BY <1>5 DEF Duplicate
    <2>2. Carried(last[n].frame) /\ last[n].frame.src = n
        <3>1. PICK g \in Frame : g = last[n].frame
            BY <2>1 DEF Types, BusTypes
        <3> QED
            BY <2>1, <3>1 DEF Repeatable
    <2>3. PICK fr \in Frame :
            /\ fr = last[n].frame /\ now - last[n].ts <= TransferIDTimeout
            /\ Air(fr) /\ Carried(fr)' /\ IngestFrame(fr) /\ BusTypes'
            /\ fr.id \in Transfers /\ progress' = progress /\ last' = last
            /\ intact' = intact \ Strayed(fr)
        BY <1>5, <2>2, DuplicateFacts
    <2>4. OnAir(fr)
        BY <2>1, <2>2, <2>3 DEF OnAir
    <2>5. ASSUME NEW k \in intact', k # fr.id PROVE KeptOne(k)'
        BY <1>2, <2>3, <2>4, <2>5
    <2>6. ASSUME fr.id \in intact' PROVE KeptOne(fr.id)'
        <3>1. KeptOne(fr.id)
            BY <2>3, <2>6 DEF Kept
        <3> QED
            BY <1>1, <2>3, <2>4, <3>1, AgainKept
    <2> QED
        BY <2>5, <2>6 DEF Kept
<1> QED
    BY <1>3, <1>4, <1>5 DEF BusStep

\* Sessions that keep the slots which are not for cleanup.
LEMMA ForgetsKept ==
    ASSUME Types, Forgets, NEW k \in Transfers, KeptOne(k),
           sent[k].port \in subscribed', delivered'[sent[k].port] = delivered[sent[k].port],
           progress[k] < sent[k].frames => sent[k].startTs >= now' - Timeout,
           \A s \in Sessions, q \in Prios :
              /\ s[1] = sent[k].port /\ sessions[s].slots[q] # NoSlot
              /\ ~(sessions[s].slots[q].startTs < now - Timeout)
              => s \in Sessions' /\ sessions'[s].slots[q] = sessions[s].slots[q]
    PROVE  KeptOne(k)'
<1>1. sent' = sent /\ progress' = progress /\ Transfers' = Transfers
    BY DEF Forgets, Transfers
<1>2. (progress[k] = sent[k].frames => k \in IdsOf(sent[k].port))'
    BY <1>1 DEF KeptOne, IdsOf
<1>3. ASSUME progress[k] < sent[k].frames, Latest(k)'
      PROVE  InSlot(k)'
    <2>1. InSlot(k) /\ sent[k].startTs >= now - Timeout
        BY <1>1, <1>3 DEF KeptOne, Latest
    <2>2. PICK s, q : s = <<sent[k].port, sent[k].src>> /\ q = sent[k].priority
        OBVIOUS
    <2>3. s \in Sessions /\ sessions[s].slots[q] # NoSlot /\ s[1] = sent[k].port
          /\ sessions[s].slots[q].startTs >= sent[k].startTs
        BY <2>1, <2>2 DEF InSlot
    <2>4. q \in Prios
        <3>1. sent[k] \in Transfer
            BY DEF Types, BusTypes, Transfers
        <3> QED
            BY <2>2, <3>1 DEF Transfer
    <2>5. ~(sessions[s].slots[q].startTs < now - Timeout)
        BY <2>1, <2>3, <2>4, ExpectedSlot
    <2>6. s \in Sessions' /\ sessions'[s].slots[q] = sessions[s].slots[q]
        BY <2>3, <2>4, <2>5
    <2> QED
        BY <1>1, <2>1, <2>2, <2>6 DEF InSlot, Whole
<1> QED
    BY <1>1, <1>2, <1>3 DEF KeptOne

LEMMA SubscribeKept ==
    ASSUME Types, Kept, NEW p \in Ports, Subscribe(p)
    PROVE  Kept'
<1>1. /\ sessions' = sessions /\ Sessions' = Sessions /\ delivered' = delivered /\ now' = now
      /\ subscribed \subseteq subscribed' /\ intact' = intact /\ intact \subseteq Transfers
    BY DEF Subscribe, busVars, Sessions, Types, BusTypes
<1>2. ASSUME NEW k \in intact' PROVE KeptOne(k)'
    <2>1. KeptOne(k) /\ k \in Transfers
        BY <1>1 DEF Kept
    <2>2. /\ sent[k].port \in subscribed'
          /\ progress[k] < sent[k].frames => sent[k].startTs >= now' - Timeout
        BY <1>1, <2>1 DEF KeptOne
    <2> QED
        BY <1>1, <2>1, <2>2, SubscribeForgets, ForgetsKept
<1> QED
    BY <1>2 DEF Kept

LEMMA UnsubscribeKept ==
    ASSUME Types, Kept, NEW p \in Ports, Unsubscribe(p)
    PROVE  Kept'
<1>1. PICK K : K = {k \in Sessions : k[1] = p}
    OBVIOUS
<1>2. Forget(K)
    BY <1>1 DEF Unsubscribe
<1>3. Sessions' = Sessions \ K /\ \A k \in Sessions' : sessions'[k] = sessions[k]
    BY <1>2, ForgetTypes
<1>4. /\ now' = now /\ subscribed' = subscribed \ {p}
      /\ \A k \in intact' : k \in intact /\ k \in Transfers /\ sent[k].port # p
      /\ \A r \in Ports \ {p} : delivered'[r] = delivered[r]
    BY DEF Unsubscribe, Types, BusTypes, RxTypes
<1>5. ASSUME NEW k \in intact' PROVE KeptOne(k)'
    <2>1. k \in Transfers /\ KeptOne(k) /\ sent[k].port # p
        BY <1>4 DEF Kept
    <2>2. sent[k].port \in subscribed /\ sent[k].port \in Ports
        BY <2>1 DEF KeptOne, Types, RxTypes
    <2>3. \A s \in Sessions : s[1] = sent[k].port => s \in Sessions' /\ sessions'[s] = sessions[s]
        BY <1>1, <1>3, <2>1
    <2>4. /\ sent[k].port \in subscribed' /\ delivered'[sent[k].port] = delivered[sent[k].port]
          /\ progress[k] < sent[k].frames => sent[k].startTs >= now' - Timeout
        BY <1>4, <2>1, <2>2 DEF KeptOne
    <2> QED
        BY <2>1, <2>3, <2>4, UnsubscribeForgets, ForgetsKept
<1> QED
    BY <1>5 DEF Kept

LEMMA PollKept ==
    ASSUME Types, Kept, Poll
    PROVE  Kept'
<1>1. PICK s \in Sessions : Reclaims(s) \/ Cleans(s)
    BY PollCases
<1>2. /\ delivered' = delivered /\ now' = now /\ subscribed' = subscribed /\ intact' = intact
      /\ intact \subseteq Transfers
    BY DEF Poll, busVars, Types, BusTypes
<1>3. \A r \in Sessions, q \in Prios :
        /\ sessions[r].slots[q] # NoSlot /\ ~(sessions[r].slots[q].startTs < now - Timeout)
        => r \in Sessions' /\ sessions'[r].slots[q] = sessions[r].slots[q]
    <2>1. CASE Reclaims(s)
        <3>1. PICK K : K = {s}
            OBVIOUS
        <3>2. Forget(K)
            BY <2>1, <3>1 DEF Reclaims
        <3>3. Sessions' = Sessions \ K /\ \A k \in Sessions' : sessions'[k] = sessions[k]
            BY <3>2, ForgetTypes
        <3>4. \A q \in Prios : \/ sessions[s].slots[q] = NoSlot
                               \/ sessions[s].slots[q].startTs < now - Timeout
            BY <2>1 DEF Reclaims
        <3> QED
            BY <3>1, <3>3, <3>4
    <2>2. CASE Cleans(s)
        BY <2>2, CleansFacts
    <2> QED
        BY <1>1, <2>1, <2>2
<1>4. ASSUME NEW k \in intact' PROVE KeptOne(k)'
    <2>1. KeptOne(k) /\ k \in Transfers
        BY <1>2 DEF Kept
    <2>2. /\ sent[k].port \in subscribed'
          /\ progress[k] < sent[k].frames => sent[k].startTs >= now' - Timeout
        BY <1>2, <2>1 DEF KeptOne
    <2> QED
        BY <1>2, <1>3, <2>1, <2>2, PollForgets, ForgetsKept
<1> QED
    BY <1>4 DEF Kept

LEMMA TickKept ==
    ASSUME Types, Kept, Tick
    PROVE  Kept'
<1>1. /\ sessions' = sessions /\ Sessions' = Sessions /\ delivered' = delivered
      /\ subscribed' = subscribed
      /\ \A k \in intact' : /\ k \in intact /\ k \in Transfers
                            /\ progress[k] = sent[k].frames \/ sent[k].startTs >= now' - Timeout
    BY DEF Tick, rxVars, Sessions, Types, BusTypes, Timeout
<1>2. ASSUME NEW k \in intact' PROVE KeptOne(k)'
    <2>1. KeptOne(k) /\ k \in Transfers
        BY <1>1 DEF Kept
    <2>2. progress[k] < sent[k].frames => sent[k].startTs >= now' - Timeout
        <3>1. progress[k] \in Nat /\ sent[k] \in Transfer
            BY <2>1 DEF Types, BusTypes, Transfers
        <3>2. progress[k] < sent[k].frames => progress[k] # sent[k].frames
            BY <3>1 DEF Transfer
        <3> QED
            BY <1>1, <3>2
    <2>3. sent[k].port \in subscribed'
        BY <1>1, <2>1 DEF KeptOne
    <2> QED
        BY <1>1, <2>1, <2>2, <2>3, TickForgets, ForgetsKept
<1> QED
    BY <1>2 DEF Kept

LEMMA SubscribeOrdered ==
    ASSUME Types, Ordered, NEW p \in Ports, Subscribe(p)
    PROVE  Ordered'
<1>1. /\ Sessions' = Sessions /\ sessions' = sessions /\ animation' = animation
      /\ subscribed \subseteq subscribed' /\ now' >= now /\ now' \in Nat
    BY DEF Subscribe, Sessions, Types, BusTypes
<1>2. ToSet(animation') = Sessions' /\ \A k \in Sessions' : k[1] \in subscribed'
    BY <1>1 DEF Types, RxTypes, Ordered
<1> QED
    BY <1>1, <1>2, OrderedKept

-----------------------------------------------------------------------------
(* The inductive invariant.                                                *)

RxInv ==
    /\ Types
    /\ Repeatable
    /\ Ordered
    /\ Finished /\ Slots /\ Guarded /\ AtMostOnce
    /\ Heard /\ Kept

LEMMA InitRxInv ==
    ASSUME Init
    PROVE  RxInv
<1>1. Types
    BY InitTypes
<1>2. Sessions = {} /\ Transfers = {} /\ intact = {} /\ DOMAIN animation = {}
      /\ \A n \in Remotes : last[n] = NoFrame
    BY DEF Init, Sessions, Transfers
<1>3. \A p \in Ports : DOMAIN delivered[p] = {}
    BY DEF Init
<1>4. Repeatable /\ Ordered /\ Slots /\ Guarded /\ Heard /\ Kept
    BY <1>2 DEF Repeatable, Ordered, Slots, Guarded, Heard, Kept
<1>5. Finished /\ AtMostOnce
    BY <1>3 DEF Finished, AtMostOnce, IdsOf
<1> QED
    BY <1>1, <1>4, <1>5 DEF RxInv

\* A step that only forgets keeps all but the order and the expected slots.
LEMMA ForgetsRxInv ==
    ASSUME RxInv, Types', Forgets, Ordered', Kept'
    PROVE  RxInv'
<1>1. Types
    BY DEF RxInv
<1>2. Repeatable' /\ Finished' /\ Slots' /\ Guarded' /\ AtMostOnce'
    BY <1>1, ForgetsKeeps DEF RxInv
<1>3. Heard'
    BY <1>1, ForgetsHeard DEF RxInv
<1> QED
    BY <1>2, <1>3 DEF RxInv

LEMMA StutterRxInv ==
    ASSUME RxInv, UNCHANGED vars
    PROVE  RxInv'
<1>1. /\ Sessions' = Sessions /\ sessions' = sessions /\ animation' = animation
      /\ subscribed' = subscribed /\ delivered' = delivered /\ sent' = sent
      /\ progress' = progress /\ intact' = intact /\ last' = last /\ now' = now
      /\ Transfers' = Transfers
    BY DEF vars, Sessions, Transfers
<1>2. Types /\ Types'
    BY <1>1 DEF RxInv, Types, RxTypes, BusTypes
<1>3. now \in Nat /\ now' >= now /\ intact \subseteq Transfers
    BY <1>1, <1>2 DEF Types, BusTypes
<1>4. Forgets
    BY <1>1, <1>3 DEF Forgets
<1>5. Ordered'
    BY <1>1 DEF RxInv, Ordered
<1>6. Kept'
    <2>1. ASSUME NEW k \in intact' PROVE KeptOne(k)'
        <3>1. KeptOne(k) /\ k \in Transfers
            BY <1>1, <1>3 DEF RxInv, Kept
        <3>2. /\ sent[k].port \in subscribed'
              /\ progress[k] < sent[k].frames => sent[k].startTs >= now' - Timeout
            BY <1>1, <3>1 DEF KeptOne
        <3> QED
            BY <1>1, <1>2, <1>4, <3>1, <3>2, ForgetsKept
    <2> QED
        BY <2>1 DEF Kept
<1> QED
    BY <1>2, <1>4, <1>5, <1>6, ForgetsRxInv

LEMMA NextRxInv ==
    ASSUME RxInv, [Next]_vars
    PROVE  RxInv'
<1>1. Types /\ Repeatable /\ Ordered /\ Finished /\ Slots /\ Guarded /\ AtMostOnce /\ Heard /\ Kept
    BY DEF RxInv
<1>2. CASE BusStep
    <2>1. PICK fr \in Frame : OnAir(fr)
        BY <1>1, <1>2, BusStepFacts
    <2>2. Types' /\ Repeatable' /\ Ordered'
        BY <1>1, <2>1, BusStepTypes, BusStepRepeatable, BusStepOrdered
    <2>3. Finished' /\ Slots' /\ Guarded' /\ AtMostOnce'
        BY <1>1, <2>1, BusStepFinished, BusStepSlots, BusStepGuarded, BusStepIds
    <2>4. Heard'
        BY <1>1, <2>1, BusStepHeard
    <2>5. Kept'
        BY <1>1, <1>2, BusStepKept
    <2> QED
        BY <2>2, <2>3, <2>4, <2>5 DEF RxInv
<1>3. ASSUME NEW p \in Ports, Subscribe(p) PROVE RxInv'
    BY <1>1, <1>3, SubscribeTypes, SubscribeForgets, SubscribeOrdered, SubscribeKept, ForgetsRxInv
<1>4. ASSUME NEW p \in Ports, Unsubscribe(p) PROVE RxInv'
    BY <1>1, <1>4, UnsubscribeTypes, UnsubscribeForgets, UnsubscribeOrdered, UnsubscribeKept, ForgetsRxInv
<1>5. CASE Poll
    BY <1>1, <1>5, PollTypes, PollForgets, PollOrdered, PollKept, ForgetsRxInv
<1>6. CASE Tick
    BY <1>1, <1>6, TickTypes, TickForgets, TickOrdered, TickKept, ForgetsRxInv
<1>7. CASE UNCHANGED vars
    BY <1>7, StutterRxInv
<1>8. Next => \/ BusStep \/ Poll \/ Tick
              \/ \E p \in Ports : Subscribe(p) \/ Unsubscribe(p)
    BY DEF Next, BusStep
<1> QED
    BY <1>2, <1>3, <1>4, <1>5, <1>6, <1>7, <1>8

LEMMA RxInvariant == Spec => []RxInv
<1>1. Init => RxInv
    BY InitRxInv
<1>2. RxInv /\ [Next]_vars => RxInv'
    BY NextRxInv
<1> QED
    BY <1>1, <1>2, PTL DEF Spec

-----------------------------------------------------------------------------
(* What follows from it.                                                   *)

LEMMA TypesOK ==
    ASSUME Types
    PROVE  TypeOK
<1>1. ASSUME NEW k \in Sessions
      PROVE  /\ \A p \in Prios : sessions[k].slots[p] = NoSlot \/ sessions[k].slots[p] \in Slot
             /\ sessions[k].lastAdmissionTs \in Int
             /\ sessions[k].lastAdmittedTransferID \in 0..(TransferIDModulo - 1)
             /\ sessions[k].lastAdmittedPriority \in Prios \cup {0}
    <2>1. sessions[k] \in Session
        BY DEF Types, RxTypes
    <2>2. sessions[k].slots \in [Prios -> {NoSlot} \cup Slot]
        BY <2>1 DEF Session
    <2>3. \A p \in Prios : sessions[k].slots[p] = NoSlot \/ sessions[k].slots[p] \in Slot
        BY <2>2
    <2> QED
        BY <2>1, <2>3 DEF Session
<1>2. /\ subscribed \subseteq Ports /\ Sessions \subseteq Ports \X Remotes
      /\ animation \in Seq(Ports \X Remotes) /\ intact \subseteq Transfers
    BY DEF Types, RxTypes, BusTypes
<1> QED
    BY <1>1, <1>2 DEF TypeOK

\* enlistTail in rxSessionUpdate (rx.go:276) and delist in rxSessionDestroy keep
\* the animation list a list of all the sessions of installed subscriptions, once
\* each, least recently admitted first, however frames of several remotes, repeated
\* frames, Poll and unsubscribing interleave: Poll may look at its head only.
THEOREM RxAnimationOrdered == Spec => []AnimationOrdered
<1>1. RxInv => AnimationOrdered
    <2>1. SUFFICES ASSUME RxInv PROVE AnimationOrdered
        OBVIOUS
    <2>2. Types /\ Ordered
        BY <2>1 DEF RxInv
    <2>3. TypeOK
        BY <2>2, TypesOK
    <2>4. ToSet(animation) = Sessions
        BY <2>2 DEF Types, RxTypes
    <2> QED
        BY <2>2, <2>3, <2>4 DEF Ordered, AnimationOrdered
<1> QED
    BY <1>1, RxInvariant, PTL

\* rxSessionSolveAdmission recognises a frame that CAN repeats, a start frame by
\* the session's last admission and any other by its slot's toggle, so no message
\* is passed to OnMessage twice, whatever Poll has cleaned up or reclaimed.
THEOREM RxAtMostOnce == Spec => []AtMostOnce
<1>1. RxInv => AtMostOnce
    BY DEF RxInv
<1> QED
    BY <1>1, RxInvariant, PTL

\* rxSessionSolveAdmission, rxSessionAccept and rxSessionCleanup deliver every
\* transfer whose frames all arrived in time, unless a frame of a port without a
\* subscription or of a remote without a session got between (cavlFind).
THEOREM RxNothingLost == Spec => []NothingLost
<1>1. RxInv => NothingLost
    <2>1. SUFFICES ASSUME RxInv, NEW k \in intact, progress[k] = sent[k].frames
                   PROVE  \E i \in DOMAIN delivered[sent[k].port] :
                                delivered[sent[k].port][i].id = k
        BY DEF NothingLost
    <2>2. k \in IdsOf(sent[k].port)
        BY <2>1 DEF RxInv, Kept, KeptOne
    <2> QED
        BY <2>2 DEF IdsOf
<1> QED
    BY <1>1, RxInvariant, PTL
=============================================================================
