---------------------- MODULE ReliablePublisherProofs -----------------------
(***************************************************************************)
(* Proofs about reliable publication, for any set of remotes, any number   *)
(* of messages and any timing: the verdict of a future is right, it is     *)
(* final, and the intervals between retransmissions double.                *)
(*                                                                         *)
(* None of these is inductive.  An accepted acknowledgement leaves rd.mu   *)
(* before it reaches the future, and a materialized message is judged      *)
(* before its future is completed: what the goroutines carry in between    *)
(* has to be counted in.                                                   *)
(***************************************************************************)
EXTENDS ReliablePublisher, FiniteSetTheorems, TLAPS

RMsgs == [deadline : Nat, ackTimeout : Nat, sentAt : Nat, retryCount : Nat,
          expected : SUBSET Remotes, remaining : SUBSET Remotes,
          acknowledged : BOOLEAN]

Futures == [done : BOOLEAN, err : Errors, ackedCount : Nat, returned : BOOLEAN,
            totalCount : Nat]

Tasks == [at : Nat, run : {"handleTimeout", "materialize"}, tag : Tags]

AppAt(where) == app # None /\ app.at = where
TimerAt(where) == timer # None /\ timer.at = where

\* The values of the variables, and the tags that are in use.
Types ==
    /\ now \in 0..MaxTime /\ destroyed \in BOOLEAN /\ msgSeqno \in 0..MaxMsgs
    /\ DOMAIN associations \subseteq Remotes /\ IsFiniteSet(DOMAIN associations)
    /\ rmsg \in [Published -> RMsgs] /\ future \in [Published -> Futures]
    /\ Published \subseteq 1..msgSeqno /\ pending \subseteq Published
    /\ tasks \subseteq Tasks /\ \A k \in tasks : k.tag \in Published
    /\ confirmed \in [Tags -> SUBSET Remotes] /\ reached \in [Tags -> SUBSET Remotes]

\* What the goroutines have in hand.  The application builds a message whose tag
\* nobody else has seen, and until it has scheduled the materialization it has not
\* returned the future.
InHand ==
    /\ AppAt("built") => /\ app.tag \in Tags \ Published /\ app.tag = msgSeqno
                         /\ app.deadline \in Nat /\ app.deadline - Patience <= now
    /\ AppAt("sending") \/ AppAt("sent") =>
            app.tag \in Published /\ ~future[app.tag].returned
    /\ timer # None => timer.tag \in Published
    /\ TimerAt("completing") => timer.err \in Errors
    /\ rx # None => rx.tag \in Published /\ rx.known \in BOOLEAN /\ confirmed[rx.tag] # {}

\* Everyone whose acknowledgement the message waits for has acknowledged.
ByAll(t) == confirmed[t] # {} /\ rmsg[t].expected \subseteq confirmed[t]

\* The acknowledgement that has left rd.mu and not reached the future yet.
OnTheWay(t) == IF rx # None /\ rx.tag = t /\ rx.known THEN 1 ELSE 0

\* The message and its future count the acknowledgements that were accepted.
Counted(t) ==
    /\ IsFiniteSet(rmsg[t].expected)
    /\ rmsg[t].remaining = rmsg[t].expected \ confirmed[t]
    /\ rmsg[t].acknowledged <=> confirmed[t] # {}
    /\ future[t].totalCount = Cardinality(rmsg[t].expected)
    /\ future[t].ackedCount <= future[t].totalCount
    /\ ~future[t].done =>
        future[t].ackedCount + OnTheWay(t)
            <= Cardinality(rmsg[t].expected \ rmsg[t].remaining)

Tally ==
    /\ \A t \in Published : Counted(t)
    /\ \A t \in Tags \ Published : confirmed[t] = {}

\* A failed delivery is final: the deadline has come, somebody has not
\* acknowledged, and the message takes no acknowledgement any more.
Failed(t) == now >= rmsg[t].deadline /\ ~ByAll(t) /\ t \notin pending

Verdicts ==
    /\ \A t \in Published : future[t].done =>
        /\ future[t].err = "OK" => ByAll(t)
        /\ future[t].err = "ErrDelivery" => Failed(t)
    /\ TimerAt("completing") =>
        \/ timer.err = "OK" /\ ByAll(timer.tag)
        \/ timer.err = "ErrDelivery" /\ Failed(timer.tag)
    /\ \A k \in tasks : k.run = "materialize" => k.at = rmsg[k.tag].deadline

VerdictInv == Types /\ InHand /\ Tally /\ Verdicts

\* The waits of a message so far, and the one that is armed.
Waited(t) ==
    /\ rmsg[t].sentAt <= now
    /\ rmsg[t].ackTimeout = 2 ^ rmsg[t].retryCount * AckTimeout
    /\ rmsg[t].sentAt - (rmsg[t].deadline - Patience)
            >= (2 ^ rmsg[t].retryCount - 1) * AckTimeout

Timeouts == {k \in tasks : k.run = "handleTimeout"}

\* A message has one timeout armed at most, and none while it is being sent.
OneTimeout ==
    /\ \A k, l \in Timeouts : k.tag = l.tag => k = l
    /\ AppAt("sending") => \A k \in Timeouts : k.tag # app.tag
    /\ TimerAt("resending") => \A k \in Timeouts : k.tag # timer.tag
    /\ AppAt("sending") /\ TimerAt("resending") => app.tag # timer.tag

ArmedLate ==
    \A k \in Timeouts : \/ k.at >= rmsg[k.tag].sentAt + rmsg[k.tag].ackTimeout
                        \/ k.at >= rmsg[k.tag].deadline

BackoffInv ==
    /\ Types /\ InHand
    /\ \A t \in Published : Waited(t)
    /\ OneTimeout
    /\ ArmedLate
-----------------------------------------------------------------------------
\* What is known of powers of two comes from the number of subsets.
LEMMA PowersOfTwo ==
    ASSUME NEW n \in Nat
    PROVE  2 ^ n \in Nat /\ 2 ^ n >= 1 /\ 2 ^ (n + 1) = 2 * 2 ^ n
<1> DEFINE old == SUBSET (1..n)
           new == {a \cup {n + 1} : a \in old}
           add == [a \in old |-> a \cup {n + 1}]
<1>1. /\ IsFiniteSet(1..n) /\ Cardinality(1..n) = n
      /\ IsFiniteSet(1..(n + 1)) /\ Cardinality(1..(n + 1)) = n + 1
    BY FS_Interval
<1>2. /\ IsFiniteSet(old) /\ Cardinality(old) = 2 ^ n
      /\ Cardinality(SUBSET (1..(n + 1))) = 2 ^ (n + 1)
    BY <1>1, FS_SUBSET
<1>3. Cardinality(old) \in Nat /\ Cardinality(old) # 0
    <2>1. {} \in old
        OBVIOUS
    <2> QED
        BY <1>2, <2>1, FS_CardinalityType, FS_EmptySet
<1>4. SUBSET (1..(n + 1)) = old \cup new
    <2>1. 1..(n + 1) = 1..n \cup {n + 1} /\ n + 1 \notin 1..n
        OBVIOUS
    <2>2. ASSUME NEW s \in SUBSET (1..(n + 1)) PROVE s \in old \cup new
        <3>1. CASE n + 1 \notin s
            BY <2>1, <3>1
        <3>2. CASE n + 1 \in s
            <4>1. s \ {n + 1} \in old /\ s = (s \ {n + 1}) \cup {n + 1}
                BY <2>1, <3>2
            <4> QED
                BY <4>1
        <3> QED
            BY <3>1, <3>2
    <2>3. ASSUME NEW s \in old \cup new PROVE s \in SUBSET (1..(n + 1))
        BY <2>1
    <2> QED
        BY <2>2, <2>3
<1>5. old \cap new = {}
    OBVIOUS
<1>6. add \in Bijection(old, new)
    <2>1. ASSUME NEW a \in old, NEW b \in old, add[a] = add[b] PROVE a = b
        <3>1. n + 1 \notin a /\ n + 1 \notin b
            OBVIOUS
        <3>2. a \cup {n + 1} = b \cup {n + 1}
            BY <2>1
        <3>3. a = (a \cup {n + 1}) \ {n + 1} /\ b = (b \cup {n + 1}) \ {n + 1}
            BY <3>1
        <3> QED
            BY <3>2, <3>3
    <2>2. add \in [old -> new] /\ DOMAIN add = old
        OBVIOUS
    <2>3. \A s \in new : \E a \in old : add[a] = s
        OBVIOUS
    <2> HIDE DEF add, old, new
    <2>4. \A a, b \in DOMAIN add : add[a] = add[b] => a = b
        BY <2>1, <2>2
    <2> QED
        BY <2>2, <2>3, <2>4 DEF Bijection, Injection, Surjection, IsInjective
<1>7. IsFiniteSet(new) /\ Cardinality(new) = 2 ^ n
    BY <1>2, <1>6, FS_Bijection DEF ExistsBijection
<1>8. Cardinality(old \cup new) = Cardinality(old) + Cardinality(new)
    <2>1. Cardinality(old \cap new) = 0
        BY <1>5, FS_EmptySet
    <2> HIDE DEF old, new
    <2> QED
        BY <1>2, <1>3, <1>7, <2>1, FS_Union
<1> DEFINE c == Cardinality(old)
<1>9. c \in Nat /\ c = 2 ^ n
    BY <1>2, <1>3
<1>10. Cardinality(SUBSET (1..(n + 1))) = c + c
    BY <1>2, <1>4, <1>7, <1>8, Zenon
<1>11. c >= 1 /\ c + c = 2 * c
    <2>1. c # 0
        BY <1>3
    <2> HIDE DEF c
    <2> QED
        BY <1>9, <2>1
<1> HIDE DEF c
<1> QED
    BY <1>2, <1>9, <1>10, <1>11, Zenon

-----------------------------------------------------------------------------
LEMMA TypesInit == Init => Types /\ InHand
<1> SUFFICES ASSUME Init PROVE Types /\ InHand
    OBVIOUS
<1>1. DOMAIN associations = {} /\ DOMAIN rmsg = {}
    BY DEF Init
<1>2. rmsg \in [{} -> RMsgs] /\ future \in [{} -> Futures]
    BY DEF Init
<1>3. IsFiniteSet(DOMAIN associations)
    BY <1>1, FS_EmptySet
<1>4. InHand
    BY DEF Init, InHand, AppAt, TimerAt
<1>5. Published = {}
    BY <1>1 DEF Published
<1>6. /\ now \in 0..MaxTime /\ destroyed \in BOOLEAN /\ msgSeqno \in 0..MaxMsgs
      /\ pending = {} /\ tasks = {}
    <2>1. now = 0 /\ msgSeqno = 0 /\ pending = {} /\ tasks = {} /\ destroyed \in BOOLEAN
        BY DEF Init
    <2> QED
        BY <2>1, PublisherAssumption
<1>7. confirmed \in [Tags -> SUBSET Remotes] /\ reached \in [Tags -> SUBSET Remotes]
    BY DEF Init
<1>8. /\ rmsg \in [Published -> RMsgs] /\ future \in [Published -> Futures]
      /\ DOMAIN associations \subseteq Remotes
    BY <1>1, <1>2, <1>5
<1>9. Types
    <2>1. /\ Published \subseteq 1..msgSeqno /\ pending \subseteq Published
          /\ tasks \subseteq Tasks /\ \A k \in tasks : k.tag \in Published
        BY <1>5, <1>6
    <2> QED
        BY <1>3, <1>6, <1>7, <1>8, <2>1 DEF Types
<1> QED
    BY <1>4, <1>9

LEMMA TagsOfUse ==
    ASSUME Types PROVE Published \subseteq Tags /\ 1..msgSeqno \subseteq Tags
BY PublisherAssumption DEF Types, Tags

\* What Acknowledge does to the fields of a future.
LEMMA AcknowledgeFields ==
    ASSUME NEW f \in Futures, NEW known \in BOOLEAN
    PROVE  /\ Acknowledge(f, known) \in Futures
           /\ Acknowledge(f, known).returned = f.returned
           /\ Acknowledge(f, known).totalCount = f.totalCount
           /\ f.done => Acknowledge(f, known) = f
           /\ ~f.done =>
                /\ Acknowledge(f, known).ackedCount = f.ackedCount + (IF known THEN 1 ELSE 0)
                /\ Acknowledge(f, known).done
                      <=> f.ackedCount + (IF known THEN 1 ELSE 0) >= f.totalCount
                /\ Acknowledge(f, known).err
                      = IF f.ackedCount + (IF known THEN 1 ELSE 0) >= f.totalCount
                        THEN "OK" ELSE f.err
<1> DEFINE n == f.ackedCount + (IF known THEN 1 ELSE 0)
           h == [f EXCEPT !.ackedCount = n]
<1>1. n \in Nat
    BY DEF Futures
<1>2. /\ h \in Futures /\ h.ackedCount = n /\ h.done = f.done /\ h.err = f.err
      /\ h.returned = f.returned /\ h.totalCount = f.totalCount
    <2> HIDE DEF n
    <2> QED
        BY <1>1 DEF Futures
<1>3. Acknowledge(f, known) = IF f.done THEN f
                              ELSE IF n >= f.totalCount THEN Complete(h, "OK") ELSE h
    BY DEF Acknowledge
<1> HIDE DEF n, h
<1>4. ~f.done => Complete(h, "OK") = [h EXCEPT !.done = TRUE, !.err = "OK"]
    BY <1>2 DEF Complete
<1>5. ~f.done /\ n >= f.totalCount => Acknowledge(f, known) = [h EXCEPT !.done = TRUE, !.err = "OK"]
    BY <1>3, <1>4
<1>6. ~f.done /\ ~(n >= f.totalCount) => Acknowledge(f, known) = h
    BY <1>3
<1>7. f.done => Acknowledge(f, known) = f
    BY <1>3
<1>8. CASE f.done
    BY <1>7, <1>8 DEF n
<1>9. CASE ~f.done /\ n >= f.totalCount
    BY <1>2, <1>5, <1>9 DEF n, Futures, Errors
<1>10. CASE ~f.done /\ ~(n >= f.totalCount)
    BY <1>2, <1>6, <1>10 DEF n, Futures
<1> QED
    BY <1>8, <1>9, <1>10

LEMMA TypesStep ==
    ASSUME Types, InHand, [Next]_vars
    PROVE  Types' /\ InHand'
<1> USE PublisherAssumption, TagsOfUse DEF Types, InHand, Published, AppAt, TimerAt
<1>1. CASE PublishReliable
    BY <1>1 DEF PublishReliable, Tags
<1>2. CASE Register
    <2>1. app.tag \in Tags \ Published /\ app.tag = msgSeqno
        BY <1>2 DEF Register
    <2>2. rmsg' \in [(DOMAIN rmsg)' -> RMsgs] /\ (DOMAIN rmsg)' = DOMAIN rmsg \cup {app.tag}
        BY <1>2, <2>1 DEF Register, Put, RMsgs
    <2>3. Cardinality(DOMAIN associations) \in Nat
        BY FS_CardinalityType
    <2>4. future' \in [(DOMAIN rmsg)' -> Futures] /\ ~future'[app.tag].returned
        BY <1>2, <2>1, <2>2, <2>3 DEF Register, Put, Futures, Errors
    <2>5. tasks' = tasks /\ \A k \in tasks : k.tag \in DOMAIN rmsg'
        BY <1>2, <2>2 DEF Register
    <2>6. DOMAIN rmsg' \subseteq 1..msgSeqno /\ pending' \subseteq DOMAIN rmsg'
        <3>1. app.tag \in 1..msgSeqno
            BY <2>1 DEF Tags
        <3>2. pending' = pending \cup {app.tag}
            BY <1>2 DEF Register
        <3> QED
            BY <2>2, <3>1, <3>2
    <2>7. Types'
        <3>1. UNCHANGED <<now, destroyed, msgSeqno, associations, tasks, reached, confirmed>>
            BY <1>2 DEF Register
        <3> QED
            BY <2>2, <2>4, <2>5, <2>6, <3>1
    <2> QED
        BY <1>2, <2>1, <2>2, <2>4, <2>7 DEF Register
<1>3. CASE SentOK
    BY <1>3 DEF SentOK, Transmit, ArmTimeout, Tasks, RMsgs
<1>4. CASE ScheduleMaterialize
    <2>1. future' \in [Published -> Futures]
        BY <1>4 DEF ScheduleMaterialize, Futures
    <2>2. tasks' \subseteq Tasks /\ \A k \in tasks' : k.tag \in Published
        BY <1>4 DEF ScheduleMaterialize, Tasks, RMsgs
    <2> QED
        BY <1>4, <2>1, <2>2 DEF ScheduleMaterialize
<1>5. CASE SentError
    BY <1>5 DEF SentError, Futures, Errors
<1>6. CASE Destroy
    <2>1. \A t \in Published : Complete(future[t], "ErrNACK") \in Futures
        BY DEF Complete, Futures, Errors
    <2>2. future' \in [Published -> Futures]
        BY <1>6, <2>1 DEF Destroy
    <2>3. \A t \in Published : future'[t].returned = future[t].returned
        BY <1>6 DEF Destroy, Complete, Futures
    <2>4. DOMAIN associations' = {}
        BY <1>6 DEF Destroy
    <2> QED
        BY <1>6, <2>2, <2>3, <2>4, FS_EmptySet DEF Destroy
<1>7. ASSUME NEW r \in Remotes, AddAssociation(r) PROVE Types' /\ InHand'
    <2>1. DOMAIN associations' = DOMAIN associations \cup {r}
        BY <1>7 DEF AddAssociation, Put
    <2> QED
        BY <1>7, <2>1, FS_AddElement DEF AddAssociation
<1>8. ASSUME NEW gone, DropAssociations(gone) PROVE Types' /\ InHand'
    <2>1. DOMAIN associations' \in SUBSET DOMAIN associations
        BY <1>8 DEF DropAssociations
    <2>2. IsFiniteSet(DOMAIN associations')
        BY <2>1, FS_Subset
    <2> QED
        BY <1>8, <2>1, <2>2 DEF DropAssociations
<1>9. ASSUME NEW k \in tasks, HandleTimeout(k) PROVE Types' /\ InHand'
    <2>1. k.tag \in Published
        OBVIOUS
    <2>2. rmsg' \in [Published -> RMsgs] /\ DOMAIN rmsg' = Published
        BY <1>9, <2>1 DEF HandleTimeout, RMsgs
    <2>3. /\ future' \in [Published -> Futures]
          /\ \A t \in Published : future'[t].returned = future[t].returned
        BY <1>9, <2>1 DEF HandleTimeout, UpdateError, Futures, Errors
    <2> QED
        BY <1>9, <2>1, <2>2, <2>3 DEF HandleTimeout, First
<1>10. ASSUME NEW k \in tasks, TimeoutMoot(k) PROVE Types' /\ InHand'
    BY <1>10 DEF TimeoutMoot, First
<1>11. ASSUME NEW k \in tasks, Materialize(k) PROVE Types' /\ InHand'
    BY <1>11 DEF Materialize, First, Errors
<1>12. CASE ResentOK
    BY <1>12 DEF ResentOK, Transmit, ArmTimeout, Tasks, RMsgs
<1>13. CASE ResentError
    BY <1>13 DEF ResentError
<1>14. CASE MaterializeComplete
    <2>1. /\ Complete(future[timer.tag], timer.err) \in Futures
          /\ Complete(future[timer.tag], timer.err).returned = future[timer.tag].returned
        BY <1>14 DEF MaterializeComplete, Complete, Futures
    <2>2. /\ future' \in [Published -> Futures]
          /\ \A t \in Published : future'[t].returned = future[t].returned
        BY <1>14, <2>1 DEF MaterializeComplete
    <2> QED
        BY <1>14, <2>2 DEF MaterializeComplete
<1>15. ASSUME NEW r \in Remotes, NEW tag \in Tags, HandleAck(r, tag)
       PROVE  Types' /\ InHand'
    <2>1. tag \in Published
        BY <1>15 DEF HandleAck
    <2>2. rmsg' \in [Published -> RMsgs] /\ DOMAIN rmsg' = Published
        BY <1>15, <2>1 DEF HandleAck, RMsgs
    <2>3. confirmed' \in [Tags -> SUBSET Remotes] /\ confirmed'[tag] # {}
        BY <1>15 DEF HandleAck
    <2> QED
        BY <1>15, <2>1, <2>2, <2>3 DEF HandleAck
<1>16. CASE AckFuture
    <2>1. rx.tag \in Published /\ rx.known \in BOOLEAN /\ future[rx.tag] \in Futures
        BY <1>16 DEF AckFuture
    <2>2. /\ Acknowledge(future[rx.tag], rx.known) \in Futures
          /\ Acknowledge(future[rx.tag], rx.known).returned = future[rx.tag].returned
        BY <2>1, AcknowledgeFields
    <2>3. /\ future' \in [Published -> Futures]
          /\ \A t \in Published : future'[t].returned = future[t].returned
        BY <1>16, <2>1, <2>2 DEF AckFuture
    <2> QED
        BY <1>16, <2>3 DEF AckFuture
<1>17. CASE Tick
    BY <1>17 DEF Tick
<1>18. CASE UNCHANGED vars
    BY <1>18 DEF vars
<1> QED
    BY <1>1, <1>2, <1>3, <1>4, <1>5, <1>6, <1>7, <1>8, <1>9, <1>10, <1>11, <1>12, <1>13,
       <1>14, <1>15, <1>16, <1>17, <1>18
    DEF Next, AppStep, TimerStep, RemoveAssociation, Cleanup

-----------------------------------------------------------------------------
(* The verdict.                                                            *)

LEMMA CountedTypes ==
    ASSUME Types, Tally, NEW t \in Published
    PROVE  /\ t \in Tags /\ rmsg[t] \in RMsgs /\ future[t] \in Futures
           /\ confirmed[t] \in SUBSET Remotes
           /\ OnTheWay(t) \in {0, 1}
           /\ IsFiniteSet(rmsg[t].expected)
           /\ Cardinality(rmsg[t].expected) \in Nat
           /\ Cardinality(rmsg[t].expected \ rmsg[t].remaining) \in Nat
           /\ Cardinality(rmsg[t].expected \ rmsg[t].remaining)
                <= Cardinality(rmsg[t].expected)
<1>1. t \in Tags /\ rmsg[t] \in RMsgs /\ future[t] \in Futures /\ confirmed[t] \in SUBSET Remotes
    BY TagsOfUse DEF Types
<1>2. OnTheWay(t) \in {0, 1}
    BY DEF OnTheWay
<1>3. IsFiniteSet(rmsg[t].expected)
    BY DEF Tally, Counted
<1>4. rmsg[t].expected \ rmsg[t].remaining \in SUBSET rmsg[t].expected
    OBVIOUS
<1> QED
    BY <1>1, <1>2, <1>3, <1>4, FS_CardinalityType, FS_Subset

\* Steps that touch neither a message nor a future.
LEMMA NothingJudged ==
    ASSUME VerdictInv, rmsg' = rmsg, future' = future, confirmed' = confirmed,
           rx' = rx, pending' = pending,
           timer' = timer \/ timer' = None, now' \in Nat, now' >= now,
           \A k \in tasks' : k.run = "materialize" => k \in tasks
    PROVE  Tally' /\ Verdicts'
<1> USE DEF VerdictInv, Published
<1>1. Tally'
    BY DEF Tally, Counted, OnTheWay
<1>2. ASSUME NEW t \in Published, Failed(t) PROVE Failed(t)'
    <2>1. now \in Nat /\ rmsg[t].deadline \in Nat
        BY PublisherAssumption DEF Types, RMsgs
    <2> QED
        BY <1>2, <2>1 DEF Failed, ByAll
<1>3. ASSUME NEW t \in Published, ByAll(t) PROVE ByAll(t)'
    BY <1>3 DEF ByAll
<1>4. TimerAt("completing")' => TimerAt("completing") /\ timer' = timer
    BY DEF TimerAt
<1>5. TimerAt("completing") => timer.tag \in Published
    BY DEF InHand, TimerAt
<1> QED
    BY <1>1, <1>2, <1>3, <1>4, <1>5 DEF Verdicts

LEMMA RegisterVerdict ==
    ASSUME VerdictInv, Register PROVE Tally' /\ Verdicts'
<1> USE DEF VerdictInv, Published
<1>1. PICK new \in Tags \ Published : new = app.tag
    BY DEF Register, InHand, AppAt
<1>2. Published' = Published \cup {new}
    BY <1>1 DEF Register, Put
<1>3. ASSUME NEW t \in Published
      PROVE  rmsg'[t] = rmsg[t] /\ future'[t] = future[t] /\ t # new
             /\ (t \in pending' <=> t \in pending)
    BY <1>1, <1>3 DEF Register, Put, Types
<1>4. UNCHANGED <<now, associations, timer, rx, confirmed, tasks>>
    BY DEF Register
<1>5. /\ rmsg'[new].expected = DOMAIN associations
      /\ rmsg'[new].remaining = DOMAIN associations
      /\ ~rmsg'[new].acknowledged
    BY <1>1 DEF Register, Put
<1>6. /\ future'[new].totalCount = Cardinality(DOMAIN associations)
      /\ future'[new].ackedCount = 0 /\ ~future'[new].done
    BY <1>1 DEF Register, Put
<1>7. confirmed[new] = {}
    BY <1>1 DEF Tally
<1>8. Counted(new)'
    <2>1. ~(rx # None /\ rx.tag = new)
        BY DEF InHand
    <2>2. DOMAIN associations \ DOMAIN associations = {}
        OBVIOUS
    <2>3. IsFiniteSet(DOMAIN associations)
        BY DEF Types
    <2>4. Cardinality(DOMAIN associations) \in Nat
        BY <2>3, FS_CardinalityType
    <2> QED
        BY <1>4, <1>5, <1>6, <1>7, <2>1, <2>2, <2>3, <2>4, FS_EmptySet DEF Counted, OnTheWay
<1>9. Tally'
    <2>1. ASSUME NEW t \in Published PROVE Counted(t)'
        BY <1>3, <1>4 DEF Tally, Counted, OnTheWay
    <2>2. \A t \in Tags \ Published' : confirmed'[t] = {}
        BY <1>2, <1>4 DEF Tally
    <2> QED
        BY <1>2, <1>8, <2>1, <2>2 DEF Tally
<1>10. ASSUME NEW t \in Published
       PROVE  (Failed(t)' <=> Failed(t)) /\ (ByAll(t)' <=> ByAll(t))
    BY <1>3, <1>4 DEF Failed, ByAll
<1>11. TimerAt("completing") => timer.tag \in Published
    BY DEF InHand, TimerAt
<1>12. \A k \in tasks : k.tag \in Published
    BY DEF Types
<1> QED
    BY <1>2, <1>3, <1>4, <1>6, <1>9, <1>10, <1>11, <1>12 DEF Verdicts, TimerAt

\* Steps that change a future and no message.
LEMMA FuturesOnly ==
    ASSUME VerdictInv, UNCHANGED <<now, rmsg, confirmed>>,
           timer' = timer \/ timer' = None,
           pending' \subseteq pending,
           future' \in [Published -> Futures],
           \A k \in tasks' : k.run = "materialize" =>
                k.tag \in Published /\ k.at = rmsg[k.tag].deadline,
           \A t \in Published :
                /\ future'[t].totalCount = future[t].totalCount
                /\ future'[t].ackedCount <= future[t].totalCount
                /\ ~future'[t].done =>
                      future'[t].ackedCount + OnTheWay(t)'
                        <= Cardinality(rmsg[t].expected \ rmsg[t].remaining)
                /\ future'[t].done =>
                      /\ future'[t].err = "OK" => ByAll(t)
                      /\ future'[t].err = "ErrDelivery" => Failed(t)
    PROVE  Tally' /\ Verdicts'
<1> USE DEF VerdictInv, Published
<1>1. Tally'
    BY DEF Tally, Counted
<1>2. ASSUME NEW t \in Published PROVE (Failed(t) => Failed(t)') /\ (ByAll(t) => ByAll(t)')
    BY DEF Failed, ByAll
<1>3. TimerAt("completing")' => TimerAt("completing") /\ timer' = timer
    BY DEF TimerAt
<1>4. TimerAt("completing") => timer.tag \in Published
    BY DEF InHand, TimerAt
<1> QED
    BY <1>1, <1>2, <1>3, <1>4 DEF Verdicts

\* A future whose fields are as they were keeps what is known of it.
LEMMA FutureKept ==
    ASSUME Tally, Verdicts, NEW t \in Published
    PROVE  /\ future[t].ackedCount <= future[t].totalCount
           /\ ~future[t].done =>
                 future[t].ackedCount + OnTheWay(t)
                    <= Cardinality(rmsg[t].expected \ rmsg[t].remaining)
           /\ future[t].done =>
                 /\ future[t].err = "OK" => ByAll(t)
                 /\ future[t].err = "ErrDelivery" => Failed(t)
BY DEF Tally, Verdicts, Counted

\* Steps that change a message and no future.  A message that loses an
\* acknowledgement it waits for has its future told about it later.
LEMMA HandleAckVerdict ==
    ASSUME VerdictInv, NEW r \in Remotes, NEW tag \in Tags, HandleAck(r, tag)
    PROVE  Tally' /\ Verdicts'
<1> USE DEF VerdictInv, Published
<1>1. tag \in Published /\ tag \in pending /\ rmsg[tag] \in RMsgs
    BY CountedTypes DEF HandleAck, Types
<1>2. /\ UNCHANGED <<now, pending, future, tasks, timer>>
      /\ DOMAIN rmsg' = Published
    BY DEF HandleAck, Types
<1>3. \A t \in Tags : confirmed'[t] = IF t = tag THEN confirmed[t] \cup {r} ELSE confirmed[t]
    BY DEF HandleAck, Types
<1>4. /\ rmsg'[tag].acknowledged
      /\ rmsg'[tag].remaining = rmsg[tag].remaining \ {r}
      /\ rmsg'[tag].expected = rmsg[tag].expected
      /\ rmsg'[tag].deadline = rmsg[tag].deadline
    BY <1>1 DEF HandleAck, Types, RMsgs
<1>5. \A t \in Published : t # tag => rmsg'[t] = rmsg[t]
    BY DEF HandleAck
<1>6. rx = None /\ (rx' # None => rx'.tag = tag /\ (rx'.known <=> r \in rmsg[tag].remaining))
    BY DEF HandleAck
<1>7. Counted(tag)'
    <2> DEFINE had == rmsg[tag].expected \ rmsg[tag].remaining
               has == rmsg[tag].expected \ (rmsg[tag].remaining \ {r})
    <2>1. Counted(tag)
        BY <1>1 DEF Tally
    <2>2. IsFiniteSet(rmsg[tag].expected) /\ rmsg[tag].remaining \subseteq rmsg[tag].expected
        BY <2>1 DEF Counted
    <2>3. has = IF r \in rmsg[tag].remaining THEN had \cup {r} ELSE had
        BY <2>2
    <2>4. IsFiniteSet(had) /\ Cardinality(had) \in Nat
        <3>1. IsFiniteSet(had)
            BY <2>2, FS_Difference
        <3> HIDE DEF had
        <3> QED
            BY <3>1, FS_CardinalityType
    <2>5. r \in rmsg[tag].remaining => Cardinality(has) = Cardinality(had) + 1
        <3>1. r \in rmsg[tag].remaining => r \notin had
            BY DEF had
        <3> HIDE DEF had, has
        <3> QED
            BY <2>3, <2>4, <3>1, FS_AddElement
    <2>6. r \notin rmsg[tag].remaining => Cardinality(has) = Cardinality(had)
        BY <2>3
    <2>7. OnTheWay(tag) = 0 /\ OnTheWay(tag)' <= (IF r \in rmsg[tag].remaining THEN 1 ELSE 0)
          /\ OnTheWay(tag)' \in {0, 1}
        BY <1>6 DEF OnTheWay
    <2>8. future[tag].ackedCount \in Nat
        BY <1>1, CountedTypes DEF Futures
    <2>9. rmsg'[tag].expected \ rmsg'[tag].remaining = has
        BY <1>4
    <2> HIDE DEF had, has
    <2>10. ~future[tag].done => future[tag].ackedCount + OnTheWay(tag)' <= Cardinality(has)
        <3>1. ~future[tag].done => future[tag].ackedCount + 0 <= Cardinality(had)
            BY <2>1, <2>7 DEF Counted, had
        <3> QED
            BY <2>4, <2>5, <2>6, <2>7, <2>8, <3>1
    <2>11. rmsg'[tag].remaining = rmsg'[tag].expected \ confirmed'[tag] /\ confirmed'[tag] # {}
        BY <1>3, <1>4, <2>1 DEF Counted
    <2> QED
        BY <1>2, <1>4, <2>1, <2>9, <2>10, <2>11 DEF Counted
<1>8. ASSUME NEW t \in Published, t # tag PROVE Counted(t)'
    <2>1. OnTheWay(t)' = 0
        BY <1>6, <1>8 DEF OnTheWay
    <2>2. OnTheWay(t) = 0
        BY <1>6 DEF OnTheWay
    <2>3. t \in Tags /\ Counted(t)
        BY CountedTypes DEF Tally
    <2> QED
        BY <1>2, <1>3, <1>5, <1>8, <2>1, <2>2, <2>3 DEF Counted
<1>9. Tally'
    BY <1>1, <1>2, <1>3, <1>7, <1>8 DEF Tally
<1>10. ASSUME NEW t \in Published
       PROVE  (Failed(t) => Failed(t)') /\ (ByAll(t) => ByAll(t)')
    <2>1. t \in Tags
        BY CountedTypes
    <2>2. CASE t = tag
        BY <1>1, <1>3, <1>4, <2>1, <2>2 DEF Failed, ByAll
    <2>3. CASE t # tag
        BY <1>2, <1>3, <1>5, <2>1, <2>3 DEF Failed, ByAll
    <2> QED
        BY <2>2, <2>3
<1>11. (TimerAt("completing") => timer.tag \in Published)
       /\ \A k \in tasks : k.tag \in Published /\ rmsg'[k.tag].deadline = rmsg[k.tag].deadline
    BY <1>1, <1>4, <1>5 DEF InHand, TimerAt, Types
<1> QED
    BY <1>2, <1>9, <1>10, <1>11 DEF Verdicts, TimerAt

LEMMA MaterializeVerdict ==
    ASSUME VerdictInv, NEW k \in tasks, Materialize(k) PROVE Tally' /\ Verdicts'
<1> USE DEF VerdictInv, Published
<1>1. /\ UNCHANGED <<now, rmsg, confirmed, future, rx>>
      /\ pending' = pending \ {k.tag} /\ tasks' = tasks \ {k}
      /\ k.run = "materialize" /\ k.at <= now
    BY DEF Materialize, First
<1>2. PICK tag \in Published : k.tag = tag
    BY DEF Types
<1>3. Counted(tag)
    BY DEF Tally
<1>4. ByAll(tag) <=> rmsg[tag].acknowledged /\ rmsg[tag].remaining = {}
    BY <1>3 DEF ByAll, Counted
<1>5. now >= rmsg[tag].deadline
    BY <1>1, <1>2 DEF Verdicts
<1>6. timer' = None \/ /\ timer'.tag = tag
                       /\ timer'.err = IF ByAll(tag) THEN "OK" ELSE "ErrDelivery"
    BY <1>2, <1>4 DEF Materialize
<1>7. Tally'
    BY <1>1 DEF Tally, Counted, OnTheWay
<1>8. ASSUME NEW t \in Published
      PROVE  (Failed(t) => Failed(t)') /\ (ByAll(t) <=> ByAll(t)')
    BY <1>1 DEF Failed, ByAll
<1>9. ~ByAll(tag) => Failed(tag)'
    BY <1>1, <1>2, <1>5, <1>8 DEF Failed
<1>10. TimerAt("completing")' => \/ timer'.err = "OK" /\ timer'.tag = tag /\ ByAll(tag)'
                                 \/ timer'.err = "ErrDelivery" /\ timer'.tag = tag /\ Failed(tag)'
    BY <1>6, <1>8, <1>9 DEF TimerAt
<1> QED
    BY <1>1, <1>7, <1>8, <1>10 DEF Verdicts

LEMMA HandleTimeoutVerdict ==
    ASSUME VerdictInv, NEW k \in tasks, HandleTimeout(k) PROVE Tally' /\ Verdicts'
<1> USE DEF VerdictInv, Published
<1>1. /\ UNCHANGED <<now, confirmed, rx, pending>> /\ tasks' \subseteq tasks
      /\ DOMAIN rmsg' = Published
    BY DEF HandleTimeout, First
<1>2. PICK tag \in Published : k.tag = tag
    BY DEF Types
<1>3. \A t \in Published :
        /\ rmsg'[t].expected = rmsg[t].expected /\ rmsg'[t].deadline = rmsg[t].deadline
        /\ rmsg'[t].remaining = rmsg[t].remaining
        /\ rmsg'[t].acknowledged = rmsg[t].acknowledged
    BY <1>2 DEF HandleTimeout, Types, RMsgs
<1>4. \A t \in Published :
        /\ future'[t].done = future[t].done /\ future'[t].ackedCount = future[t].ackedCount
        /\ future'[t].totalCount = future[t].totalCount
        /\ future[t].done => future'[t].err = future[t].err
    BY <1>2 DEF HandleTimeout, UpdateError, Types, Futures
<1>5. ~TimerAt("completing")'
    BY DEF HandleTimeout, TimerAt
<1>6. Tally'
    BY <1>1, <1>3, <1>4 DEF Tally, Counted, OnTheWay
<1>7. ASSUME NEW t \in Published
      PROVE  (Failed(t) <=> Failed(t)') /\ (ByAll(t) <=> ByAll(t)')
    BY <1>1, <1>3 DEF Failed, ByAll
<1>8. \A j \in tasks : j.tag \in Published
    BY DEF Types
<1> QED
    BY <1>1, <1>3, <1>4, <1>5, <1>6, <1>7, <1>8 DEF Verdicts

LEMMA AckFutureVerdict ==
    ASSUME VerdictInv, AckFuture PROVE Tally' /\ Verdicts'
<1> USE DEF VerdictInv, Published
<1>1. PICK tag \in Published : rx.tag = tag /\ rx # None /\ rx.known \in BOOLEAN
                               /\ confirmed[tag] # {}
    BY DEF AckFuture, InHand
<1>2. PICK known \in BOOLEAN : rx.known = known
    BY <1>1
<1>3. /\ UNCHANGED <<now, rmsg, confirmed, timer, pending, tasks>> /\ rx' = None
      /\ future' = [future EXCEPT ![tag] = Acknowledge(@, known)]
    BY <1>1, <1>2 DEF AckFuture
<1>5. PICK f \in Futures : f = future[tag]
    BY DEF Types
<1> DEFINE n == f.ackedCount + (IF known THEN 1 ELSE 0)
           all == Cardinality(rmsg[tag].expected)
           had == Cardinality(rmsg[tag].expected \ rmsg[tag].remaining)
<1>4. PICK g : g = Acknowledge(f, known)
    OBVIOUS
<1>6. /\ g \in Futures /\ g.totalCount = f.totalCount
      /\ f.done => g = f
      /\ ~f.done => /\ g.ackedCount = n
                    /\ g.done <=> n >= f.totalCount
                    /\ g.err = IF n >= f.totalCount THEN "OK" ELSE f.err
    BY <1>4, AcknowledgeFields
<1>7. /\ future' = [future EXCEPT ![tag] = g] /\ future' \in [Published -> Futures]
      /\ future'[tag] = g /\ \A t \in Published : t # tag => future'[t] = future[t]
    BY <1>3, <1>4, <1>5, <1>6 DEF Types
<1>8. all \in Nat /\ had \in Nat /\ had <= all /\ f.totalCount = all
    BY <1>5, CountedTypes DEF Tally, Counted
<1>9. ~f.done => n <= had
    <2>1. OnTheWay(tag) = IF known THEN 1 ELSE 0
        BY <1>1, <1>2 DEF OnTheWay
    <2> QED
        BY <1>5, <2>1, FutureKept
<1>10. had = all => ByAll(tag)
    <2>1. Counted(tag)
        BY DEF Tally
    <2>2. rmsg[tag].expected \ rmsg[tag].remaining \in SUBSET rmsg[tag].expected
        OBVIOUS
    <2>3. had = all => rmsg[tag].expected \ rmsg[tag].remaining = rmsg[tag].expected
        BY <2>1, <2>2, FS_Subset DEF Counted
    <2> QED
        BY <1>1, <2>1, <2>3 DEF Counted, ByAll
<1>11. \A t \in Published : OnTheWay(t)' = 0
    BY <1>3 DEF OnTheWay
<1>12. n \in Nat
    BY DEF Futures
<1>13. /\ g.ackedCount <= f.totalCount
       /\ ~g.done => g.ackedCount + 0 <= had
       /\ g.done => /\ g.err = "OK" => ByAll(tag)
                    /\ g.err = "ErrDelivery" => Failed(tag)
    <2>1. CASE f.done
        BY <1>5, <1>6, <2>1, FutureKept
    <2>2. CASE ~f.done
        <3>1. g.ackedCount = n /\ n <= had
            BY <1>6, <1>9, <2>2
        <3>2. g.done => g.err = "OK" /\ had = all
            <4> HIDE DEF n, had, all
            <4> QED
                BY <1>6, <1>8, <1>12, <2>2, <3>1
        <3> HIDE DEF n, had, all
        <3> QED
            BY <1>8, <1>10, <1>12, <3>1, <3>2
    <2> QED
        BY <2>1, <2>2
<1>14. ASSUME NEW t \in Published
       PROVE  /\ future'[t].totalCount = future[t].totalCount
              /\ future'[t].ackedCount <= future[t].totalCount
              /\ ~future'[t].done =>
                    future'[t].ackedCount + OnTheWay(t)'
                        <= Cardinality(rmsg[t].expected \ rmsg[t].remaining)
              /\ future'[t].done =>
                    /\ future'[t].err = "OK" => ByAll(t)
                    /\ future'[t].err = "ErrDelivery" => Failed(t)
    <2>1. CASE t = tag
        BY <1>5, <1>6, <1>7, <1>11, <1>13, <2>1
    <2>2. CASE t # tag
        <3>1. OnTheWay(t) = 0
            BY <1>1, <2>2 DEF OnTheWay
        <3> QED
            BY <1>7, <1>11, <2>2, <3>1, FutureKept
    <2> QED
        BY <2>1, <2>2
<1>15. \A k \in tasks : k.run = "materialize" =>
            k.tag \in Published /\ k.at = rmsg[k.tag].deadline
    BY DEF Types, Verdicts
<1> QED
    BY <1>3, <1>7, <1>14, <1>15, FuturesOnly

LEMMA CompletionVerdict ==
    ASSUME VerdictInv, MaterializeComplete PROVE Tally' /\ Verdicts'
<1> USE DEF VerdictInv, Published
<1>1. PICK tag \in Published : timer.tag = tag
    BY DEF MaterializeComplete, InHand
<1>2. PICK err \in {"OK", "ErrDelivery"} : timer.err = err
    BY DEF MaterializeComplete, Verdicts, TimerAt
<1>3. (err = "OK" => ByAll(tag)) /\ (err = "ErrDelivery" => Failed(tag))
    BY <1>1, <1>2 DEF MaterializeComplete, Verdicts, TimerAt
<1>4. /\ UNCHANGED <<now, rmsg, confirmed, rx, pending, tasks>> /\ timer' = None
      /\ future' = [future EXCEPT ![tag] = Complete(@, err)]
    BY <1>1, <1>2 DEF MaterializeComplete
<1>5. future' \in [Published -> Futures]
    BY <1>4 DEF Types, Futures, Complete, Errors
<1>6. \A t \in Published :
        /\ future'[t].totalCount = future[t].totalCount
        /\ future'[t].ackedCount = future[t].ackedCount
        /\ ~future'[t].done => ~future[t].done
        /\ future'[t].done => \/ future[t].done /\ future'[t].err = future[t].err
                              \/ t = tag /\ future'[t].err = err
    BY <1>4 DEF Types, Futures, Complete
<1>7. \A t \in Published : OnTheWay(t)' = OnTheWay(t)
    BY <1>4 DEF OnTheWay
<1>8. ASSUME NEW t \in Published
      PROVE  /\ future'[t].ackedCount <= future[t].totalCount
             /\ ~future'[t].done =>
                    future'[t].ackedCount + OnTheWay(t)'
                        <= Cardinality(rmsg[t].expected \ rmsg[t].remaining)
             /\ future'[t].done =>
                    /\ future'[t].err = "OK" => ByAll(t)
                    /\ future'[t].err = "ErrDelivery" => Failed(t)
    BY <1>3, <1>6, <1>7, FutureKept
<1>9. \A k \in tasks : k.run = "materialize" =>
            k.tag \in Published /\ k.at = rmsg[k.tag].deadline
    BY DEF Types, Verdicts
<1> QED
    BY <1>4, <1>5, <1>6, <1>8, <1>9, FuturesOnly

\* ScheduleMaterialize, SentError and Destroy: the application's goroutine.
LEMMA ApplicationVerdict ==
    ASSUME VerdictInv, Types', ScheduleMaterialize \/ SentError \/ Destroy
    PROVE  Tally' /\ Verdicts'
<1> USE DEF VerdictInv, Published
<1>1. UNCHANGED <<now, rmsg, confirmed, rx, timer>> /\ pending' \subseteq pending
    BY DEF ScheduleMaterialize, SentError, Destroy
<1>2. future' \in [Published -> Futures]
    BY <1>1 DEF Types
<1>3. ASSUME NEW k \in tasks', k.run = "materialize"
      PROVE  k.tag \in Published /\ k.at = rmsg[k.tag].deadline
    <2>1. CASE k \in tasks
        BY <1>3, <2>1 DEF Types, Verdicts
    <2>2. CASE k \notin tasks
        BY <2>2 DEF ScheduleMaterialize, SentError, Destroy, InHand, AppAt
    <2> QED
        BY <2>1, <2>2
<1>4. ASSUME NEW t \in Published
      PROVE  /\ future'[t].totalCount = future[t].totalCount
             /\ future'[t].ackedCount = future[t].ackedCount
             /\ ~future'[t].done => ~future[t].done
             /\ future'[t].done => \/ future[t].done /\ future'[t].err = future[t].err
                                   \/ future'[t].err \in {"ErrMedia", "ErrNACK"}
    <2>1. future[t] \in Futures
        BY DEF Types
    <2>2. CASE ScheduleMaterialize
        BY <2>1, <2>2 DEF ScheduleMaterialize, Types, Futures
    <2>3. CASE SentError
        BY <2>1, <2>3 DEF SentError, Types, Futures
    <2>4. CASE Destroy
        BY <2>1, <2>4 DEF Destroy, Complete, Futures
    <2> QED
        BY <2>2, <2>3, <2>4
<1>5. \A t \in Published : OnTheWay(t)' = OnTheWay(t)
    BY <1>1 DEF OnTheWay
<1>6. ASSUME NEW t \in Published
      PROVE  /\ future'[t].ackedCount <= future[t].totalCount
             /\ ~future'[t].done =>
                    future'[t].ackedCount + OnTheWay(t)'
                        <= Cardinality(rmsg[t].expected \ rmsg[t].remaining)
             /\ future'[t].done =>
                    /\ future'[t].err = "OK" => ByAll(t)
                    /\ future'[t].err = "ErrDelivery" => Failed(t)
    BY <1>4, <1>5, FutureKept
<1> QED
    BY <1>1, <1>2, <1>3, <1>4, <1>6, FuturesOnly

LEMMA VerdictStep ==
    ASSUME VerdictInv, [Next]_vars PROVE VerdictInv'
<1>1. Types /\ InHand /\ Types' /\ InHand'
    BY TypesStep DEF VerdictInv
<1>2. now \in Nat
    BY <1>1, PublisherAssumption DEF Types
<1> SUFFICES Tally' /\ Verdicts'
    BY <1>1 DEF VerdictInv
<1>3. ASSUME UNCHANGED <<now, rmsg, future, confirmed, rx, pending, tasks, timer>>
      PROVE  Tally' /\ Verdicts'
    BY <1>2, <1>3, NothingJudged
<1>4. CASE SentOK
    BY <1>2, <1>4, NothingJudged DEF SentOK, ArmTimeout
<1>5. CASE ResentOK \/ ResentError
    BY <1>2, <1>5, NothingJudged DEF ResentOK, ResentError, ArmTimeout
<1>6. CASE Tick
    BY <1>2, <1>6, NothingJudged DEF Tick
<1>7. ASSUME NEW k \in tasks, TimeoutMoot(k) PROVE Tally' /\ Verdicts'
    BY <1>2, <1>7, NothingJudged DEF TimeoutMoot, First
<1>8. CASE PublishReliable
    BY <1>3, <1>8 DEF PublishReliable
<1>9. ASSUME NEW r, AddAssociation(r) PROVE Tally' /\ Verdicts'
    BY <1>3, <1>9 DEF AddAssociation
<1>10. ASSUME NEW gone, DropAssociations(gone) PROVE Tally' /\ Verdicts'
    BY <1>3, <1>10 DEF DropAssociations
<1>11. CASE UNCHANGED vars
    BY <1>3, <1>11 DEF vars
<1> QED
    BY <1>1, <1>4, <1>5, <1>6, <1>7, <1>8, <1>9, <1>10, <1>11, RegisterVerdict,
       HandleAckVerdict, MaterializeVerdict, HandleTimeoutVerdict, AckFutureVerdict,
       CompletionVerdict, ApplicationVerdict
    DEF Next, AppStep, TimerStep, RemoveAssociation, Cleanup

LEMMA VerdictInit == Init => VerdictInv
<1> SUFFICES ASSUME Init PROVE VerdictInv
    OBVIOUS
<1>1. Published = {} /\ tasks = {} /\ timer = None
    BY DEF Init, Published
<1>2. \A t \in Tags : confirmed[t] = {}
    BY DEF Init
<1> QED
    BY <1>1, <1>2, TypesInit DEF VerdictInv, Tally, Verdicts, TimerAt

LEMMA VerdictInvariant == Spec => []VerdictInv
<1>1. VerdictInv /\ [Next]_vars => VerdictInv'
    BY VerdictStep
<1> QED
    BY <1>1, VerdictInit, PTL DEF Spec

\* The verdict of a future is right: success means that every subscriber known at
\* the time of publication has acknowledged, ErrDelivery that the deadline has come
\* and somebody has not, in whatever order PublicationFuture.Ack, materialize,
\* Cancel and the retransmissions come.
THEOREM PublisherVerdict == Spec => []VerdictJustified
<1>1. ASSUME VerdictInv PROVE VerdictJustified
    <2> USE <1>1 DEF VerdictInv
    <2>1. ASSUME NEW t \in Published
          PROVE  /\ rmsg[t].remaining \subseteq rmsg[t].expected
                 /\ rmsg[t].expected \subseteq Remotes
                 /\ future[t].err \in Errors
                 /\ future[t].ackedCount \in 0..future[t].totalCount
        <3>1. Counted(t)
            BY DEF Tally
        <3>2. rmsg[t] \in RMsgs /\ future[t] \in Futures
            BY CountedTypes
        <3>3. rmsg[t].remaining \subseteq rmsg[t].expected
            BY <3>1 DEF Counted
        <3>4. rmsg[t].expected \subseteq Remotes
            BY <3>2 DEF RMsgs
        <3>5. future[t].err \in Errors /\ future[t].ackedCount \in Nat /\ future[t].totalCount \in Nat
            BY <3>2 DEF Futures
        <3> QED
            BY <3>1, <3>3, <3>4, <3>5 DEF Counted
    <2>2. TypeOK
        <3>1. Published \subseteq Tags /\ DOMAIN future = Published /\ pending \subseteq Published
            BY TagsOfUse DEF Types
        <3>2. now \in 0..MaxTime /\ destroyed \in BOOLEAN /\ msgSeqno \in 0..MaxMsgs
            BY DEF Types
        <3> QED
            BY <2>1, <3>1, <3>2 DEF TypeOK
    <2>3. ASSUME NEW t \in Tags
          PROVE  /\ Outcome(t) = "OK" => ByAll(t)
                 /\ Outcome(t) = "ErrDelivery" => now >= rmsg[t].deadline /\ ~ByAll(t)
        BY DEF Outcome, Verdicts, Failed
    <2> QED
        BY <2>2, <2>3 DEF VerdictJustified, ByAll
<1> QED
    BY <1>1, VerdictInvariant, PTL

-----------------------------------------------------------------------------
(* The error of a future that was returned.                                *)

LEMMA FinalStep ==
    ASSUME Types, InHand, [Next]_vars, NEW t \in Tags, Outcome(t) # "pending"
    PROVE  Outcome(t)' = Outcome(t)
<1> USE DEF Published
<1>1. t \in Published /\ future[t].returned /\ future[t].done /\ future[t] \in Futures
    BY DEF Outcome, Types
<1> SUFFICES t \in Published' /\ future'[t].returned /\ future'[t].done
             /\ future'[t].err = future[t].err
    BY <1>1 DEF Outcome
<1>2. ASSUME UNCHANGED <<rmsg, future>>
      PROVE  t \in Published' /\ future'[t].returned /\ future'[t].done
             /\ future'[t].err = future[t].err
    BY <1>1, <1>2
<1>3. CASE PublishReliable
    BY <1>2, <1>3 DEF PublishReliable
<1>4. CASE Register
    <2>1. app.tag \notin Published
        BY <1>4 DEF Register, InHand, AppAt
    <2> QED
        BY <1>1, <1>4, <2>1 DEF Register, Put, Types
<1>5. CASE SentOK
    BY <1>2, <1>5 DEF SentOK
<1>6. CASE ScheduleMaterialize
    BY <1>1, <1>6 DEF ScheduleMaterialize, Types, Futures
<1>7. CASE SentError
    <2>1. app.tag \in Published /\ ~future[app.tag].returned
        BY <1>7 DEF SentError, InHand, AppAt
    <2> QED
        BY <1>1, <1>7, <2>1 DEF SentError, Types
<1>8. CASE Destroy
    BY <1>1, <1>8 DEF Destroy, Complete
<1>9. ASSUME NEW r, AddAssociation(r)
      PROVE  UNCHANGED <<rmsg, future>>
    BY <1>9 DEF AddAssociation
<1>10. ASSUME NEW gone, DropAssociations(gone)
       PROVE  UNCHANGED <<rmsg, future>>
    BY <1>10 DEF DropAssociations
<1>11. ASSUME NEW k \in tasks, HandleTimeout(k)
       PROVE  t \in Published' /\ future'[t].returned /\ future'[t].done
              /\ future'[t].err = future[t].err
    BY <1>1, <1>11 DEF HandleTimeout, UpdateError, Types
<1>12. ASSUME NEW k \in tasks, TimeoutMoot(k) \/ Materialize(k)
       PROVE  UNCHANGED <<rmsg, future>>
    BY <1>12 DEF TimeoutMoot, Materialize
<1>13. CASE ResentOK \/ ResentError
    BY <1>2, <1>13 DEF ResentOK, ResentError
<1>14. CASE MaterializeComplete
    BY <1>1, <1>14 DEF MaterializeComplete, Complete, Types
<1>15. ASSUME NEW r \in Remotes, NEW tag \in Tags, HandleAck(r, tag)
       PROVE  t \in Published' /\ UNCHANGED future
    BY <1>1, <1>15 DEF HandleAck
<1>16. CASE AckFuture
    BY <1>1, <1>16 DEF AckFuture, Acknowledge, Types
<1>17. CASE Tick
    BY <1>2, <1>17 DEF Tick
<1>18. CASE UNCHANGED vars
    BY <1>2, <1>18 DEF vars
<1> QED
    BY <1>1, <1>2, <1>3, <1>4, <1>5, <1>6, <1>7, <1>8, <1>9, <1>10, <1>11, <1>12, <1>13,
       <1>14, <1>15, <1>16, <1>17, <1>18
    DEF Next, AppStep, TimerStep, RemoveAssociation, Cleanup

LEMMA TypesInvariant == Spec => [](Types /\ InHand)
<1>1. (Types /\ InHand) /\ [Next]_vars => (Types /\ InHand)'
    BY TypesStep
<1> QED
    BY <1>1, TypesInit, PTL DEF Spec

\* The first completion counts: once PublishReliable has returned a future that is
\* done, its error stays what it is, whichever of Ack, materialize and Cancel tries
\* to complete it again.
THEOREM PublisherErrorFinal == Spec => FinalErrorKept
<1>1. ASSUME Types /\ InHand, [Next]_vars
      PROVE  [\A t \in Tags : Outcome(t) # "pending" => Outcome(t)' = Outcome(t)]_vars
    BY <1>1, FinalStep
<1> QED
    BY <1>1, TypesInvariant, PTL DEF Spec, FinalErrorKept

-----------------------------------------------------------------------------
(* The doubling of the intervals.                                          *)

LEMMA WaitedTypes ==
    ASSUME Types, NEW t \in Published
    PROVE  /\ rmsg[t] \in RMsgs /\ now \in Nat
           /\ rmsg[t].sentAt \in Nat /\ rmsg[t].ackTimeout \in Nat
           /\ rmsg[t].deadline \in Nat /\ rmsg[t].retryCount \in Nat
           /\ 2 ^ rmsg[t].retryCount \in Nat /\ 2 ^ rmsg[t].retryCount >= 1
<1>1. rmsg[t] \in RMsgs /\ now \in Nat
    BY PublisherAssumption DEF Types
<1>2. /\ rmsg[t].sentAt \in Nat /\ rmsg[t].ackTimeout \in Nat
      /\ rmsg[t].deadline \in Nat /\ rmsg[t].retryCount \in Nat
    BY <1>1 DEF RMsgs
<1> QED
    BY <1>1, <1>2, PowersOfTwo

\* Steps that leave the messages alone and arm nothing.
LEMMA NothingSent ==
    ASSUME BackoffInv, Types', rmsg' = rmsg, now' >= now, Timeouts' \subseteq Timeouts,
           AppAt("sending")' => AppAt("sending") /\ app' = app,
           TimerAt("resending")' => TimerAt("resending") /\ timer' = timer
    PROVE  (\A t \in Published : Waited(t))' /\ OneTimeout' /\ ArmedLate'
<1> USE DEF BackoffInv, Published
<1>1. ASSUME NEW t \in Published PROVE Waited(t)'
    <2>1. now' \in Nat
        BY PublisherAssumption DEF Types
    <2> QED
        BY <2>1, WaitedTypes DEF Waited
<1>2. OneTimeout'
    BY DEF OneTimeout
<1>3. ArmedLate'
    BY DEF ArmedLate
<1> QED
    BY <1>1, <1>2, <1>3

\* SentOK and ResentOK: the timeout of a message is armed after its transmission.
LEMMA Armed ==
    ASSUME BackoffInv, NEW tag \in Published, UNCHANGED <<now, rmsg>>, ArmTimeout(tag),
           \A k \in Timeouts : k.tag # tag,
           AppAt("sending")' => AppAt("sending") /\ app' = app /\ app.tag # tag,
           TimerAt("resending")' => TimerAt("resending") /\ timer' = timer /\ timer.tag # tag
    PROVE  (\A t \in Published : Waited(t))' /\ OneTimeout' /\ ArmedLate'
<1> USE DEF BackoffInv, Published
<1>1. PICK at : /\ at = IF now + rmsg[tag].ackTimeout > rmsg[tag].deadline
                        THEN rmsg[tag].deadline ELSE now + rmsg[tag].ackTimeout
                /\ tasks' = tasks \cup {[at |-> at, run |-> "handleTimeout", tag |-> tag]}
    BY DEF ArmTimeout
<1>2. PICK new : new = [at |-> at, run |-> "handleTimeout", tag |-> tag]
    OBVIOUS
<1>3. Timeouts' = Timeouts \cup {new} /\ new.tag = tag /\ new.at = at
    BY <1>1, <1>2 DEF Timeouts
<1>4. \A t \in Published : Waited(t)'
    BY DEF Waited
<1>5. OneTimeout'
    BY <1>3 DEF OneTimeout
<1>6. at >= rmsg[tag].sentAt + rmsg[tag].ackTimeout \/ at >= rmsg[tag].deadline
    <2>1. rmsg[tag].sentAt <= now
        BY DEF Waited
    <2> QED
        BY <1>1, <2>1, WaitedTypes
<1>7. ArmedLate'
    BY <1>3, <1>6 DEF ArmedLate
<1> QED
    BY <1>4, <1>5, <1>7

LEMMA RegisterBackoff ==
    ASSUME BackoffInv, Register
    PROVE  (\A t \in Published : Waited(t))' /\ OneTimeout' /\ ArmedLate'
<1> USE DEF BackoffInv, Published
<1>1. PICK new \in Tags \ Published : new = app.tag
    BY DEF Register, InHand, AppAt
<1>2. /\ Published' = Published \cup {new} /\ UNCHANGED <<now, tasks, timer>>
      /\ \A t \in Published : t # new /\ rmsg'[t] = rmsg[t]
    BY <1>1 DEF Register, Put
<1>3. /\ rmsg'[new].sentAt = now /\ rmsg'[new].ackTimeout = AckTimeout
      /\ rmsg'[new].retryCount = 0 /\ rmsg'[new].deadline = app.deadline
    BY <1>1 DEF Register, Put
<1>4. app.deadline \in Nat /\ app.deadline - Patience <= now /\ now \in Nat
    BY PublisherAssumption DEF Register, InHand, AppAt, Types
<1>5. Waited(new)'
    <2>1. 2 ^ 0 = 1
        OBVIOUS
    <2> QED
        BY <1>2, <1>3, <1>4, <2>1, PublisherAssumption DEF Waited
<1>6. \A t \in Published : Waited(t)'
    BY <1>2 DEF Waited
<1>7. \A k \in Timeouts : k.tag \in Published
    BY DEF Types, Timeouts
<1>8. TimerAt("resending") => timer.tag \in Published
    BY DEF InHand, TimerAt
<1>9. app' # None => app'.tag = new
    BY <1>1 DEF Register
<1>10. Timeouts' = Timeouts /\ (TimerAt("resending")' <=> TimerAt("resending"))
    BY <1>2 DEF Timeouts, TimerAt
<1>11. OneTimeout'
    BY <1>1, <1>2, <1>7, <1>8, <1>9, <1>10 DEF OneTimeout, AppAt
<1>12. ArmedLate'
    BY <1>2, <1>7, <1>10 DEF ArmedLate
<1> QED
    BY <1>2, <1>5, <1>6, <1>11, <1>12

\* A timeout that is due before the deadline has waited for ackTimeout: the waits add
\* up to one interval less than the next one is long.
LEMMA HandleTimeoutBackoff ==
    ASSUME BackoffInv, NEW k \in tasks, HandleTimeout(k)
    PROVE  (\A t \in Published : Waited(t))' /\ OneTimeout' /\ ArmedLate'
<1> USE DEF BackoffInv, Published
<1>1. PICK tag \in Published : k.tag = tag
    BY DEF Types
<1>2. /\ k \in Timeouts /\ UNCHANGED <<now, app>> /\ DOMAIN rmsg' = Published
      /\ k.at <= now /\ now < rmsg[tag].deadline
      /\ Timeouts' = Timeouts \ {k}
    BY <1>1 DEF HandleTimeout, First, Timeouts
<1>3. rmsg[tag] \in RMsgs /\ rmsg[tag].sentAt \in Nat /\ rmsg[tag].ackTimeout \in Nat
      /\ rmsg[tag].deadline \in Nat /\ rmsg[tag].retryCount \in Nat /\ now \in Nat
    BY WaitedTypes
<1>4. /\ rmsg'[tag].sentAt = now /\ rmsg'[tag].ackTimeout = 2 * rmsg[tag].ackTimeout
      /\ rmsg'[tag].retryCount = rmsg[tag].retryCount + 1
      /\ rmsg'[tag].deadline = rmsg[tag].deadline
    BY <1>1, <1>3 DEF HandleTimeout, RMsgs
<1>5. \A t \in Published : t # tag => rmsg'[t] = rmsg[t]
    BY <1>1 DEF HandleTimeout
<1>6. k.at \in Nat
    BY DEF Types, Tasks
<1>7. now >= rmsg[tag].sentAt + rmsg[tag].ackTimeout
    BY <1>1, <1>2, <1>3, <1>6 DEF ArmedLate
<1>8. PICK n \in Nat : n = rmsg[tag].retryCount
    BY <1>3
<1>9. PICK p \in Nat : p = 2 ^ n /\ p >= 1 /\ 2 ^ (n + 1) = 2 * p
    BY PowersOfTwo
<1>10. PICK step \in Nat : step = p * AckTimeout
    BY PublisherAssumption
<1>11. /\ 2 * p * AckTimeout = 2 * step
       /\ (p - 1) * AckTimeout = step - AckTimeout
       /\ (2 * p - 1) * AckTimeout = 2 * step - AckTimeout
    BY <1>10, PublisherAssumption
<1>12. /\ rmsg[tag].ackTimeout = step
       /\ rmsg[tag].sentAt - (rmsg[tag].deadline - Patience) >= step - AckTimeout
    BY <1>8, <1>9, <1>10, <1>11 DEF Waited
<1>13. now - (rmsg[tag].deadline - Patience) >= 2 * step - AckTimeout
    BY <1>3, <1>7, <1>12, PublisherAssumption
<1>14. Waited(tag)'
    BY <1>2, <1>3, <1>4, <1>8, <1>9, <1>11, <1>12, <1>13 DEF Waited
<1>15. \A t \in Published : t # tag => Waited(t)'
    BY <1>2, <1>5 DEF Waited
<1>16. \A j \in Timeouts' : j \in Timeouts /\ j.tag # tag
    BY <1>1, <1>2 DEF OneTimeout
<1>17. AppAt("sending")' => AppAt("sending") /\ app.tag # tag /\ app' = app
    BY <1>1, <1>2 DEF OneTimeout, AppAt
<1>18. timer' # None => timer'.tag = tag
    BY <1>1 DEF HandleTimeout
<1>19. OneTimeout'
    BY <1>16, <1>17, <1>18 DEF OneTimeout, TimerAt
<1>20. ArmedLate'
    BY <1>5, <1>16 DEF ArmedLate, Types, Timeouts
<1> QED
    BY <1>2, <1>14, <1>15, <1>19, <1>20

LEMMA HandleAckBackoff ==
    ASSUME BackoffInv, NEW r \in Remotes, NEW tag \in Tags, HandleAck(r, tag)
    PROVE  (\A t \in Published : Waited(t))' /\ OneTimeout' /\ ArmedLate'
<1> USE DEF BackoffInv, Published
<1>1. UNCHANGED <<now, tasks, app, timer>> /\ DOMAIN rmsg' = Published
    BY DEF HandleAck
<1>2. \A t \in Published :
        /\ rmsg'[t].sentAt = rmsg[t].sentAt /\ rmsg'[t].ackTimeout = rmsg[t].ackTimeout
        /\ rmsg'[t].deadline = rmsg[t].deadline /\ rmsg'[t].retryCount = rmsg[t].retryCount
    BY DEF HandleAck, Types, RMsgs
<1>3. Timeouts' = Timeouts
    BY <1>1 DEF Timeouts
<1>4. \A k \in Timeouts : k.tag \in Published
    BY DEF Timeouts, Types
<1>5. OneTimeout'
    BY <1>1, <1>3 DEF OneTimeout, AppAt, TimerAt
<1> QED
    BY <1>1, <1>2, <1>3, <1>4, <1>5 DEF Waited, ArmedLate

LEMMA BackoffStep ==
    ASSUME BackoffInv, [Next]_vars PROVE BackoffInv'
<1>1. Types /\ InHand /\ Types' /\ InHand'
    BY TypesStep DEF BackoffInv
<1>2. now \in Nat
    BY <1>1, PublisherAssumption DEF Types
<1> SUFFICES (\A t \in Published : Waited(t))' /\ OneTimeout' /\ ArmedLate'
    BY <1>1 DEF BackoffInv
<1> USE DEF AppAt, TimerAt, Timeouts
<1>3. ASSUME UNCHANGED <<now, rmsg, tasks, app, timer>>
      PROVE  (\A t \in Published : Waited(t))' /\ OneTimeout' /\ ArmedLate'
    BY <1>1, <1>2, <1>3, NothingSent
<1>4. CASE PublishReliable
    BY <1>1, <1>2, <1>4, NothingSent DEF PublishReliable
<1>5. CASE SentOK
    <2>1. PICK tag \in Published : tag = app.tag
        BY <1>1, <1>5 DEF SentOK, InHand
    <2>2. ArmTimeout(tag) /\ UNCHANGED <<now, rmsg, timer>>
        BY <1>5, <2>1 DEF SentOK
    <2>3. /\ \A k \in Timeouts : k.tag # tag
          /\ TimerAt("resending") => timer.tag # tag
        BY <1>5, <2>1 DEF SentOK, BackoffInv, OneTimeout
    <2>4. ~AppAt("sending")'
        BY <1>5 DEF SentOK
    <2> QED
        BY <2>2, <2>3, <2>4, Armed
<1>6. CASE ScheduleMaterialize
    BY <1>1, <1>2, <1>6, NothingSent DEF ScheduleMaterialize
<1>7. CASE SentError
    BY <1>1, <1>2, <1>7, NothingSent DEF SentError
<1>8. CASE Destroy
    BY <1>3, <1>8 DEF Destroy
<1>9. ASSUME NEW r, AddAssociation(r)
      PROVE  UNCHANGED <<now, rmsg, tasks, app, timer>>
    BY <1>9 DEF AddAssociation
<1>10. ASSUME NEW gone, DropAssociations(gone)
       PROVE  UNCHANGED <<now, rmsg, tasks, app, timer>>
    BY <1>10 DEF DropAssociations
<1>11. ASSUME NEW k \in tasks, TimeoutMoot(k) \/ Materialize(k)
       PROVE  (\A t \in Published : Waited(t))' /\ OneTimeout' /\ ArmedLate'
    <2>1. UNCHANGED <<now, rmsg, app>> /\ tasks' \subseteq tasks
        BY <1>11 DEF TimeoutMoot, Materialize, First
    <2>2. TimerAt("resending")' => TimerAt("resending") /\ timer' = timer
        BY <1>11 DEF TimeoutMoot, Materialize, First
    <2> QED
        BY <1>1, <1>2, <2>1, <2>2, NothingSent
<1>12. CASE ResentOK
    <2>1. PICK tag \in Published : tag = timer.tag
        BY <1>1, <1>12 DEF ResentOK, InHand
    <2>2. ArmTimeout(tag) /\ UNCHANGED <<now, rmsg, app>> /\ timer' = None
        BY <1>12, <2>1 DEF ResentOK
    <2>3. /\ \A k \in Timeouts : k.tag # tag
          /\ AppAt("sending") => app.tag # tag
        BY <1>12, <2>1 DEF ResentOK, BackoffInv, OneTimeout
    <2> QED
        BY <2>2, <2>3, Armed
<1>13. CASE ResentError
    BY <1>1, <1>2, <1>13, NothingSent DEF ResentError
<1>14. CASE MaterializeComplete
    BY <1>1, <1>2, <1>14, NothingSent DEF MaterializeComplete
<1>15. CASE AckFuture
    BY <1>3, <1>15 DEF AckFuture
<1>16. CASE Tick
    BY <1>1, <1>2, <1>16, NothingSent DEF Tick
<1>17. CASE UNCHANGED vars
    BY <1>3, <1>17 DEF vars
<1> HIDE DEF AppAt, TimerAt, Timeouts
<1> QED
    BY <1>3, <1>4, <1>5, <1>6, <1>7, <1>8, <1>9, <1>10, <1>11, <1>12, <1>13, <1>14,
       <1>15, <1>16, <1>17, RegisterBackoff, HandleTimeoutBackoff, HandleAckBackoff
    DEF Next, AppStep, TimerStep, RemoveAssociation, Cleanup

\* The doubling backoff of handleTimeout: before its n-th retransmission a message has
\* waited at least (2^n - 1) times the first interval since it was published.
THEOREM PublisherBackoff == Spec => []BackoffDoubles
<1>1. Init => BackoffInv
    <2> SUFFICES ASSUME Init PROVE BackoffInv
        OBVIOUS
    <2>1. Published = {} /\ Timeouts = {} /\ app = None
        BY DEF Init, Published, Timeouts
    <2> QED
        BY <2>1, TypesInit DEF BackoffInv, OneTimeout, ArmedLate, AppAt
<1>2. BackoffInv /\ [Next]_vars => BackoffInv'
    BY BackoffStep
<1>3. BackoffInv => BackoffDoubles
    BY DEF BackoffInv, Waited, BackoffDoubles
<1> QED
    BY <1>1, <1>2, <1>3, PTL DEF Spec

=============================================================================
