------------------------- MODULE ReliablePublisher --------------------------
(***************************************************************************)
(* Reliable publication on one topic: ReliableDelivery of cy/reliable.go,  *)
(* the Publisher that owns it and the PublicationFuture it returns.        *)
(*                                                                         *)
(* Three goroutines of the node meet here: the application's, which        *)
(* publishes and destroys (app); the one that spins the scheduler and runs *)
(* timeouts and materializations (timer); and the platform's receive loop, *)
(* which brings acknowledgements (rx).  rd.mu is released while a message  *)
(* is being sent and before a future is touched: an action is one critical *)
(* section, and what a goroutine carries over to its next one is in app,   *)
(* timer or rx.  Tags are counted from the publisher's baseline.           *)
(*                                                                         *)
(* The scheduler is used as module TimerQueue describes it.  The network   *)
(* may lose, delay and repeat: a remote that a transfer has reached may    *)
(* acknowledge it at any later time, any number of times, or never.        *)
(***************************************************************************)
EXTENDS Integers, FiniteSets

CONSTANTS
    Remotes,        \* the nodes that may subscribe
    AckTimeout,     \* Publisher.ackTimeout, the first retransmission interval
    Patience,       \* the deadline of a message, counted from its publication
    SessionLifetime,
    MaxMsgs,        \* bound: messages published
    MaxChanges,     \* bound: associations added and removed
    MaxTime,        \* bound: the clock
    None

ASSUME PublisherAssumption ==
    /\ AckTimeout \in Nat \ {0} /\ Patience \in Nat
    /\ SessionLifetime \in Nat
    /\ MaxMsgs \in Nat /\ MaxChanges \in Nat /\ MaxTime \in Nat

VARIABLES
    now,
    destroyed,      \* Publisher.destroyed
    msgSeqno,       \* Publisher.msgSeqno
    associations,   \* lastActivity of every association
    rmsg,           \* the reliableMessage of every tag
    pending,        \* the tags in ReliableDelivery.pending
    future,         \* the PublicationFuture of every tag
    tasks,          \* the scheduler: [at, run, tag]
    app, timer, rx, \* what a goroutine has in hand between two critical sections
    reached,        \* per tag: the remotes a transfer of it has reached
    confirmed,      \* history, per tag: the remotes whose ACK was accepted
    changes

vars == <<now, destroyed, msgSeqno, associations, rmsg, pending, future, tasks,
          app, timer, rx, reached, confirmed, changes>>

Tags == 1..MaxMsgs
Published == DOMAIN rmsg
-----------------------------------------------------------------------------
Put(f, x, v) == [y \in DOMAIN f \cup {x} |-> IF y = x THEN v ELSE f[y]]

\* Mutant: the last completion counts.
CompleteAgain(f, err) == [f EXCEPT !.done = TRUE, !.err = err]

\* futureBase.complete: the first completion counts.
Complete(f, err) == IF f.done THEN f ELSE [f EXCEPT !.done = TRUE, !.err = err]

\* futureBase.updateError
UpdateError(f, err) == IF f.done THEN f ELSE [f EXCEPT !.err = err]

\* Mutant: the future is complete as soon as anybody has acknowledged.
AcknowledgeFirst(f, known) == Complete(f, "OK")

\* PublicationFuture.Ack for a known association, Acknowledge for a stranger.
Acknowledge(f, known) ==
    LET n == f.ackedCount + (IF known THEN 1 ELSE 0)
        g == [f EXCEPT !.ackedCount = n]
    IN  IF f.done THEN f
        ELSE IF n >= f.totalCount THEN Complete(g, "OK") ELSE g

\* armTimeout: after ackTimeout, but not beyond the deadline.
ArmTimeout(tag) ==
    LET at == IF now + rmsg[tag].ackTimeout > rmsg[tag].deadline
              THEN rmsg[tag].deadline ELSE now + rmsg[tag].ackTimeout
    IN  tasks' = tasks \cup {[at |-> at, run |-> "handleTimeout", tag |-> tag]}

\* send: the multicast reaches every subscriber.  With one remote remaining the
\* message is unicast instead, and handleUnicastMessage of a node with this
\* library passes over it: it reaches nobody.
Transmit(tag, multicast) ==
    reached' = [reached EXCEPT ![tag] = IF multicast THEN Remotes ELSE @]

Multicast(m) == Cardinality(m.remaining) # 1
-----------------------------------------------------------------------------
(***************************************************************************)
(* The application's goroutine.                                            *)
(***************************************************************************)
\* PublishReliable and buildWire: the tag is taken under the publisher's lock.
PublishReliable ==
    /\ app = None
    /\ ~destroyed
    /\ msgSeqno < MaxMsgs /\ now + Patience <= MaxTime
    /\ msgSeqno' = msgSeqno + 1
    /\ app' = [at |-> "built", tag |-> msgSeqno + 1, deadline |-> now + Patience]
    /\ UNCHANGED <<now, destroyed, associations, rmsg, pending, future, tasks,
                   timer, rx, reached, confirmed, changes>>

\* ReliableDelivery.Publish up to the send: the associations of this moment
\* are the ones that must acknowledge.
Register ==
    /\ app # None /\ app.at = "built"
    /\ LET m == [deadline |-> app.deadline, ackTimeout |-> AckTimeout,
                 sentAt |-> now, retryCount |-> 0, expected |-> DOMAIN associations,
                 remaining |-> DOMAIN associations, acknowledged |-> FALSE]
       IN  /\ rmsg' = Put(rmsg, app.tag, m)
           /\ app' = [at |-> "sending", tag |-> app.tag, multicast |-> Multicast(m)]
    /\ pending' = pending \cup {app.tag}
    /\ future' = Put(future, app.tag,
                     [done |-> FALSE, err |-> "OK", ackedCount |-> 0, returned |-> FALSE,
                      totalCount |-> Cardinality(DOMAIN associations)])
    /\ UNCHANGED <<now, destroyed, msgSeqno, associations, tasks, timer, rx,
                   reached, confirmed, changes>>

\* The platform took the message: the timeout is armed ...
SentOK ==
    /\ app # None /\ app.at = "sending"
    /\ Transmit(app.tag, app.multicast)
    /\ ArmTimeout(app.tag)
    /\ app' = [at |-> "sent", tag |-> app.tag]
    /\ UNCHANGED <<now, destroyed, msgSeqno, associations, rmsg, pending, future,
                   timer, rx, confirmed, changes>>

\* ... and, after rd.mu is released, the materialization.
ScheduleMaterialize ==
    /\ app # None /\ app.at = "sent"
    /\ tasks' = tasks \cup {[at |-> rmsg[app.tag].deadline, run |-> "materialize",
                             tag |-> app.tag]}
    /\ future' = [future EXCEPT ![app.tag].returned = TRUE]
    /\ app' = None
    /\ UNCHANGED <<now, destroyed, msgSeqno, associations, rmsg, pending, timer,
                   rx, reached, confirmed, changes>>

\* The platform refused it: the application gets another future, a failed one.
SentError ==
    /\ app # None /\ app.at = "sending"
    /\ pending' = pending \ {app.tag}
    /\ future' = [future EXCEPT ![app.tag] =
                    [@ EXCEPT !.done = TRUE, !.err = "ErrMedia", !.returned = TRUE]]
    /\ app' = None
    /\ UNCHANGED <<now, destroyed, msgSeqno, associations, rmsg, tasks, timer, rx,
                   reached, confirmed, changes>>

\* Publisher.Destroy and ReliableDelivery.Cancel, from any goroutine.
Destroy ==
    /\ ~destroyed
    /\ destroyed' = TRUE
    /\ future' = [t \in Published |->
                    IF t \in pending THEN Complete(future[t], "ErrNACK") ELSE future[t]]
    /\ pending' = {}
    /\ associations' = [r \in {} |-> 0]
    /\ UNCHANGED <<now, msgSeqno, rmsg, tasks, app, timer, rx, reached, confirmed, changes>>

AddAssociation(r) ==
    /\ changes < MaxChanges
    /\ r \notin DOMAIN associations
    /\ associations' = Put(associations, r, now)
    /\ changes' = changes + 1
    /\ UNCHANGED <<now, destroyed, msgSeqno, rmsg, pending, future, tasks, app,
                   timer, rx, reached, confirmed>>

DropAssociations(gone) ==
    /\ gone # {}
    /\ associations' = [s \in DOMAIN associations \ gone |-> associations[s]]
    /\ UNCHANGED <<now, destroyed, msgSeqno, rmsg, pending, future, tasks, app,
                   timer, rx, reached, confirmed>>

RemoveAssociation(r) ==
    /\ changes < MaxChanges
    /\ DropAssociations({r} \cap DOMAIN associations)
    /\ changes' = changes + 1

Cleanup ==
    /\ DropAssociations({r \in DOMAIN associations :
                            now - associations[r] > SessionLifetime})
    /\ UNCHANGED changes
-----------------------------------------------------------------------------
(***************************************************************************)
(* The goroutine that spins the scheduler: the earliest task, once due.    *)
(***************************************************************************)
First(k) ==
    /\ timer = None
    /\ k.at <= now
    /\ \A other \in tasks : k.at <= other.at
    /\ tasks' = tasks \ {k}

\* Mutant: the interval stays as it is.
HandleTimeoutSteady(k) ==
    /\ k.run = "handleTimeout" /\ k.tag \in pending
    /\ now < rmsg[k.tag].deadline
    /\ First(k)
    /\ rmsg' = [rmsg EXCEPT ![k.tag].sentAt = now, ![k.tag].retryCount = @ + 1]
    /\ future' = [future EXCEPT ![k.tag] = UpdateError(@, "ErrLag")]
    /\ timer' = [at |-> "resending", tag |-> k.tag, multicast |-> Multicast(rmsg[k.tag])]
    /\ UNCHANGED <<now, destroyed, msgSeqno, associations, pending, app, rx,
                   reached, confirmed, changes>>

\* handleTimeout up to the send.
HandleTimeout(k) ==
    /\ k.run = "handleTimeout" /\ k.tag \in pending
    /\ now < rmsg[k.tag].deadline
    /\ First(k)
    /\ rmsg' = [rmsg EXCEPT ![k.tag].ackTimeout = 2 * @, ![k.tag].sentAt = now,
                            ![k.tag].retryCount = @ + 1]
    /\ future' = [future EXCEPT ![k.tag] = UpdateError(@, "ErrLag")]
    /\ timer' = [at |-> "resending", tag |-> k.tag, multicast |-> Multicast(rmsg[k.tag])]
    /\ UNCHANGED <<now, destroyed, msgSeqno, associations, pending, app, rx,
                   reached, confirmed, changes>>

\* The message is no longer pending, or its deadline has come.
TimeoutMoot(k) ==
    /\ k.run = "handleTimeout"
    /\ k.tag \in pending => now >= rmsg[k.tag].deadline
    /\ First(k)
    /\ UNCHANGED <<now, destroyed, msgSeqno, associations, rmsg, pending, future,
                   app, timer, rx, reached, confirmed, changes>>

ResentOK ==
    /\ timer # None /\ timer.at = "resending"
    /\ Transmit(timer.tag, timer.multicast)
    /\ ArmTimeout(timer.tag)
    /\ timer' = None
    /\ UNCHANGED <<now, destroyed, msgSeqno, associations, rmsg, pending, future,
                   app, rx, confirmed, changes>>

\* Mutant: a refused retransmission takes the message out.
ResentErrorDropping ==
    /\ timer # None /\ timer.at = "resending"
    /\ timer' = None
    /\ pending' = pending \ {timer.tag}
    /\ UNCHANGED <<now, destroyed, msgSeqno, associations, rmsg, future,
                   tasks, app, rx, reached, confirmed, changes>>

\* A refused retransmission is the last one.
ResentError ==
    /\ timer # None /\ timer.at = "resending"
    /\ timer' = None
    /\ UNCHANGED <<now, destroyed, msgSeqno, associations, rmsg, pending, future,
                   tasks, app, rx, reached, confirmed, changes>>

\* materialize: the message is taken out and judged under rd.mu, ...
Materialize(k) ==
    /\ k.run = "materialize" /\ First(k)
    /\ pending' = pending \ {k.tag}
    /\ timer' = IF k.tag \notin pending THEN None
                ELSE [at |-> "completing", tag |-> k.tag,
                      err |-> IF rmsg[k.tag].acknowledged /\ rmsg[k.tag].remaining = {}
                              THEN "OK" ELSE "ErrDelivery"]
    /\ UNCHANGED <<now, destroyed, msgSeqno, associations, rmsg, future, app, rx,
                   reached, confirmed, changes>>

\* ... and its future completed after that.
MaterializeComplete ==
    /\ timer # None /\ timer.at = "completing"
    /\ future' = [future EXCEPT ![timer.tag] = Complete(@, timer.err)]
    /\ timer' = None
    /\ UNCHANGED <<now, destroyed, msgSeqno, associations, rmsg, pending, tasks,
                   app, rx, reached, confirmed, changes>>
-----------------------------------------------------------------------------
(***************************************************************************)
(* The receive loop: handleACKMessage and HandleAck.  An acknowledgement   *)
(* of a message that is not pending is ignored.                            *)
(***************************************************************************)
HandleAck(r, tag) ==
    /\ rx = None
    /\ tag \in pending /\ r \in reached[tag]
    /\ rmsg' = [rmsg EXCEPT ![tag].acknowledged = TRUE, ![tag].remaining = @ \ {r}]
    /\ confirmed' = [confirmed EXCEPT ![tag] = @ \cup {r}]
    /\ rx' = [tag |-> tag, known |-> r \in rmsg[tag].remaining]
    /\ UNCHANGED <<now, destroyed, msgSeqno, associations, pending, future, tasks,
                   app, timer, reached, changes>>

AckFuture ==
    /\ rx # None
    /\ future' = [future EXCEPT ![rx.tag] = Acknowledge(@, rx.known)]
    /\ rx' = None
    /\ UNCHANGED <<now, destroyed, msgSeqno, associations, rmsg, pending, tasks,
                   app, timer, reached, confirmed, changes>>

Tick ==
    /\ now < MaxTime
    /\ now' = now + 1
    /\ UNCHANGED <<destroyed, msgSeqno, associations, rmsg, pending, future, tasks,
                   app, timer, rx, reached, confirmed, changes>>
-----------------------------------------------------------------------------
Init ==
    /\ now = 0 /\ destroyed = FALSE /\ msgSeqno = 0
    /\ associations = [r \in {} |-> 0]
    /\ rmsg = [t \in {} |-> None] /\ pending = {} /\ future = [t \in {} |-> None]
    /\ tasks = {}
    /\ app = None /\ timer = None /\ rx = None
    /\ reached = [t \in Tags |-> {}] /\ confirmed = [t \in Tags |-> {}]
    /\ changes = 0

AppStep == Register \/ SentOK \/ ScheduleMaterialize \/ SentError

TimerStep ==
    \/ \E k \in tasks : HandleTimeout(k) \/ TimeoutMoot(k) \/ Materialize(k)
    \/ ResentOK \/ ResentError \/ MaterializeComplete

Next ==
    \/ PublishReliable \/ AppStep \/ Destroy
    \/ \E r \in Remotes : AddAssociation(r) \/ RemoveAssociation(r)
    \/ Cleanup
    \/ TimerStep
    \/ \E r \in Remotes, tag \in Tags : HandleAck(r, tag)
    \/ AckFuture
    \/ Tick

Spec == Init /\ [][Next]_vars

\* Sends return, the scheduler is spun again and again and time passes;
\* nothing is assumed of the remotes, nor that any send succeeds.
FairSpec ==
    /\ Spec
    /\ WF_vars(AppStep) /\ WF_vars(TimerStep) /\ WF_vars(AckFuture) /\ WF_vars(Tick)
-----------------------------------------------------------------------------
Errors == {"OK", "ErrLag", "ErrMedia", "ErrNACK", "ErrDelivery"}

TypeOK ==
    /\ now \in 0..MaxTime /\ destroyed \in BOOLEAN /\ msgSeqno \in 0..MaxMsgs
    /\ Published \subseteq Tags /\ DOMAIN future = Published /\ pending \subseteq Published
    /\ \A t \in Published :
        /\ rmsg[t].remaining \subseteq rmsg[t].expected /\ rmsg[t].expected \subseteq Remotes
        /\ future[t].err \in Errors /\ future[t].ackedCount \in 0..future[t].totalCount

Outcome(t) == IF t \in Published /\ future[t].returned /\ future[t].done
              THEN future[t].err ELSE "pending"

\* The verdict is right.  "Completion (OK) happens once the publication is
\* acknowledged and every known association has ACKed": success is never reported
\* for a message that a subscriber known at the time of publication has not
\* acknowledged.  ErrDelivery is reported at the deadline only, and never if all
\* those acknowledgements had been accepted by then, even if the last of them has
\* not got as far as the future.  All this in whichever order acknowledgements,
\* timeouts, materialization and Destroy come, and however associations change.
VerdictJustified ==
    /\ TypeOK
    /\ \A t \in Tags :
        LET confirmedByAll == confirmed[t] # {} /\ rmsg[t].expected \subseteq confirmed[t]
        IN  /\ Outcome(t) = "OK" => confirmedByAll
            /\ Outcome(t) = "ErrDelivery" => now >= rmsg[t].deadline /\ ~confirmedByAll

\* The doubling backoff: before its n-th retransmission a message has waited
\* at least (2^n - 1) times the first interval since it was published.
BackoffDoubles ==
    \A t \in Published :
        rmsg[t].sentAt - (rmsg[t].deadline - Patience)
            >= (2 ^ rmsg[t].retryCount - 1) * AckTimeout

\* A future that was returned keeps its final error: acknowledgements,
\* materialization and Destroy race to complete it and one of them wins.
FinalErrorKept ==
    [][\A t \in Tags : Outcome(t) # "pending" => Outcome(t)' = Outcome(t)]_vars

\* Every reliable publication comes to an end, also one whose sends fail, whose
\* subscribers are silent, or that was registered after Destroy had cancelled
\* all others.
PublicationEnds ==
    \A t \in Tags : (t \in Published) ~> (Outcome(t) # "pending")
=============================================================================
