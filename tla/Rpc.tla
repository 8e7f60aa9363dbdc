--------------------------------- MODULE Rpc ---------------------------------
(***************************************************************************)
(* Requests and their responses: cy/rpc.go, the RequestFuture and the      *)
(* RespondFuture of cy/future.go and the response branches of cy/cy.go.    *)
(*                                                                         *)
(* One node makes requests; responders on other nodes answer each with a   *)
(* stream of responses, best-effort or reliable.  A reliable response is   *)
(* retransmitted until the requester acknowledges it; the requester keeps  *)
(* a record of what it acknowledged, per remote, with the future and, for  *)
(* some time, after the future is destroyed.                               *)
(*                                                                         *)
(* The network loses, delays, reorders and repeats; repeats of best-effort *)
(* transfers are dropped by the transport.  The requester's goroutines are *)
(* the receive loop, the application's and the one that spins the          *)
(* scheduler; an action is a critical section of rpc.mu.  A liveness task  *)
(* is dequeued (due) before its callback gets the mutex.  Time is left     *)
(* out: a timer that is set may expire at any later moment.                *)
(***************************************************************************)
EXTENDS Integers, FiniteSets, Functions

CONSTANTS
    Responders,
    History,        \* requestFutureHistory, 192 in the code
    MaxRequests,    \* bound: requests
    MaxResponses,   \* bound: responses sent
    MaxSeqno,       \* bound, per responder: their numbers
    MaxLosses,      \* bound: transfers lost
    None

ASSUME RpcAssumption ==
    /\ History \in Nat \ {0}
    /\ MaxRequests \in Nat /\ MaxResponses \in Nat /\ MaxLosses \in Nat
    /\ MaxSeqno \in [Responders -> Nat]
    /\ None \notin Responders

VARIABLES
    nextRequestTag,
    request,        \* the RequestFuture of every tag
    requests,       \* RPC.requests: the tags of the futures in the index
    requestAcks,    \* RPC.requestAcks: the records handed off by Destroy
    lapsed,         \* the tags whose record has passed its deadAt
    tasks,          \* liveness tasks in the scheduler: [id, tag]
    due,            \* a liveness task taken out, its callback not begun
    respond,        \* what became of every response
    net,            \* responses and response ACKs and NACKs on their way
    losses,
    delivered       \* history: how often each response reached the application

reqVars == <<nextRequestTag, request, requests, requestAcks, lapsed, tasks, due, delivered>>
vars == <<reqVars, respond, net, losses>>

Tags == 0..(MaxRequests - 1)
Responses == UNION {[from : {r}, tag : Tags, seqno : 0..MaxSeqno[r]] : r \in Responders}
Put(f, x, v) == [y \in DOMAIN f \cup {x} |-> IF y = x THEN v ELSE f[y]]
Drop(f, S) == [y \in DOMAIN f \ S |-> f[y]]
-----------------------------------------------------------------------------
(***************************************************************************)
(* requestAck: solo while one remote has acknowledged seqno 0 and nothing  *)
(* else; then a window per remote, in which bit i stands for top - i.      *)
(***************************************************************************)
NoAck == [solo |-> None, tree |-> [r \in {} |-> None]]

Window(top, acked) == [top |-> top, acked |-> acked]

\* bitmapShiftLeft
ShiftLeft(acked, n) == {b + n : b \in acked} \cap 0..(History - 1)

\* Mutant: the remote of a solo record is not compared.
TestAnyone(a, r, seqno) ==
    IF a.solo # None THEN seqno = 0
    ELSE /\ r \in DOMAIN a.tree
         /\ seqno <= a.tree[r].top
         /\ (a.tree[r].top - seqno) \in a.tree[r].acked

\* test
Test(a, r, seqno) ==
    IF a.solo # None THEN a.solo = r /\ seqno = 0
    ELSE /\ r \in DOMAIN a.tree
         /\ seqno <= a.tree[r].top
         /\ (a.tree[r].top - seqno) \in a.tree[r].acked

Promote(a) ==
    IF a.solo = None THEN a
    ELSE [solo |-> None, tree |-> Put(a.tree, a.solo, Window(0, {0}))]

\* The generic path of admit.
AdmitWindow(a, r, seqno) ==
    LET w == IF r \in DOMAIN a.tree THEN a.tree[r] ELSE Window(0, {})
        ahead == seqno - w.top
        Set(v) == [a EXCEPT !.tree = Put(a.tree, r, v)]
    IN  IF ahead > 0
        THEN [ack |-> Set(Window(seqno, ShiftLeft(w.acked, ahead) \cup {0})),
              fresh |-> TRUE, positive |-> TRUE]
        ELSE IF -ahead >= History
        THEN [ack |-> Set(w), fresh |-> FALSE, positive |-> FALSE]
        ELSE [ack |-> Set(Window(w.top, w.acked \cup {-ahead})),
              fresh |-> -ahead \notin w.acked, positive |-> TRUE]

\* admit: the new record, whether the response is new, and the verdict.
Admit(a, r, seqno) ==
    IF a.solo = r /\ seqno = 0
    THEN [ack |-> a, fresh |-> FALSE, positive |-> TRUE]
    ELSE IF a = NoAck /\ seqno = 0
    THEN [ack |-> [a EXCEPT !.solo = r], fresh |-> TRUE, positive |-> TRUE]
    ELSE AdmitWindow(Promote(a), r, seqno)
-----------------------------------------------------------------------------
(***************************************************************************)
(* The requester.                                                          *)
(***************************************************************************)
\* Request.  The task of the initial deadline is not kept in livenessTask.
Request ==
    LET tag == nextRequestTag
    IN  /\ tag < MaxRequests
        /\ nextRequestTag' = tag + 1
        /\ request' = Put(request, tag,
                [stored |-> FALSE, err |-> "OK", expired |-> FALSE, task |-> None,
                 arms |-> 0, ack |-> NoAck, cancelled |-> FALSE,
                 destroyed |-> FALSE])
        /\ requests' = requests \cup {tag}
        /\ tasks' = tasks \cup {[id |-> 0, tag |-> tag]}
        /\ UNCHANGED <<lapsed, requestAcks, due, respond, net, losses, delivered>>

\* deliverResponse and rearmLiveness, for a future f.
Stored(f) ==
    [f EXCEPT !.stored = TRUE, !.err = "OK", !.expired = FALSE,
              !.arms = @ + 1, !.task = f.arms + 1]

Rearm(tag) ==
    LET f == request[tag]
    IN  tasks' = {k \in tasks : k.tag # tag \/ k.id # f.task}
                    \cup {[id |-> f.arms + 1, tag |-> tag]}

\* Mutant: the records that are still wanted are dropped.
SweepLive(acks) == Drop(acks, DOMAIN acks \ lapsed)

\* sweepRequestAcks
Sweep(acks) == Drop(acks, lapsed)

\* What travels: a response, and the requester's answer to a reliable one.
Carry(m, reliable) == [kind |-> "response", id |-> m, flag |-> reliable]
Answer(m, positive) == [kind |-> "ack", id |-> m, flag |-> positive]

\* sendResponseAck, for a reliable response only.
Reply(m, reliable, positive) ==
    net' = (net \ {Carry(m, reliable)})
            \cup (IF reliable THEN {Answer(m, positive)} ELSE {})

\* A response to a future in the index: handleResponseMessage with
\* handleResponseCorrelation.
HandleResponse(m, reliable) ==
    LET f == request[m.tag]
        a == Admit(f.ack, m.from, m.seqno)
        g == IF reliable THEN [f EXCEPT !.ack = a.ack] ELSE f
        fresh == reliable => a.fresh
    IN  /\ Carry(m, reliable) \in net /\ m.tag \in requests
        /\ request' = [request EXCEPT ![m.tag] = IF fresh THEN Stored(g) ELSE g]
        /\ IF fresh THEN Rearm(m.tag) ELSE UNCHANGED tasks
        /\ delivered' = [delivered EXCEPT ![m] = @ + (IF fresh THEN 1 ELSE 0)]
        /\ requestAcks' = Sweep(requestAcks)
        /\ Reply(m, reliable, a.positive)
        /\ UNCHANGED <<lapsed, nextRequestTag, requests, due, respond, losses>>

\* Mutant: without a record there is no answer.
HandleOrphanSilent(m, reliable) ==
    /\ Carry(m, reliable) \in net /\ m.tag \notin requests
    /\ net' = (net \ {Carry(m, reliable)})
               \cup {Answer(m, TRUE) : t \in {u \in DOMAIN requestAcks :
                        reliable /\ u = m.tag /\ Test(requestAcks[u], m.from, m.seqno)}}
    /\ UNCHANGED <<nextRequestTag, request, requests, requestAcks, lapsed, tasks, due,
                   respond, losses, delivered>>

\* A response to a future that is gone is answered from the handed-off record.
HandleOrphan(m, reliable) ==
    /\ Carry(m, reliable) \in net /\ m.tag \notin requests
    /\ Reply(m, reliable, m.tag \in DOMAIN requestAcks
                            /\ Test(requestAcks[m.tag], m.from, m.seqno))
    /\ requestAcks' = Sweep(requestAcks)
    /\ UNCHANGED <<nextRequestTag, request, requests, lapsed, tasks, due, respond, losses, delivered>>

\* The scheduler takes a liveness task out ...
Dequeue(k) ==
    /\ due = None
    /\ tasks' = tasks \ {k}
    /\ due' = k
    /\ UNCHANGED <<lapsed, nextRequestTag, request, requests, requestAcks, respond, net, losses, delivered>>

\* ... and calls onLivenessTimeout, which does not know which task it is.
OnLivenessTimeout ==
    /\ due # None
    /\ due' = None
    /\ request' = [request EXCEPT ![due.tag] =
            IF @.expired THEN @
            ELSE [@ EXCEPT !.task = None, !.expired = TRUE, !.err = "ErrLiveness"]]
    /\ UNCHANGED <<lapsed, nextRequestTag, requests, requestAcks, tasks, respond, net, losses, delivered>>

MoveResponse(tag) ==
    /\ request[tag].stored
    /\ request' = [request EXCEPT ![tag].stored = FALSE]
    /\ UNCHANGED <<nextRequestTag, requests, requestAcks, lapsed, tasks, due, respond, net, losses, delivered>>

\* cancel, and the disarming in Destroy.
Disarm(tag) == tasks' = {k \in tasks : k.tag # tag \/ k.id # request[tag].task}

\* Mutant: the future is completed but its deadline not marked as gone.
CancelRequestArmed(tag) ==
    /\ tag \in requests
    /\ requests' = requests \ {tag}
    /\ Disarm(tag)
    /\ request' = [request EXCEPT ![tag] =
            [@ EXCEPT !.task = None, !.err = "ErrNACK", !.cancelled = TRUE]]
    /\ UNCHANGED <<nextRequestTag, requestAcks, lapsed, due, respond, net, losses, delivered>>

CancelRequest(tag) ==
    /\ tag \in requests
    /\ requests' = requests \ {tag}
    /\ Disarm(tag)
    /\ request' = [request EXCEPT ![tag] =
            [@ EXCEPT !.task = None, !.expired = TRUE, !.err = "ErrNACK", !.cancelled = TRUE]]
    /\ UNCHANGED <<lapsed, nextRequestTag, requestAcks, due, respond, net, losses, delivered>>

\* Destroy hands the record over if anything was acknowledged.
Destroy(tag) ==
    LET f == request[tag]
    IN  /\ ~f.destroyed
        /\ requests' = requests \ {tag}
        /\ requestAcks' = IF f.ack = NoAck THEN requestAcks
                          ELSE Put(requestAcks, tag, f.ack)
        /\ Disarm(tag)
        /\ request' = [request EXCEPT ![tag] =
                [f EXCEPT !.task = None, !.expired = TRUE, !.ack = NoAck,
                          !.destroyed = TRUE]]
        /\ UNCHANGED <<lapsed, nextRequestTag, due, respond, net, losses, delivered>>
-----------------------------------------------------------------------------
(***************************************************************************)
(* The responders: one breadcrumb per request and responder, whose seqno   *)
(* counts the responses.                                                   *)
(***************************************************************************)
Sent == {m \in Responses : respond[m] # "unsent"}

\* sendResponse: Respond (reliable = FALSE) and sendResponseReliable.  Respond
\* also sets the breadcrumb's number, so that a stream may skip some.
Respond(m, reliable) ==
    /\ m.tag \in DOMAIN request
    /\ Cardinality(Sent) < MaxResponses
    /\ \A o \in Sent : o.from = m.from /\ o.tag = m.tag => o.seqno < m.seqno
    /\ respond' = [respond EXCEPT ![m] = IF reliable THEN "pending" ELSE "best-effort"]
    /\ net' = net \cup {Carry(m, reliable)}
    /\ UNCHANGED <<reqVars, losses>>

\* onRetransmitTick, again and again while the future is pending; a copy of what is
\* on its way already changes nothing.
OnRetransmitTick(m) ==
    /\ respond[m] = "pending" /\ Carry(m, TRUE) \notin net
    /\ net' = net \cup {Carry(m, TRUE)}
    /\ UNCHANGED <<reqVars, respond, losses>>

\* handleResponseAckMessage with onAck and remove; an orphaned answer is ignored.
HandleResponseAck(m, positive) ==
    /\ Answer(m, positive) \in net
    /\ net' = net \ {Answer(m, positive)}
    /\ respond' = [respond EXCEPT ![m] =
            IF @ # "pending" THEN @ ELSE IF positive THEN "OK" ELSE "ErrNACK"]
    /\ UNCHANGED <<reqVars, losses>>

Lose(x) ==
    /\ losses < MaxLosses
    /\ net' = net \ {x}
    /\ losses' = losses + 1
    /\ UNCHANGED <<reqVars, respond>>

\* deadAt of a retained record comes: the next response received sweeps it.
Expire(t) ==
    /\ t \notin lapsed
    /\ lapsed' = lapsed \cup {t}
    /\ UNCHANGED <<nextRequestTag, request, requests, requestAcks, tasks, due, respond,
                   net, losses, delivered>>
-----------------------------------------------------------------------------
Init ==
    /\ nextRequestTag = 0
    /\ request = [t \in {} |-> None] /\ requests = {}
    /\ requestAcks = [t \in {} |-> None] /\ lapsed = {}
    /\ tasks = {} /\ due = None
    /\ respond = [m \in Responses |-> "unsent"]
    /\ net = {} /\ losses = 0
    /\ delivered = [m \in Responses |-> 0]

Receive == \E x \in net : HandleResponse(x.id, x.flag) \/ HandleOrphan(x.id, x.flag)

Conclude == \E x \in net : HandleResponseAck(x.id, x.flag)

Retransmit == \E m \in Responses : OnRetransmitTick(m)

TimerStep == (\E k \in tasks : Dequeue(k)) \/ OnLivenessTimeout

Next ==
    \/ Request
    \/ \E m \in Responses, reliable \in BOOLEAN : Respond(m, reliable)
    \/ Receive \/ Conclude \/ Retransmit
    \/ TimerStep
    \/ \E t \in DOMAIN request : MoveResponse(t) \/ CancelRequest(t) \/ Destroy(t)
    \/ \E x \in net : Lose(x)
    \/ \E t \in DOMAIN requestAcks : Expire(t)

Spec == Init /\ [][Next]_vars

\* Transfers on their way arrive, in any order, and timers expire, the scheduler
\* being spun again and again.  The application need do nothing.
FairSpec ==
    /\ Spec
    /\ WF_vars(Receive) /\ WF_vars(Conclude) /\ WF_vars(Retransmit)
    /\ WF_vars(TimerStep)
-----------------------------------------------------------------------------
TypeOK ==
    /\ nextRequestTag \in 0..MaxRequests /\ losses \in 0..MaxLosses
    /\ DOMAIN request = 0..(nextRequestTag - 1)
    /\ requests \subseteq DOMAIN request /\ DOMAIN requestAcks \subseteq DOMAIN request
    /\ \A t \in DOMAIN request :
        /\ request[t].err \in {"OK", "ErrLiveness", "ErrNACK"}
        /\ request[t].task \in Nat \cup {None}
        /\ \A b \in UNION {w.acked : w \in Range(request[t].ack.tree)} : b \in 0..(History - 1)
    /\ \A k \in tasks : k.tag \in DOMAIN request
    /\ respond \in [Responses -> {"unsent", "best-effort", "pending", "OK", "ErrNACK"}]
    /\ net \subseteq [kind : {"response", "ack"}, id : Responses, flag : BOOLEAN]

\* A response reaches the application at most once, however often a reliable
\* one is retransmitted and in whichever order the responses of several
\* responders arrive; and its RespondFuture completes with OK only if it did,
\* also when the answer came from the record of a future that is gone.
DeliveredOnce ==
    /\ TypeOK
    /\ \A m \in Responses :
        /\ delivered[m] <= 1
        /\ respond[m] = "OK" => delivered[m] = 1

\* ErrNACK has a reason: the response is too old for the window, or the request
\* is gone; and a response that was delivered is refused after the request is
\* gone only if it was cancelled or its record was kept its full time.
NackJustified ==
    \A m \in Responses : respond[m] = "ErrNACK" =>
        \/ \E o \in Responses : /\ o.from = m.from /\ o.tag = m.tag
                                /\ o.seqno >= m.seqno + History /\ delivered[o] > 0
        \/ /\ m.tag \notin requests
           /\ \/ delivered[m] = 0
              \/ request[m.tag].cancelled
              \/ m.tag \in lapsed

\* A future that was cancelled or destroyed stays done with the error it had:
\* no response and no timer, not even one that was already due, changes it.
DisposedSilent ==
    [][\A t \in DOMAIN request :
        request[t].cancelled \/ request[t].destroyed =>
            /\ request[t].expired /\ request'[t].expired
            /\ \/ request'[t].err = request[t].err
               \/ request'[t].cancelled # request[t].cancelled
            /\ request'[t].stored => request[t].stored]_vars

\* Once the responses cease both ends settle, over a network that loses finitely
\* many transfers: every request is done for good, since a rearmed deadline
\* always fires, also when a stale one fires first; and every reliable response
\* is resolved, whether the requester's future is open, cancelled, destroyed or
\* forgotten.
BothSettle ==
    <>[](/\ \A t \in DOMAIN request : request[t].expired
         /\ \A m \in Responses : respond[m] # "pending")
=============================================================================
