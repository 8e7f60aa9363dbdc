------------------------------ MODULE RpcProofs ------------------------------
(***************************************************************************)
(* Proofs about requests and responses, for any number of responders,      *)
(* requests and responses and any length of the history: a response is     *)
(* delivered at most once, a verdict on it is right, and a future that was *)
(* cancelled or destroyed is silent.                                       *)
(*                                                                         *)
(* The record of what was acknowledged decides about the next copy of a    *)
(* response.  It forgets what is older than the history, and it is handed  *)
(* over when the future is destroyed: what it says has to be tied to what  *)
(* the application got, in both directions, wherever the record is.        *)
(***************************************************************************)
EXTENDS Rpc, TLAPS

Windows == [top : Nat, acked : SUBSET (0..(History - 1))]

Acks == [solo : Responders \cup {None},
         tree : UNION {[S -> Windows] : S \in SUBSET Responders}]

Futures == [stored : BOOLEAN, err : {"OK", "ErrLiveness", "ErrNACK"}, expired : BOOLEAN,
            task : Nat \cup {None}, arms : Nat, ack : Acks, cancelled : BOOLEAN,
            destroyed : BOOLEAN]

\* The values of the variables, and the tags that are in use.
Types ==
    /\ nextRequestTag \in 0..MaxRequests /\ losses \in 0..MaxLosses
    /\ DOMAIN request = 0..(nextRequestTag - 1)
    /\ request \in [DOMAIN request -> Futures]
    /\ requests \subseteq DOMAIN request
    /\ DOMAIN requestAcks \subseteq DOMAIN request
    /\ requestAcks \in [DOMAIN requestAcks -> Acks]
    /\ \A k \in tasks : k.tag \in DOMAIN request
    /\ due # None => due.tag \in DOMAIN request
    /\ respond \in [Responses -> {"unsent", "best-effort", "pending", "OK", "ErrNACK"}]
    /\ net \subseteq [kind : {"response", "ack"}, id : Responses, flag : BOOLEAN]
    /\ delivered \in [Responses -> Nat]

\* A future leaves the index when it is cancelled or destroyed, and its deadline is
\* marked as gone then.
Disposed ==
    \A t \in DOMAIN request :
        (t \notin requests <=> request[t].cancelled \/ request[t].destroyed)
            /\ (t \notin requests => request[t].expired)

\* A record has one remote or windows, and the top of a window was acknowledged.
Shaped(a) ==
    /\ a.solo # None => DOMAIN a.tree = {}
    /\ \A r \in DOMAIN a.tree : a.tree[r].top <= MaxSeqno[r] /\ 0 \in a.tree[r].acked

\* The record speaks for a response: it has acknowledged it, or it is too old.
Covers(a, r, seqno) ==
    \/ Test(a, r, seqno)
    \/ a.solo = None /\ r \in DOMAIN a.tree /\ seqno + History <= a.tree[r].top

Reliable(m) == respond[m] \in {"pending", "OK", "ErrNACK"}

\* What the record has acknowledged was delivered ...
Truthful(t, a) ==
    \A m \in Responses : m.tag = t /\ Test(a, m.from, m.seqno) => delivered[m] = 1

\* ... and it speaks for what was delivered.
Complete(t, a) ==
    \A m \in Responses :
        m.tag = t /\ Reliable(m) /\ delivered[m] > 0 => Covers(a, m.from, m.seqno)

Records ==
    /\ \A t \in DOMAIN request :
        /\ Shaped(request[t].ack) /\ Truthful(t, request[t].ack)
        /\ ~request[t].destroyed => Complete(t, request[t].ack)
        /\ request[t].destroyed /\ t \notin lapsed =>
              Complete(t, IF t \in DOMAIN requestAcks THEN requestAcks[t] ELSE NoAck)
        /\ ~request[t].destroyed => t \notin DOMAIN requestAcks
    /\ \A t \in DOMAIN requestAcks : Shaped(requestAcks[t]) /\ Truthful(t, requestAcks[t])

\* What travels and what was delivered, of every response.
Travels ==
    \A m \in Responses :
        /\ delivered[m] <= 1
        /\ respond[m] # "unsent" => m.tag \in DOMAIN request
        /\ respond[m] = "unsent" => delivered[m] = 0
        /\ Carry(m, FALSE) \in net => respond[m] = "best-effort" /\ delivered[m] = 0
        /\ Carry(m, TRUE) \in net => Reliable(m)
        /\ Answer(m, TRUE) \in net \/ respond[m] = "OK" => Reliable(m) /\ delivered[m] = 1

\* The reasons to refuse a response, and they stay.
TooOld(m) ==
    \E o \in Responses : /\ o.from = m.from /\ o.tag = m.tag
                         /\ o.seqno >= m.seqno + History /\ delivered[o] > 0

Refusable(m) ==
    \/ TooOld(m)
    \/ /\ m.tag \notin requests
       /\ delivered[m] = 0 \/ request[m.tag].cancelled \/ m.tag \in lapsed

Refused ==
    \A m \in Responses :
        Answer(m, FALSE) \in net \/ respond[m] = "ErrNACK" =>
            Reliable(m) /\ Refusable(m)

IInv == Types /\ Disposed /\ Records /\ Travels /\ Refused

-----------------------------------------------------------------------------
(* What admit does to a record.                                            *)

LEMMA AckFields ==
    ASSUME NEW a \in Acks
    PROVE  /\ a = [solo |-> a.solo, tree |-> a.tree]
           /\ a.solo \in Responders \cup {None}
           /\ DOMAIN a.tree \subseteq Responders
           /\ a.tree \in [DOMAIN a.tree -> Windows]
BY DEF Acks

LEMMA MakeAck ==
    ASSUME NEW solo \in Responders \cup {None}, NEW tree, DOMAIN tree \subseteq Responders,
           tree \in [DOMAIN tree -> Windows]
    PROVE  [solo |-> solo, tree |-> tree] \in Acks
<1>1. tree \in UNION {[S -> Windows] : S \in SUBSET Responders}
    OBVIOUS
<1> QED
    BY <1>1 DEF Acks

LEMMA NothingAcked ==
    /\ NoAck \in Acks /\ Shaped(NoAck)
    /\ \A r \in Responders, seqno \in Nat : ~Covers(NoAck, r, seqno)
<1>1. /\ NoAck.solo = None /\ DOMAIN NoAck.tree = {}
      /\ NoAck.tree \in [{} -> Windows] /\ NoAck = [solo |-> NoAck.solo, tree |-> NoAck.tree]
    BY DEF NoAck
<1>2. NoAck \in Acks
    BY <1>1, MakeAck
<1> QED
    BY <1>1, <1>2 DEF Shaped, Covers, Test

LEMMA ShiftedBits ==
    ASSUME NEW acked \in SUBSET (0..(History - 1)), NEW n \in Nat
    PROVE  /\ ShiftLeft(acked, n) \in SUBSET (0..(History - 1))
           /\ \A b \in 0..(History - 1) : b \in ShiftLeft(acked, n) <=> b - n \in acked
BY RpcAssumption DEF ShiftLeft

\* The windows of a record become those that Promote makes of it, and it says the same.
LEMMA Promoted ==
    ASSUME NEW a \in Acks, Shaped(a)
    PROVE  /\ Promote(a) \in Acks /\ Shaped(Promote(a)) /\ Promote(a).solo = None
           /\ \A r \in Responders, seqno \in Nat :
                /\ Test(a, r, seqno) <=> Test(Promote(a), r, seqno)
                /\ Covers(a, r, seqno) <=> Covers(Promote(a), r, seqno)
<1>1. CASE a.solo = None
    BY <1>1 DEF Promote
<1>2. CASE a.solo # None
    <2>1. a.solo \in Responders /\ DOMAIN a.tree = {}
        BY <1>2, AckFields DEF Shaped
    <2>2. PICK tree : tree = Put(a.tree, a.solo, Window(0, {0}))
        OBVIOUS
    <2>3. /\ DOMAIN tree = {a.solo} /\ tree[a.solo] = Window(0, {0})
          /\ tree \in [DOMAIN tree -> Windows]
        BY <2>1, <2>2, RpcAssumption DEF Put, Window, Windows
    <2>4. Promote(a) = [solo |-> None, tree |-> tree]
        BY <1>2, <2>2 DEF Promote
    <2>5. Promote(a) \in Acks
        BY <2>1, <2>3, <2>4, MakeAck
    <2>6. tree[a.solo].top = 0 /\ tree[a.solo].acked = {0} /\ MaxSeqno[a.solo] \in Nat
        BY <2>1, <2>3, RpcAssumption DEF Window
    <2>7. Shaped(Promote(a)) /\ Promote(a).solo = None
        BY <2>3, <2>4, <2>6 DEF Shaped
    <2>8. ASSUME NEW r \in Responders, NEW seqno \in Nat
          PROVE  /\ Test(a, r, seqno) <=> Test(Promote(a), r, seqno)
                 /\ Covers(a, r, seqno) <=> Covers(Promote(a), r, seqno)
        <3>1. Test(a, r, seqno) <=> r = a.solo /\ seqno = 0
            BY <1>2 DEF Test
        <3>2. Test(Promote(a), r, seqno) <=> r = a.solo /\ seqno = 0
            BY <2>3, <2>4, <2>6 DEF Test
        <3>3. History \in Nat \ {0}
            BY RpcAssumption
        <3> QED
            BY <1>2, <2>3, <2>4, <2>6, <3>1, <3>2, <3>3 DEF Covers
    <2> QED
        BY <2>5, <2>7, <2>8
<1> QED
    BY <1>1, <1>2

\* What is asked of admit, of a record a, for the response seqno of r.
AdmitSound(a, r, seqno, A) ==
    /\ A.ack \in Acks /\ Shaped(A.ack)
    /\ A.fresh => ~Covers(a, r, seqno) /\ A.positive
    /\ A.positive => Test(A.ack, r, seqno)
    /\ A.positive /\ ~A.fresh => Test(a, r, seqno)
    /\ ~A.positive => r \in DOMAIN a.tree /\ a.tree[r].top >= seqno + History
    /\ \A q \in Responders, n \in Nat :
        /\ Covers(a, q, n) => Covers(A.ack, q, n)
        /\ Test(A.ack, q, n) => Test(a, q, n) \/ (q = r /\ n = seqno /\ A.fresh)

\* The record in which the window of r is v.
WithWindow(a, r, v) == [solo |-> None, tree |-> Put(a.tree, r, v)]

LEMMA WindowSet ==
    ASSUME NEW a \in Acks, Shaped(a), a.solo = None, NEW r \in Responders,
           NEW v \in Windows, v.top <= MaxSeqno[r], 0 \in v.acked
    PROVE  /\ WithWindow(a, r, v) \in Acks /\ Shaped(WithWindow(a, r, v))
           /\ WithWindow(a, r, v).solo = None
           /\ r \in DOMAIN WithWindow(a, r, v).tree
           /\ WithWindow(a, r, v).tree[r] = v
           /\ \A q \in Responders, n \in Nat : q # r =>
                /\ Test(WithWindow(a, r, v), q, n) <=> Test(a, q, n)
                /\ Covers(WithWindow(a, r, v), q, n) <=> Covers(a, q, n)
<1>1. PICK tree : tree = Put(a.tree, r, v)
    OBVIOUS
<1>2. /\ DOMAIN tree = DOMAIN a.tree \cup {r} /\ tree[r] = v
      /\ \A q \in DOMAIN a.tree : q # r => tree[q] = a.tree[q]
      /\ tree \in [DOMAIN tree -> Windows] /\ DOMAIN tree \subseteq Responders
    BY <1>1, AckFields DEF Put
<1>3. PICK b : b = WithWindow(a, r, v)
    OBVIOUS
<1>4. b = [solo |-> None, tree |-> tree] /\ b.solo = None /\ b.tree = tree
    BY <1>1, <1>3 DEF WithWindow
<1>5. b \in Acks
    BY <1>2, <1>4, MakeAck
<1>6. Shaped(b)
    BY <1>2, <1>4 DEF Shaped
<1>7. \A q \in Responders, n \in Nat : q # r =>
        (Test(b, q, n) <=> Test(a, q, n)) /\ (Covers(b, q, n) <=> Covers(a, q, n))
    BY <1>2, <1>4 DEF Test, Covers
<1> QED
    BY <1>2, <1>3, <1>4, <1>5, <1>6, <1>7

LEMMA WindowSound ==
    ASSUME NEW a \in Acks, Shaped(a), a.solo = None,
           NEW r \in Responders, NEW seqno \in 0..MaxSeqno[r]
    PROVE  AdmitSound(a, r, seqno, AdmitWindow(a, r, seqno))
<1>1. PICK w : w = IF r \in DOMAIN a.tree THEN a.tree[r] ELSE Window(0, {})
    OBVIOUS
<1>2. MaxSeqno[r] \in Nat /\ History \in Nat \ {0} /\ seqno \in Nat
    BY RpcAssumption
<1>3. w \in Windows
    BY <1>1, AckFields, RpcAssumption DEF Window, Windows
<1>4. /\ w.top \in Nat /\ w.acked \in SUBSET (0..(History - 1)) /\ w.top <= MaxSeqno[r]
      /\ r \in DOMAIN a.tree => 0 \in w.acked
      /\ r \notin DOMAIN a.tree => w.top = 0 /\ w.acked = {}
    <2>1. w.top \in Nat /\ w.acked \in SUBSET (0..(History - 1))
        BY <1>3 DEF Windows
    <2> QED
        BY <1>1, <1>2, <2>1 DEF Shaped, Window
<1>5. PICK ahead \in Int : ahead = seqno - w.top
    BY <1>2, <1>4
<1>6. \A v : [a EXCEPT !.tree = Put(a.tree, r, v)] = WithWindow(a, r, v)
    BY AckFields DEF WithWindow
<1>7. ASSUME NEW A, NEW v \in Windows, v.top <= MaxSeqno[r], 0 \in v.acked,
             A.ack = WithWindow(a, r, v),
             A.fresh => ~Covers(a, r, seqno) /\ A.positive,
             A.positive => Test(A.ack, r, seqno),
             A.positive /\ ~A.fresh => Test(a, r, seqno),
             ~A.positive => r \in DOMAIN a.tree /\ a.tree[r].top >= seqno + History,
             \A n \in Nat : Covers(a, r, n) => Covers(A.ack, r, n),
             \A n \in Nat : Test(A.ack, r, n) => Test(a, r, n) \/ (n = seqno /\ A.fresh)
      PROVE  AdmitSound(a, r, seqno, A)
    <2>1. A.ack \in Acks /\ Shaped(A.ack)
        BY <1>7, WindowSet
    <2>2. ASSUME NEW q \in Responders, NEW n \in Nat
          PROVE  /\ Covers(a, q, n) => Covers(A.ack, q, n)
                 /\ Test(A.ack, q, n) => Test(a, q, n) \/ (q = r /\ n = seqno /\ A.fresh)
        <3>1. CASE q = r
            BY <1>7, <3>1
        <3>2. CASE q # r
            BY <1>7, <3>2, WindowSet
        <3> QED
            BY <3>1, <3>2
    <2> QED
        BY <1>7, <2>1, <2>2 DEF AdmitSound
<1>8. \A n \in Nat :
        /\ Test(a, r, n) <=> n <= w.top /\ w.top - n \in w.acked
        /\ Covers(a, r, n) <=> \/ n <= w.top /\ w.top - n \in w.acked
                              \/ n + History <= w.top
    <2>1. CASE r \in DOMAIN a.tree
        BY <1>1, <2>1 DEF Test, Covers
    <2>2. CASE r \notin DOMAIN a.tree
        BY <1>2, <1>4, <2>2 DEF Test, Covers
    <2> QED
        BY <2>1, <2>2
<1>9. ASSUME NEW b, b.solo = None, r \in DOMAIN b.tree
      PROVE  \A n \in Nat :
        /\ Test(b, r, n) <=> n <= b.tree[r].top /\ b.tree[r].top - n \in b.tree[r].acked
        /\ Covers(b, r, n) <=> \/ n <= b.tree[r].top /\ b.tree[r].top - n \in b.tree[r].acked
                              \/ n + History <= b.tree[r].top
    BY <1>9 DEF Test, Covers
<1>10. CASE ahead > 0
    <2>1. PICK n \in Nat : n = ahead
        BY <1>10
    <2>2. PICK v : v = Window(seqno, ShiftLeft(w.acked, ahead) \cup {0})
        OBVIOUS
    <2>3. /\ v.top = seqno /\ v.acked = ShiftLeft(w.acked, ahead) \cup {0}
          /\ v.acked \in SUBSET (0..(History - 1)) /\ 0 \in v.acked
        <3>1. v.top = seqno /\ v.acked = ShiftLeft(w.acked, ahead) \cup {0}
            BY <2>2 DEF Window
        <3>2. ShiftLeft(w.acked, ahead) \in SUBSET (0..(History - 1))
            BY <1>4, <2>1, ShiftedBits
        <3>3. 0 \in 0..(History - 1)
            BY <1>2
        <3> QED
            BY <3>1, <3>2, <3>3
    <2>4. v \in Windows
        BY <1>2, <2>2, <2>3 DEF Window, Windows
    <2>5. PICK b : b = WithWindow(a, r, v)
        OBVIOUS
    <2>6. b.solo = None /\ r \in DOMAIN b.tree /\ b.tree[r] = v
        BY <1>2, <2>3, <2>4, <2>5, WindowSet
    <2>7. PICK A : A = AdmitWindow(a, r, seqno)
        OBVIOUS
    <2>8. A = [ack |-> b, fresh |-> TRUE, positive |-> TRUE]
        BY <1>1, <1>5, <1>6, <1>10, <2>2, <2>5, <2>7 DEF AdmitWindow
    <2>9. A.ack = b /\ A.fresh /\ A.positive
        BY <2>8
    <2>10. \A i \in 0..(History - 1) : i \in v.acked <=> i = 0 \/ i - ahead \in w.acked
        BY <1>4, <2>1, <2>3, ShiftedBits
    <2>11. \A k \in Nat :
            /\ Test(b, r, k) <=> k <= seqno /\ seqno - k \in v.acked
            /\ Covers(b, r, k) <=> \/ k <= seqno /\ seqno - k \in v.acked
                                  \/ k + History <= seqno
        BY <1>9, <2>3, <2>6
    <2>12. ~Covers(a, r, seqno)
        BY <1>2, <1>4, <1>5, <1>8, <1>10
    <2>13. Test(b, r, seqno)
        BY <1>2, <2>3, <2>11
    <2>14. ASSUME NEW k \in Nat, Covers(a, r, k) PROVE Covers(b, r, k)
        <3>1. CASE k <= w.top /\ w.top - k \in w.acked
            <4>1. CASE seqno - k <= History - 1
                <5>1. seqno - k \in 0..(History - 1) /\ (seqno - k) - ahead = w.top - k
                    BY <1>2, <1>4, <1>5, <1>10, <3>1, <4>1
                <5> QED
                    BY <1>2, <2>10, <2>11, <3>1, <5>1
            <4>2. CASE ~(seqno - k <= History - 1)
                BY <1>2, <2>11, <4>2
            <4> QED
                BY <4>1, <4>2
        <3>2. CASE k + History <= w.top
            BY <1>2, <1>4, <1>5, <1>10, <2>11, <3>2
        <3> QED
            BY <1>8, <2>14, <3>1, <3>2
    <2>15. ASSUME NEW k \in Nat, Test(b, r, k) PROVE Test(a, r, k) \/ k = seqno
        <3>1. k <= seqno /\ seqno - k \in v.acked
            BY <2>11, <2>15
        <3>2. seqno - k = 0 \/ (seqno - k) - ahead \in w.acked
            BY <2>3, <2>10, <3>1
        <3>3. CASE (seqno - k) - ahead \in w.acked
            <4>1. (seqno - k) - ahead = w.top - k
                BY <1>2, <1>4, <1>5
            <4>2. w.top - k \in w.acked /\ w.top - k >= 0
                BY <1>2, <1>4, <3>3, <4>1
            <4> QED
                BY <1>4, <1>8, <4>2
        <3> QED
            BY <1>2, <3>2, <3>3
    <2>16. AdmitSound(a, r, seqno, A)
        BY <1>2, <1>7, <2>3, <2>4, <2>5, <2>9, <2>12, <2>13, <2>14, <2>15
    <2> QED
        BY <2>7, <2>16
<1>11. CASE ~(ahead > 0) /\ -ahead >= History
    <2>1. r \in DOMAIN a.tree /\ w = a.tree[r]
        BY <1>1, <1>2, <1>4, <1>5, <1>11
    <2>2. PICK b : b = WithWindow(a, r, w)
        OBVIOUS
    <2>3. b.solo = None /\ r \in DOMAIN b.tree /\ b.tree[r] = w
        BY <1>3, <1>4, <2>1, <2>2, WindowSet
    <2>4. PICK A : A = AdmitWindow(a, r, seqno)
        OBVIOUS
    <2>5. A = [ack |-> b, fresh |-> FALSE, positive |-> FALSE]
        BY <1>1, <1>5, <1>6, <1>11, <2>2, <2>4 DEF AdmitWindow
    <2>6. A.ack = b /\ ~A.fresh /\ ~A.positive
        BY <2>5
    <2>7. \A n \in Nat : (Test(b, r, n) <=> Test(a, r, n)) /\ (Covers(b, r, n) <=> Covers(a, r, n))
        BY <1>8, <1>9, <2>3
    <2>8. a.tree[r].top >= seqno + History
        BY <1>2, <1>4, <1>5, <1>11, <2>1
    <2>9. AdmitSound(a, r, seqno, A)
        BY <1>3, <1>4, <1>7, <2>1, <2>2, <2>6, <2>7, <2>8
    <2> QED
        BY <2>4, <2>9
<1>12. CASE ~(ahead > 0) /\ ~(-ahead >= History)
    <2>1. PICK back \in 0..(History - 1) : back = -ahead
        BY <1>2, <1>12
    <2>2. PICK v : v = Window(w.top, w.acked \cup {back})
        OBVIOUS
    <2>3. v.top = w.top /\ v.acked = w.acked \cup {back} /\ v \in Windows
        BY <1>4, <2>1, <2>2 DEF Window, Windows
    <2>4. 0 \in v.acked
        <3>1. CASE r \in DOMAIN a.tree
            BY <1>4, <2>3, <3>1
        <3>2. CASE r \notin DOMAIN a.tree
            <4>1. back = 0
                BY <1>2, <1>4, <1>5, <1>12, <2>1, <3>2
            <4> QED
                BY <2>3, <4>1
        <3> QED
            BY <3>1, <3>2
    <2>5. PICK b : b = WithWindow(a, r, v)
        OBVIOUS
    <2>6. b.solo = None /\ r \in DOMAIN b.tree /\ b.tree[r] = v
        BY <1>4, <2>3, <2>4, <2>5, WindowSet
    <2>7. PICK A : A = AdmitWindow(a, r, seqno)
        OBVIOUS
    <2>8. A = [ack |-> b, fresh |-> back \notin w.acked, positive |-> TRUE]
        BY <1>1, <1>5, <1>6, <1>12, <2>1, <2>2, <2>5, <2>7 DEF AdmitWindow
    <2>9. A.ack = b /\ A.positive
        BY <2>8
    <2>10. A.fresh <=> back \notin w.acked
        BY <2>8
    <2>11. \A n \in Nat :
            /\ Test(b, r, n) <=> n <= w.top /\ (w.top - n \in w.acked \/ w.top - n = back)
            /\ Covers(b, r, n) <=> \/ n <= w.top /\ (w.top - n \in w.acked \/ w.top - n = back)
                                  \/ n + History <= w.top
        BY <1>9, <2>3, <2>6
    <2>12. seqno <= w.top /\ w.top - seqno = back /\ ~(seqno + History <= w.top)
        BY <1>2, <1>4, <1>5, <1>12, <2>1
    <2>13. A.fresh => ~Covers(a, r, seqno)
        BY <1>2, <1>8, <2>10, <2>12
    <2>14. Test(b, r, seqno) /\ (~A.fresh => Test(a, r, seqno))
        BY <1>2, <1>8, <2>10, <2>11, <2>12
    <2>15. \A n \in Nat : Covers(a, r, n) => Covers(b, r, n)
        BY <1>8, <2>11
    <2>16. ASSUME NEW n \in Nat, Test(b, r, n) PROVE Test(a, r, n) \/ (n = seqno /\ A.fresh)
        <3>1. n <= w.top /\ (w.top - n \in w.acked \/ w.top - n = back)
            BY <2>11, <2>16
        <3>2. w.top - n = back => n = seqno
            BY <1>2, <1>4, <2>1, <2>12
        <3> QED
            BY <1>8, <2>10, <3>1, <3>2
    <2>17. AdmitSound(a, r, seqno, A)
        BY <1>4, <1>7, <2>3, <2>4, <2>5, <2>9, <2>13, <2>14, <2>15, <2>16
    <2> QED
        BY <2>7, <2>17
<1> QED
    BY <1>10, <1>11, <1>12

LEMMA AdmitIsSound ==
    ASSUME NEW a \in Acks, Shaped(a), NEW r \in Responders, NEW seqno \in 0..MaxSeqno[r]
    PROVE  AdmitSound(a, r, seqno, Admit(a, r, seqno))
<1>1. seqno \in Nat /\ r # None
    BY RpcAssumption
<1>2. CASE a.solo = r /\ seqno = 0
    <2>1. PICK A : A = Admit(a, r, seqno)
        OBVIOUS
    <2>2. A = [ack |-> a, fresh |-> FALSE, positive |-> TRUE]
        BY <1>2, <2>1 DEF Admit
    <2>3. A.ack = a /\ ~A.fresh /\ A.positive
        BY <2>2
    <2>4. Test(a, r, seqno)
        BY <1>1, <1>2 DEF Test
    <2> QED
        BY <2>1, <2>3, <2>4 DEF AdmitSound
<1>3. CASE ~(a.solo = r /\ seqno = 0) /\ a = NoAck /\ seqno = 0
    <2>1. PICK b : b = [a EXCEPT !.solo = r]
        OBVIOUS
    <2>2. b = [solo |-> r, tree |-> a.tree] /\ DOMAIN a.tree = {}
        BY <1>3, <2>1 DEF NoAck
    <2>3. b \in Acks
        BY <2>2, AckFields, MakeAck
    <2>4. Admit(a, r, seqno) = [ack |-> b, fresh |-> TRUE, positive |-> TRUE]
        BY <1>3, <2>1 DEF Admit
    <2>5. Shaped(b) /\ Test(b, r, seqno)
        BY <1>1, <1>3, <2>2 DEF Shaped, Test
    <2>6. \A q \in Responders, n \in Nat : Test(b, q, n) => q = r /\ n = seqno
        BY <1>1, <1>3, <2>2 DEF Test
    <2>7. \A q \in Responders, n \in Nat : ~Covers(a, q, n)
        BY <1>3, NothingAcked
    <2> QED
        BY <1>1, <2>3, <2>4, <2>5, <2>6, <2>7 DEF AdmitSound
<1>4. CASE ~(a.solo = r /\ seqno = 0) /\ ~(a = NoAck /\ seqno = 0)
    <2>1. PICK p \in Acks : p = Promote(a) /\ Shaped(p) /\ p.solo = None
        BY Promoted
    <2>2. PICK A : A = AdmitWindow(p, r, seqno)
        OBVIOUS
    <2>3. Admit(a, r, seqno) = A
        BY <1>4, <2>1, <2>2 DEF Admit
    <2>4. AdmitSound(p, r, seqno, A)
        BY <2>1, <2>2, WindowSound
    <2>5. \A q \in Responders, n \in Nat :
            /\ Test(a, q, n) <=> Test(p, q, n)
            /\ Covers(a, q, n) <=> Covers(p, q, n)
        BY <2>1, Promoted
    <2>6. ~A.positive => r \in DOMAIN a.tree /\ a.tree[r].top >= seqno + History
        <3>1. CASE a.solo = None
            BY <2>1, <2>4, <3>1 DEF AdmitSound, Promote
        <3>2. CASE a.solo # None
            <4>1. DOMAIN a.tree = {}
                BY <3>2 DEF Shaped
            <4>2. \A q \in DOMAIN p.tree : p.tree[q].top = 0
                BY <2>1, <3>2, <4>1 DEF Promote, Put, Window
            <4> QED
                BY <1>1, <2>4, <4>2, RpcAssumption DEF AdmitSound
        <3> QED
            BY <3>1, <3>2
    <2> QED
        BY <1>1, <2>3, <2>4, <2>5, <2>6 DEF AdmitSound
<1> QED
    BY <1>2, <1>3, <1>4

-----------------------------------------------------------------------------
(* The types, and the futures that are disposed of.                        *)

LEMMA FutureFields ==
    ASSUME NEW f \in Futures, NEW ack \in Acks
    PROVE  /\ Stored(f) \in Futures /\ Stored(f).ack = f.ack
           /\ Stored(f).cancelled = f.cancelled /\ Stored(f).destroyed = f.destroyed
           /\ [f EXCEPT !.ack = ack] \in Futures
           /\ [f EXCEPT !.ack = ack].ack = ack
           /\ [f EXCEPT !.ack = ack].cancelled = f.cancelled
           /\ [f EXCEPT !.ack = ack].destroyed = f.destroyed
           /\ [f EXCEPT !.ack = ack].expired = f.expired
<1>1. Stored(f) \in Futures
    <2>1. f.arms \in Nat
        BY DEF Futures
    <2>2. PICK n \in Nat : n = f.arms + 1
        BY <2>1
    <2>3. Stored(f) = [f EXCEPT !.stored = TRUE, !.err = "OK", !.expired = FALSE,
                                !.arms = n, !.task = n]
        BY <2>2 DEF Stored
    <2> QED
        BY <2>3 DEF Futures
<1>2. /\ Stored(f).ack = f.ack
      /\ Stored(f).cancelled = f.cancelled /\ Stored(f).destroyed = f.destroyed
    BY DEF Futures, Stored
<1>3. [f EXCEPT !.ack = ack] \in Futures
    BY DEF Futures
<1>4. /\ [f EXCEPT !.ack = ack].ack = ack
      /\ [f EXCEPT !.ack = ack].cancelled = f.cancelled
      /\ [f EXCEPT !.ack = ack].destroyed = f.destroyed
      /\ [f EXCEPT !.ack = ack].expired = f.expired
    BY DEF Futures
<1> QED
    BY <1>1, <1>2, <1>3, <1>4

\* What the other steps do to a future.
LEMMA FutureSteps ==
    ASSUME NEW f \in Futures
    PROVE  /\ [f EXCEPT !.task = None, !.expired = TRUE, !.ack = NoAck,
                        !.destroyed = TRUE] \in Futures
           /\ [f EXCEPT !.task = None, !.expired = TRUE, !.err = "ErrLiveness"] \in Futures
           /\ [f EXCEPT !.task = None, !.expired = TRUE, !.err = "ErrNACK",
                        !.cancelled = TRUE] \in Futures
           /\ [f EXCEPT !.stored = FALSE] \in Futures
<1>1. [f EXCEPT !.task = None, !.expired = TRUE, !.ack = NoAck, !.destroyed = TRUE] \in Futures
    BY NothingAcked DEF Futures
<1>2. [f EXCEPT !.task = None, !.expired = TRUE, !.err = "ErrLiveness"] \in Futures
    BY DEF Futures
<1>3. [f EXCEPT !.task = None, !.expired = TRUE, !.err = "ErrNACK", !.cancelled = TRUE] \in Futures
    BY DEF Futures
<1>4. [f EXCEPT !.stored = FALSE] \in Futures
    BY DEF Futures
<1> QED
    BY <1>1, <1>2, <1>3, <1>4

LEMMA Messages ==
    ASSUME NEW m \in Responses, NEW o \in Responses, NEW b \in BOOLEAN, NEW c \in BOOLEAN
    PROVE  /\ Carry(m, b) = Carry(o, c) <=> m = o /\ b = c
           /\ Answer(m, b) = Answer(o, c) <=> m = o /\ b = c
           /\ Carry(m, b) # Answer(o, c)
           /\ Carry(m, b) \in [kind : {"response", "ack"}, id : Responses, flag : BOOLEAN]
           /\ Answer(m, b) \in [kind : {"response", "ack"}, id : Responses, flag : BOOLEAN]
BY DEF Carry, Answer

LEMMA ResponseFields ==
    ASSUME NEW m \in Responses
    PROVE  /\ m.from \in Responders /\ m.tag \in Tags /\ m.seqno \in 0..MaxSeqno[m.from]
           /\ m.seqno \in Nat /\ MaxSeqno[m.from] \in Nat
           /\ \A o \in Responses :
                o.from = m.from /\ o.tag = m.tag /\ o.seqno = m.seqno => o = m
BY RpcAssumption DEF Responses

LEMMA ResponseOf ==
    ASSUME NEW r \in Responders, NEW t \in Tags, NEW n \in 0..MaxSeqno[r]
    PROVE  \E o \in Responses : o.from = r /\ o.tag = t /\ o.seqno = n
<1>1. [from |-> r, tag |-> t, seqno |-> n] \in Responses
    BY DEF Responses
<1> QED
    BY <1>1

LEMMA TypesInit == Init => Types /\ Disposed
<1> SUFFICES ASSUME Init PROVE Types /\ Disposed
    OBVIOUS
<1>1. DOMAIN request = {} /\ DOMAIN requestAcks = {} /\ nextRequestTag = 0 /\ losses = 0
    BY DEF Init
<1>2. request \in [{} -> Futures] /\ requestAcks \in [{} -> Acks]
    BY DEF Init
<1>3. 0..(nextRequestTag - 1) = {}
    BY <1>1
<1>4. requests = {} /\ tasks = {} /\ due = None /\ net = {}
    BY DEF Init
<1>5. /\ respond \in [Responses -> {"unsent", "best-effort", "pending", "OK", "ErrNACK"}]
      /\ delivered \in [Responses -> Nat]
    BY DEF Init
<1>6. nextRequestTag \in 0..MaxRequests /\ losses \in 0..MaxLosses
    BY <1>1, RpcAssumption
<1> QED
    BY <1>1, <1>2, <1>3, <1>4, <1>5, <1>6 DEF Types, Disposed

\* The fields of the future of tag that a step may set, and the rest as it was.
LEMMA OneFuture ==
    ASSUME Types, Disposed, NEW t \in DOMAIN request, NEW f \in Futures,
           request' = [request EXCEPT ![t] = f],
           requests' = requests \/ requests' = requests \ {t},
           t \notin requests' <=> f.cancelled \/ f.destroyed,
           t \notin requests' => f.expired
    PROVE  /\ DOMAIN request' = DOMAIN request
           /\ request' \in [DOMAIN request -> Futures]
           /\ requests' \subseteq DOMAIN request
           /\ Disposed'
BY DEF Types, Disposed

LEMMA ReceiveTypes ==
    ASSUME Types, Disposed, Records, NEW m \in Responses, NEW reliable \in BOOLEAN,
           HandleResponse(m, reliable)
    PROVE  Types' /\ Disposed'
<1> USE DEF Types
<1>1. PICK t \in DOMAIN request : t = m.tag /\ t \in requests
    BY DEF HandleResponse
<1>2. PICK A : A = Admit(request[t].ack, m.from, m.seqno) /\ A.ack \in Acks
    <2>1. request[t].ack \in Acks /\ Shaped(request[t].ack)
        BY DEF Records, Futures
    <2> QED
        BY <1>1, <2>1, ResponseFields, AdmitIsSound DEF AdmitSound
<1>3. PICK g : g = IF reliable THEN [request[t] EXCEPT !.ack = A.ack] ELSE request[t]
    OBVIOUS
<1>4. PICK f : f = IF reliable => A.fresh THEN Stored(g) ELSE g
    OBVIOUS
<1>5. request[t] \in Futures
    OBVIOUS
<1>6. /\ g \in Futures /\ g.cancelled = request[t].cancelled
      /\ g.destroyed = request[t].destroyed
    BY <1>2, <1>3, <1>5, FutureFields
<1>7. /\ f \in Futures /\ f.cancelled = request[t].cancelled
      /\ f.destroyed = request[t].destroyed
    BY <1>4, <1>6, NothingAcked, FutureFields
<1>8. /\ request' = [request EXCEPT ![t] = f] /\ requests' = requests
      /\ UNCHANGED <<lapsed, nextRequestTag, due, respond, losses>>
    BY <1>1, <1>2, <1>3, <1>4 DEF HandleResponse
<1>9. /\ DOMAIN request' = DOMAIN request /\ request' \in [DOMAIN request -> Futures]
      /\ Disposed'
    BY <1>1, <1>7, <1>8, OneFuture DEF Disposed
<1>10. \A k \in tasks' : k.tag \in DOMAIN request
    BY <1>1 DEF HandleResponse, Rearm
<1>11. /\ requestAcks' \in [DOMAIN requestAcks' -> Acks]
       /\ DOMAIN requestAcks' \subseteq DOMAIN requestAcks
    BY DEF HandleResponse, Sweep, Drop
<1>12. net' \subseteq [kind : {"response", "ack"}, id : Responses, flag : BOOLEAN]
    <2>1. PICK positive \in BOOLEAN : Reply(m, reliable, positive)
        <3>1. A.positive \in BOOLEAN
            BY <1>2, ResponseFields DEF Admit, AdmitWindow
        <3> QED
            BY <1>1, <1>2, <3>1 DEF HandleResponse
    <2> QED
        BY <2>1, Messages DEF Reply
<1>13. delivered' \in [Responses -> Nat]
    BY DEF HandleResponse
<1> QED
    BY <1>8, <1>9, <1>10, <1>11, <1>12, <1>13

LEMMA DestroyTypes ==
    ASSUME Types, Disposed, NEW t \in DOMAIN request, Destroy(t)
    PROVE  Types' /\ Disposed'
<1> USE DEF Types
<1>1. PICK f : f = [request[t] EXCEPT !.task = None, !.expired = TRUE, !.ack = NoAck,
                                       !.destroyed = TRUE]
    OBVIOUS
<1>2. f \in Futures /\ f.destroyed /\ f.expired
    <2>1. request[t] \in Futures
        OBVIOUS
    <2>2. f.destroyed /\ f.expired
        BY <1>1, <2>1 DEF Futures
    <2> QED
        BY <1>1, <2>1, <2>2, FutureSteps
<1>3. /\ request' = [request EXCEPT ![t] = f] /\ requests' = requests \ {t}
      /\ UNCHANGED <<lapsed, nextRequestTag, due, respond, net, losses, delivered>>
    BY <1>1 DEF Destroy
<1>4. /\ DOMAIN request' = DOMAIN request /\ request' \in [DOMAIN request -> Futures]
      /\ requests' \subseteq DOMAIN request /\ Disposed'
    BY <1>2, <1>3, OneFuture
<1>5. /\ requestAcks' \in [DOMAIN requestAcks' -> Acks]
      /\ DOMAIN requestAcks' \subseteq DOMAIN request
    <2>1. request[t].ack \in Acks
        BY DEF Futures
    <2> QED
        BY <2>1 DEF Destroy, Put
<1>6. tasks' \subseteq tasks
    BY DEF Destroy, Disarm
<1> QED
    BY <1>3, <1>4, <1>5, <1>6

LEMMA TypesStep ==
    ASSUME Types, Disposed, Records, [Next]_vars
    PROVE  Types' /\ Disposed'
<1> USE DEF Types
<1>1. CASE Request
    <2>1. PICK f : f = [stored |-> FALSE, err |-> "OK", expired |-> FALSE, task |-> None,
                        arms |-> 0, ack |-> NoAck, cancelled |-> FALSE, destroyed |-> FALSE]
        OBVIOUS
    <2>2. f \in Futures /\ ~f.cancelled /\ ~f.destroyed
        BY <2>1, NothingAcked DEF Futures
    <2>3. /\ nextRequestTag < MaxRequests /\ nextRequestTag' = nextRequestTag + 1
          /\ request' = Put(request, nextRequestTag, f)
          /\ requests' = requests \cup {nextRequestTag}
          /\ tasks' = tasks \cup {[id |-> 0, tag |-> nextRequestTag]}
          /\ UNCHANGED <<lapsed, requestAcks, due, respond, net, losses, delivered>>
        BY <1>1, <2>1 DEF Request
    <2>4. /\ nextRequestTag' \in 0..MaxRequests
          /\ 0..(nextRequestTag' - 1) = 0..(nextRequestTag - 1) \cup {nextRequestTag}
          /\ nextRequestTag \notin DOMAIN request
        BY <2>3, RpcAssumption
    <2>5. /\ DOMAIN request' = DOMAIN request \cup {nextRequestTag}
          /\ request' \in [DOMAIN request' -> Futures]
          /\ request'[nextRequestTag] = f
          /\ \A t \in DOMAIN request : request'[t] = request[t]
        BY <2>2, <2>3, <2>4 DEF Put
    <2>6. Disposed'
        BY <2>2, <2>3, <2>4, <2>5 DEF Disposed
    <2>7. \A k \in tasks' : k.tag \in DOMAIN request'
        BY <2>3, <2>5
    <2> QED
        BY <2>3, <2>4, <2>5, <2>6, <2>7
<1>2. ASSUME NEW m \in Responses, NEW reliable \in BOOLEAN, Respond(m, reliable)
      PROVE  Types' /\ Disposed'
    BY <1>2, Messages DEF Respond, reqVars, Disposed
<1>3. ASSUME NEW m \in Responses, NEW reliable \in BOOLEAN, HandleOrphan(m, reliable)
      PROVE  Types' /\ Disposed'
    <2>1. PICK positive \in BOOLEAN : Reply(m, reliable, positive)
        BY <1>3 DEF HandleOrphan
    <2>2. net' \subseteq [kind : {"response", "ack"}, id : Responses, flag : BOOLEAN]
        BY <2>1, Messages DEF Reply
    <2>3. /\ requestAcks' \in [DOMAIN requestAcks' -> Acks]
          /\ DOMAIN requestAcks' \subseteq DOMAIN requestAcks
        BY <1>3 DEF HandleOrphan, Sweep, Drop
    <2> QED
        BY <1>3, <2>2, <2>3 DEF HandleOrphan, Disposed
<1>4. ASSUME NEW k \in tasks, Dequeue(k) PROVE Types' /\ Disposed'
    BY <1>4 DEF Dequeue, Disposed
<1>5. CASE OnLivenessTimeout
    <2>1. PICK t \in DOMAIN request : t = due.tag
        BY <1>5 DEF OnLivenessTimeout
    <2>2. PICK f : f = IF request[t].expired THEN request[t]
                       ELSE [request[t] EXCEPT !.task = None, !.expired = TRUE, !.err = "ErrLiveness"]
        OBVIOUS
    <2>3. /\ f \in Futures /\ f.cancelled = request[t].cancelled
          /\ f.destroyed = request[t].destroyed /\ (request[t].expired => f.expired)
        <3>1. PICK g \in Futures : g = request[t]
            OBVIOUS
        <3>2. f \in Futures
            BY <2>2, <3>1, FutureSteps
        <3>3. f.cancelled = g.cancelled /\ f.destroyed = g.destroyed /\ (g.expired => f.expired)
            BY <2>2, <3>1 DEF Futures
        <3> QED
            BY <3>1, <3>2, <3>3
    <2>4. request' = [request EXCEPT ![t] = f] /\ requests' = requests /\ due' = None
        BY <1>5, <2>1, <2>2 DEF OnLivenessTimeout
    <2>5. /\ DOMAIN request' = DOMAIN request /\ request' \in [DOMAIN request -> Futures]
          /\ Disposed'
        BY <2>3, <2>4, OneFuture DEF Disposed
    <2> QED
        BY <1>5, <2>4, <2>5 DEF OnLivenessTimeout
<1>6. ASSUME NEW t \in DOMAIN request, MoveResponse(t) PROVE Types' /\ Disposed'
    <2>1. PICK f : f = [request[t] EXCEPT !.stored = FALSE]
        OBVIOUS
    <2>2. /\ f \in Futures /\ f.cancelled = request[t].cancelled
          /\ f.destroyed = request[t].destroyed /\ f.expired = request[t].expired
        <3>1. PICK g \in Futures : g = request[t]
            OBVIOUS
        <3>2. f \in Futures
            BY <2>1, <3>1, FutureSteps
        <3>3. f.cancelled = g.cancelled /\ f.destroyed = g.destroyed /\ f.expired = g.expired
            BY <2>1, <3>1 DEF Futures
        <3> QED
            BY <3>1, <3>2, <3>3
    <2>3. request' = [request EXCEPT ![t] = f] /\ requests' = requests
        BY <1>6, <2>1 DEF MoveResponse, Futures
    <2>4. /\ DOMAIN request' = DOMAIN request /\ request' \in [DOMAIN request -> Futures]
          /\ Disposed'
        BY <2>2, <2>3, OneFuture DEF Disposed
    <2> QED
        BY <1>6, <2>3, <2>4 DEF MoveResponse
<1>7. ASSUME NEW t \in DOMAIN request, CancelRequest(t) PROVE Types' /\ Disposed'
    <2>1. PICK f : f = [request[t] EXCEPT !.task = None, !.expired = TRUE, !.err = "ErrNACK",
                                          !.cancelled = TRUE]
        OBVIOUS
    <2>2. f \in Futures /\ f.cancelled /\ f.expired
        <3>1. request[t] \in Futures
            OBVIOUS
        <3>2. f.cancelled /\ f.expired
            BY <2>1, <3>1 DEF Futures
        <3> QED
            BY <2>1, <3>1, <3>2, FutureSteps
    <2>3. request' = [request EXCEPT ![t] = f] /\ requests' = requests \ {t}
        BY <1>7, <2>1 DEF CancelRequest
    <2>4. /\ DOMAIN request' = DOMAIN request /\ request' \in [DOMAIN request -> Futures]
          /\ requests' \subseteq DOMAIN request /\ Disposed'
        BY <2>2, <2>3, OneFuture
    <2>5. tasks' \subseteq tasks
          /\ UNCHANGED <<lapsed, nextRequestTag, requestAcks, due, respond, net, losses, delivered>>
        BY <1>7 DEF CancelRequest, Disarm
    <2> QED
        BY <2>4, <2>5
<1>8. ASSUME NEW m \in Responses, OnRetransmitTick(m) PROVE Types' /\ Disposed'
    <2>1. net' \subseteq [kind : {"response", "ack"}, id : Responses, flag : BOOLEAN]
        <3>1. Carry(m, TRUE) \in [kind : {"response", "ack"}, id : Responses, flag : BOOLEAN]
            BY DEF Carry
        <3>2. net' = net \cup {Carry(m, TRUE)}
            BY <1>8 DEF OnRetransmitTick
        <3> QED
            BY <3>1, <3>2
    <2> QED
        BY <1>8, <2>1 DEF OnRetransmitTick, reqVars, Disposed
<1>9. ASSUME NEW m \in Responses, NEW positive \in BOOLEAN, HandleResponseAck(m, positive)
      PROVE  Types' /\ Disposed'
    BY <1>9 DEF HandleResponseAck, reqVars, Disposed
<1>10. ASSUME NEW x \in net, Lose(x) PROVE Types' /\ Disposed'
    BY <1>10, RpcAssumption DEF Lose, reqVars, Disposed
<1>11. ASSUME NEW t \in DOMAIN requestAcks, Expire(t) PROVE Types' /\ Disposed'
    BY <1>11 DEF Expire, Disposed
<1>12. CASE UNCHANGED vars
    BY <1>12 DEF vars, reqVars, Disposed
<1>13. \A x \in net : x.id \in Responses /\ x.flag \in BOOLEAN
    OBVIOUS
<1> QED
    BY <1>1, <1>2, <1>3, <1>4, <1>5, <1>6, <1>7, <1>8, <1>9, <1>10, <1>11, <1>12, <1>13,
       ReceiveTypes, DestroyTypes
    DEF Next, Receive, Conclude, Retransmit, TimerStep

-----------------------------------------------------------------------------
(* The records.                                                            *)

\* The records of the next state, each of which is named.
LEMMA RecordsNext ==
    ASSUME \A t, a : t \in DOMAIN request' /\ a = request'[t].ack =>
                /\ Shaped(a) /\ Truthful(t, a)'
                /\ ~request'[t].destroyed => Complete(t, a)' /\ t \notin DOMAIN requestAcks',
           \A t, a : /\ t \in DOMAIN request' /\ request'[t].destroyed /\ t \notin lapsed'
                     /\ a = (IF t \in DOMAIN requestAcks' THEN requestAcks'[t] ELSE NoAck)
                => Complete(t, a)',
           \A t, a : t \in DOMAIN requestAcks' /\ a = requestAcks'[t]
                => Shaped(a) /\ Truthful(t, a)'
    PROVE  Records'
BY DEF Records, Truthful, Complete

\* Steps that leave the records alone, but for a sweep of those that have lapsed.
LEMMA RecordsKept ==
    ASSUME Types, Records, DOMAIN request' = DOMAIN request,
           \A t \in DOMAIN request : /\ request'[t].ack = request[t].ack
                                     /\ request'[t].destroyed = request[t].destroyed,
           lapsed \subseteq lapsed', delivered' = delivered,
           requestAcks' = requestAcks \/ requestAcks' = Sweep(requestAcks),
           \A m \in Responses : delivered[m] > 0 /\ Reliable(m)' => Reliable(m)
    PROVE  Records'
<1>1. ASSUME NEW t, NEW a
      PROVE  (Truthful(t, a) => Truthful(t, a)') /\ (Complete(t, a) => Complete(t, a)')
    BY DEF Truthful, Complete
<1>2. \A t \in DOMAIN requestAcks' : t \in DOMAIN requestAcks /\ requestAcks'[t] = requestAcks[t]
    BY DEF Sweep, Drop
<1>3. \A t \in DOMAIN requestAcks : t \notin lapsed => t \in DOMAIN requestAcks'
    BY DEF Sweep, Drop
<1>4. ASSUME NEW t \in DOMAIN request, NEW a, a = request'[t].ack
      PROVE  /\ Shaped(a) /\ Truthful(t, a)'
             /\ ~request'[t].destroyed => Complete(t, a)' /\ t \notin DOMAIN requestAcks'
    BY <1>1, <1>2, <1>4 DEF Records
<1>5. ASSUME NEW t \in DOMAIN request, request'[t].destroyed, t \notin lapsed', NEW a,
             a = (IF t \in DOMAIN requestAcks' THEN requestAcks'[t] ELSE NoAck)
      PROVE  Complete(t, a)'
    <2>1. Complete(t, IF t \in DOMAIN requestAcks THEN requestAcks[t] ELSE NoAck)
        BY <1>5 DEF Records
    <2>2. t \in DOMAIN requestAcks <=> t \in DOMAIN requestAcks'
        BY <1>2, <1>3, <1>5
    <2>3. CASE t \in DOMAIN requestAcks
        <3>1. Complete(t, requestAcks[t])
            BY <2>1, <2>3
        <3> QED
            BY <1>1, <1>2, <1>5, <2>2, <2>3, <3>1
    <2>4. CASE t \notin DOMAIN requestAcks
        <3>1. Complete(t, NoAck)
            BY <2>1, <2>4
        <3> QED
            BY <1>1, <1>5, <2>2, <2>4, <3>1
    <2> QED
        BY <2>3, <2>4
<1>6. ASSUME NEW t \in DOMAIN requestAcks', NEW a, a = requestAcks'[t]
      PROVE  Shaped(a) /\ Truthful(t, a)'
    BY <1>1, <1>2, <1>6 DEF Records
<1> QED
    BY <1>4, <1>5, <1>6, RecordsNext

LEMMA RequestRecords ==
    ASSUME Types, Disposed, Records, Travels, Request PROVE Records'
<1>1. PICK new : new = nextRequestTag
    OBVIOUS
<1>2. /\ new \notin DOMAIN request /\ DOMAIN request' = DOMAIN request \cup {new}
      /\ \A t \in DOMAIN request : request'[t] = request[t]
      /\ request'[new].ack = NoAck /\ ~request'[new].destroyed
    BY <1>1 DEF Request, Put, Types
<1>3. UNCHANGED <<lapsed, requestAcks, respond, delivered>>
    BY DEF Request
<1>4. ASSUME NEW t, NEW a
      PROVE  (Truthful(t, a) <=> Truthful(t, a)') /\ (Complete(t, a) <=> Complete(t, a)')
    BY <1>3 DEF Truthful, Complete, Reliable
<1>5. \A m \in Responses : m.tag = new => delivered[m] = 0
    BY <1>2 DEF Travels
<1>6. Shaped(NoAck) /\ Truthful(new, NoAck) /\ Complete(new, NoAck)
    <2>1. \A m \in Responses : ~Test(NoAck, m.from, m.seqno)
        BY ResponseFields, NothingAcked DEF Covers
    <2> QED
        BY <1>5, <2>1, NothingAcked DEF Truthful, Complete
<1>7. new \notin DOMAIN requestAcks
    BY <1>2 DEF Types
<1> QED
    BY <1>2, <1>3, <1>4, <1>6, <1>7 DEF Records

LEMMA DestroyRecords ==
    ASSUME Types, Disposed, Records, Travels, NEW tag \in DOMAIN request, Destroy(tag)
    PROVE  Records'
<1>1. /\ ~request[tag].destroyed /\ DOMAIN request' = DOMAIN request
      /\ request'[tag].ack = NoAck /\ request'[tag].destroyed
      /\ \A t \in DOMAIN request : t # tag => request'[t] = request[t]
      /\ UNCHANGED <<lapsed, respond, delivered>>
    BY DEF Destroy, Types, Futures
<1>2. ASSUME NEW t, NEW a
      PROVE  (Truthful(t, a) <=> Truthful(t, a)') /\ (Complete(t, a) <=> Complete(t, a)')
    BY <1>1 DEF Truthful, Complete, Reliable
<1>3. PICK a \in Acks : a = request[tag].ack /\ Shaped(a) /\ Truthful(tag, a) /\ Complete(tag, a)
    BY <1>1 DEF Records, Types, Futures
<1>4. Shaped(NoAck) /\ Truthful(tag, NoAck)
    <2>1. \A m \in Responses : ~Test(NoAck, m.from, m.seqno)
        BY ResponseFields, NothingAcked DEF Covers
    <2> QED
        BY <2>1, NothingAcked DEF Truthful
<1>5. tag \notin DOMAIN requestAcks
    BY <1>1 DEF Records
<1>6. CASE a = NoAck
    <2>1. requestAcks' = requestAcks
        BY <1>3, <1>6 DEF Destroy
    <2> QED
        BY <1>1, <1>2, <1>3, <1>4, <1>5, <1>6, <2>1 DEF Records
<1>7. CASE a # NoAck
    <2>1. /\ DOMAIN requestAcks' = DOMAIN requestAcks \cup {tag}
          /\ requestAcks'[tag] = a
          /\ \A t \in DOMAIN requestAcks : requestAcks'[t] = requestAcks[t]
        BY <1>3, <1>5, <1>7 DEF Destroy, Put
    <2> QED
        BY <1>1, <1>2, <1>3, <1>4, <1>5, <2>1 DEF Records
<1> QED
    BY <1>6, <1>7

\* What a response to a future in the index does, in terms of admit's answer.
LEMMA Received ==
    ASSUME Types, Disposed, Records, NEW m \in Responses, NEW reliable \in BOOLEAN,
           HandleResponse(m, reliable)
    PROVE  \E t \in DOMAIN request, a \in Acks,
              A \in {Admit(request[m.tag].ack, m.from, m.seqno)} :
            /\ t = m.tag /\ t \in requests /\ a = request[t].ack /\ Shaped(a)
            /\ Truthful(t, a) /\ Complete(t, a)
            /\ A = Admit(a, m.from, m.seqno) /\ AdmitSound(a, m.from, m.seqno, A)
            /\ Reply(m, reliable, A.positive) /\ Carry(m, reliable) \in net
            /\ DOMAIN request' = DOMAIN request
            /\ \A u \in DOMAIN request : request'[u].destroyed = request[u].destroyed
            /\ request'[t].ack = IF reliable THEN A.ack ELSE a
            /\ \A u \in DOMAIN request : u # t => request'[u] = request[u]
            /\ \A o \in Responses :
                delivered'[o] = IF o = m /\ (reliable => A.fresh) THEN delivered[o] + 1
                                ELSE delivered[o]
            /\ UNCHANGED <<lapsed, respond>> /\ requestAcks' = Sweep(requestAcks)
<1>1. PICK t \in DOMAIN request : t = m.tag /\ t \in requests
    BY DEF HandleResponse, Types
<1>2. ~request[t].destroyed
    BY <1>1 DEF Disposed
<1>3. PICK a \in Acks : a = request[t].ack /\ Shaped(a) /\ Truthful(t, a) /\ Complete(t, a)
    BY <1>2 DEF Records, Types, Futures
<1>4. PICK A : A = Admit(a, m.from, m.seqno)
    OBVIOUS
<1>5. AdmitSound(a, m.from, m.seqno, A)
    BY <1>3, <1>4, ResponseFields, AdmitIsSound
<1>6. A.ack \in Acks
    BY <1>5 DEF AdmitSound
<1>7. PICK f \in Futures : f = request[t]
    BY DEF Types
<1>8. PICK g : g = IF reliable THEN [f EXCEPT !.ack = A.ack] ELSE f
    OBVIOUS
<1>9. PICK h : h = IF reliable => A.fresh THEN Stored(g) ELSE g
    OBVIOUS
<1>10. /\ g \in Futures /\ g.destroyed = f.destroyed
       /\ g.ack = IF reliable THEN A.ack ELSE a
    BY <1>3, <1>6, <1>7, <1>8, FutureFields
<1>11. h.destroyed = f.destroyed /\ h.ack = IF reliable THEN A.ack ELSE a
    BY <1>9, <1>10, NothingAcked, FutureFields
<1>12. request' = [request EXCEPT ![t] = h]
    BY <1>1, <1>3, <1>4, <1>7, <1>8, <1>9 DEF HandleResponse
<1>13. /\ DOMAIN request' = DOMAIN request
       /\ request'[t].destroyed = request[t].destroyed
       /\ request'[t].ack = IF reliable THEN A.ack ELSE a
       /\ \A u \in DOMAIN request : u # t => request'[u] = request[u]
    BY <1>7, <1>11, <1>12
<1>14. delivered' = [delivered EXCEPT ![m] = @ + (IF reliable => A.fresh THEN 1 ELSE 0)]
    BY <1>1, <1>3, <1>4 DEF HandleResponse
<1>15. \A o \in Responses :
        delivered'[o] = IF o = m /\ (reliable => A.fresh) THEN delivered[o] + 1
                        ELSE delivered[o]
    BY <1>14 DEF Types
<1>16. Reply(m, reliable, A.positive) /\ Carry(m, reliable) \in net
    BY <1>1, <1>3, <1>4 DEF HandleResponse
<1>17. UNCHANGED <<lapsed, respond>> /\ requestAcks' = Sweep(requestAcks)
    BY DEF HandleResponse
<1> QED
    BY <1>1, <1>3, <1>4, <1>5, <1>13, <1>15, <1>16, <1>17

LEMMA ReceiveRecords ==
    ASSUME Types, Disposed, Records, Travels, NEW m \in Responses, NEW reliable \in BOOLEAN,
           HandleResponse(m, reliable)
    PROVE  Records'
<1>1. PICK t \in DOMAIN request, a \in Acks,
            A \in {Admit(request[m.tag].ack, m.from, m.seqno)} :
        /\ t = m.tag /\ t \in requests /\ a = request[t].ack /\ Shaped(a)
        /\ Truthful(t, a) /\ Complete(t, a)
        /\ A = Admit(a, m.from, m.seqno) /\ AdmitSound(a, m.from, m.seqno, A)
        /\ Reply(m, reliable, A.positive) /\ Carry(m, reliable) \in net
        /\ DOMAIN request' = DOMAIN request
        /\ \A u \in DOMAIN request : request'[u].destroyed = request[u].destroyed
        /\ request'[t].ack = IF reliable THEN A.ack ELSE a
        /\ \A u \in DOMAIN request : u # t => request'[u] = request[u]
        /\ \A o \in Responses :
            delivered'[o] = IF o = m /\ (reliable => A.fresh) THEN delivered[o] + 1
                            ELSE delivered[o]
        /\ UNCHANGED <<lapsed, respond>> /\ requestAcks' = Sweep(requestAcks)
    BY Received
<1>2. ~request[t].destroyed /\ t \notin DOMAIN requestAcks
    BY <1>1 DEF Disposed, Records
<1>3. PICK b : b = request'[t].ack
    OBVIOUS
<1>4. reliable <=> Reliable(m)
    BY <1>1 DEF Travels, Reliable
<1>5. \A o \in Responses : o # m => delivered'[o] = delivered[o]
    BY <1>1
<1>6. ASSUME NEW u, u # t, NEW c
      PROVE  (Truthful(u, c) => Truthful(u, c)') /\ (Complete(u, c) => Complete(u, c)')
    BY <1>1, <1>5, <1>6 DEF Truthful, Complete, Reliable
<1>7. Shaped(b) /\ Truthful(t, b)' /\ Complete(t, b)'
    <2>1. CASE reliable
        <3>1. b = A.ack
            BY <1>1, <1>3, <2>1
        <3>2. Shaped(b)
            BY <1>1, <3>1 DEF AdmitSound
        <3>3. A.fresh => delivered[m] = 0
            <4>1. A.fresh => ~Covers(a, m.from, m.seqno)
                BY <1>1 DEF AdmitSound
            <4>2. delivered[m] \in Nat
                BY DEF Types
            <4> QED
                BY <1>1, <1>4, <2>1, <4>1, <4>2 DEF Complete
        <3>4. ASSUME NEW o \in Responses, o.tag = t, Test(b, o.from, o.seqno)
              PROVE  delivered'[o] = 1
            <4>1. Test(a, o.from, o.seqno) \/ (o.from = m.from /\ o.seqno = m.seqno /\ A.fresh)
                BY <1>1, <3>1, <3>4, ResponseFields DEF AdmitSound
            <4>2. CASE o = m
                <5>1. CASE A.fresh
                    BY <1>1, <2>1, <3>3, <4>2, <5>1
                <5>2. CASE ~A.fresh
                    <6>1. delivered[o] = 1
                        BY <1>1, <3>4, <4>1, <5>2 DEF Truthful
                    <6> QED
                        BY <1>1, <2>1, <5>2, <6>1
                <5> QED
                    BY <5>1, <5>2
            <4>3. CASE o # m
                <5>1. Test(a, o.from, o.seqno)
                    BY <1>1, <3>4, <4>1, <4>3, ResponseFields
                <5>2. delivered[o] = 1
                    BY <1>1, <3>4, <5>1 DEF Truthful
                <5> QED
                    BY <1>5, <4>3, <5>2
            <4> QED
                BY <4>2, <4>3
        <3>5. ASSUME NEW o \in Responses, o.tag = t, Reliable(o), delivered'[o] > 0
              PROVE  Covers(b, o.from, o.seqno)
            <4>1. CASE o = m /\ A.fresh
                <5>1. Test(b, m.from, m.seqno)
                    BY <1>1, <3>1, <4>1 DEF AdmitSound
                <5> QED
                    BY <4>1, <5>1 DEF Covers
            <4>2. CASE ~(o = m /\ A.fresh)
                <5>1. delivered'[o] = delivered[o]
                    BY <1>1, <2>1, <4>2
                <5>2. Covers(a, o.from, o.seqno)
                    BY <1>1, <3>5, <5>1 DEF Complete
                <5> QED
                    BY <1>1, <3>1, <5>2, ResponseFields DEF AdmitSound
            <4> QED
                BY <4>1, <4>2
        <3> QED
            BY <1>1, <3>2, <3>4, <3>5 DEF Truthful, Complete, Reliable
    <2>2. CASE ~reliable
        <3>1. b = a
            BY <1>1, <1>3, <2>2
        <3>2. delivered[m] = 0 /\ ~Reliable(m)
            BY <1>1, <1>4, <2>2 DEF Travels
        <3>3. ~Test(a, m.from, m.seqno)
            BY <1>1, <3>2 DEF Truthful
        <3>4. \A o \in Responses : o.tag = t /\ Test(a, o.from, o.seqno) => delivered'[o] = 1
            BY <1>1, <1>5, <3>3 DEF Truthful
        <3>5. \A o \in Responses : o.tag = t /\ Reliable(o) /\ delivered'[o] > 0
                => Covers(a, o.from, o.seqno)
            BY <1>1, <1>5, <3>2 DEF Complete
        <3> QED
            BY <1>1, <3>1, <3>4, <3>5 DEF Truthful, Complete, Reliable
    <2> QED
        BY <2>1, <2>2
<1>8. \A u \in DOMAIN requestAcks' : u \in DOMAIN requestAcks /\ requestAcks'[u] = requestAcks[u]
    BY <1>1 DEF Sweep, Drop
<1>9. \A u \in DOMAIN requestAcks : u \notin lapsed => u \in DOMAIN requestAcks'
    BY <1>1 DEF Sweep, Drop
<1>10. ASSUME NEW u \in DOMAIN request, NEW c, c = request'[u].ack
       PROVE  /\ Shaped(c) /\ Truthful(u, c)'
              /\ ~request'[u].destroyed => Complete(u, c)' /\ u \notin DOMAIN requestAcks'
    <2>1. CASE u = t
        BY <1>1, <1>2, <1>3, <1>7, <1>8, <1>10, <2>1
    <2>2. CASE u # t
        BY <1>1, <1>6, <1>8, <1>10, <2>2 DEF Records
    <2> QED
        BY <2>1, <2>2
<1>11. ASSUME NEW u \in DOMAIN request, request'[u].destroyed, u \notin lapsed', NEW c,
              c = (IF u \in DOMAIN requestAcks' THEN requestAcks'[u] ELSE NoAck)
       PROVE  Complete(u, c)'
    <2>1. u # t /\ u \notin lapsed /\ request[u].destroyed
        BY <1>1, <1>2, <1>11
    <2>2. Complete(u, IF u \in DOMAIN requestAcks THEN requestAcks[u] ELSE NoAck)
        BY <2>1 DEF Records
    <2>3. u \in DOMAIN requestAcks <=> u \in DOMAIN requestAcks'
        BY <1>8, <1>9, <2>1
    <2>4. CASE u \in DOMAIN requestAcks
        <3>1. Complete(u, requestAcks[u])
            BY <2>2, <2>4
        <3> QED
            BY <1>6, <1>8, <1>11, <2>1, <2>3, <2>4, <3>1
    <2>5. CASE u \notin DOMAIN requestAcks
        <3>1. Complete(u, NoAck)
            BY <2>2, <2>5
        <3> QED
            BY <1>6, <1>11, <2>1, <2>3, <2>5, <3>1
    <2> QED
        BY <2>4, <2>5
<1>12. ASSUME NEW u \in DOMAIN requestAcks', NEW c, c = requestAcks'[u]
       PROVE  Shaped(c) /\ Truthful(u, c)'
    BY <1>2, <1>6, <1>8, <1>12 DEF Records
<1> QED
    BY <1>1, <1>10, <1>11, <1>12, RecordsNext

LEMMA RecordsStep ==
    ASSUME Types, Disposed, Records, Travels, [Next]_vars PROVE Records'
<1>1. CASE Request
    BY <1>1, RequestRecords
<1>2. ASSUME NEW m \in Responses, NEW reliable \in BOOLEAN, Respond(m, reliable)
      PROVE  Records'
    <2>1. \A o \in Responses : o # m => respond'[o] = respond[o]
        BY <1>2 DEF Respond, Types
    <2>2. UNCHANGED reqVars
        BY <1>2 DEF Respond
    <2>3. respond[m] # "unsent" => \E o \in Sent : o.from = m.from /\ o.tag = m.tag /\ o.seqno = m.seqno
        BY DEF Sent
    <2>4. respond[m] = "unsent"
        BY <1>2, <2>3, ResponseFields DEF Respond
    <2>5. \A o \in Responses : delivered[o] > 0 /\ Reliable(o)' => Reliable(o)
        <3>1. delivered[m] = 0
            BY <2>4 DEF Travels
        <3>2. ASSUME NEW o \in Responses, delivered[o] > 0, Reliable(o)' PROVE Reliable(o)
            <4>1. o # m
                BY <3>1, <3>2
            <4> QED
                BY <2>1, <3>2, <4>1 DEF Reliable
        <3> QED
            BY <3>2
    <2> QED
        BY <2>2, <2>5, RecordsKept DEF reqVars
<1>3. ASSUME NEW m \in Responses, NEW reliable \in BOOLEAN, HandleOrphan(m, reliable)
      PROVE  Records'
    BY <1>3, RecordsKept DEF HandleOrphan, Reliable
<1>4. ASSUME NEW k \in tasks, Dequeue(k) PROVE Records'
    BY <1>4, RecordsKept DEF Dequeue, Reliable
<1>5. ASSUME NEW t \in DOMAIN request, NEW f \in Futures,
             request' = [request EXCEPT ![t] = f],
             f.ack = request[t].ack, f.destroyed = request[t].destroyed,
             UNCHANGED <<lapsed, requestAcks, respond, delivered>>
      PROVE  Records'
    <2>1. /\ DOMAIN request' = DOMAIN request
          /\ \A u \in DOMAIN request : /\ request'[u].ack = request[u].ack
                                       /\ request'[u].destroyed = request[u].destroyed
        BY <1>5
    <2> QED
        BY <1>5, <2>1, RecordsKept DEF Reliable
<1>6. CASE OnLivenessTimeout
    <2>1. PICK t \in DOMAIN request : t = due.tag
        BY <1>6 DEF OnLivenessTimeout, Types
    <2>2. PICK g \in Futures : g = request[t]
        BY DEF Types
    <2>3. PICK f : f = IF g.expired THEN g
                       ELSE [g EXCEPT !.task = None, !.expired = TRUE, !.err = "ErrLiveness"]
        OBVIOUS
    <2>4. f \in Futures
        BY <2>3, FutureSteps
    <2>5. f.ack = g.ack /\ f.destroyed = g.destroyed
        BY <2>3 DEF Futures
    <2>6. request' = [request EXCEPT ![t] = f]
        BY <1>6, <2>1, <2>2, <2>3 DEF OnLivenessTimeout
    <2>7. UNCHANGED <<lapsed, requestAcks, respond, delivered>>
        BY <1>6 DEF OnLivenessTimeout
    <2> QED
        BY <1>5, <2>2, <2>4, <2>5, <2>6, <2>7
<1>7. ASSUME NEW t \in DOMAIN request, MoveResponse(t) PROVE Records'
    <2>1. PICK g \in Futures : g = request[t]
        BY DEF Types
    <2>2. PICK f : f = [g EXCEPT !.stored = FALSE]
        OBVIOUS
    <2>3. f \in Futures
        BY <2>2, FutureSteps
    <2>4. f.ack = g.ack /\ f.destroyed = g.destroyed
        BY <2>2 DEF Futures
    <2>5. request' = [request EXCEPT ![t] = f]
        BY <1>7, <2>1, <2>2 DEF MoveResponse
    <2>6. UNCHANGED <<lapsed, requestAcks, respond, delivered>>
        BY <1>7 DEF MoveResponse
    <2> QED
        BY <1>5, <2>1, <2>3, <2>4, <2>5, <2>6
<1>8. ASSUME NEW t \in DOMAIN request, CancelRequest(t) PROVE Records'
    <2>1. PICK g \in Futures : g = request[t]
        BY DEF Types
    <2>2. PICK f : f = [g EXCEPT !.task = None, !.expired = TRUE, !.err = "ErrNACK",
                                 !.cancelled = TRUE]
        OBVIOUS
    <2>3. f \in Futures
        BY <2>2, FutureSteps
    <2>4. f.ack = g.ack /\ f.destroyed = g.destroyed
        BY <2>2 DEF Futures
    <2>5. request' = [request EXCEPT ![t] = f]
        BY <1>8, <2>1, <2>2 DEF CancelRequest
    <2>6. UNCHANGED <<lapsed, requestAcks, respond, delivered>>
        BY <1>8 DEF CancelRequest
    <2> QED
        BY <1>5, <2>1, <2>3, <2>4, <2>5, <2>6
<1>9. ASSUME NEW m \in Responses, OnRetransmitTick(m) PROVE Records'
    BY <1>9, RecordsKept DEF OnRetransmitTick, reqVars, Reliable
<1>10. ASSUME NEW m \in Responses, NEW positive \in BOOLEAN, HandleResponseAck(m, positive)
       PROVE  Records'
    <2>1. \A o \in Responses : Reliable(o)' => Reliable(o)
        BY <1>10 DEF HandleResponseAck, Types, Reliable
    <2> QED
        BY <1>10, <2>1, RecordsKept DEF HandleResponseAck, reqVars
<1>11. ASSUME NEW x \in net, Lose(x) PROVE Records'
    BY <1>11, RecordsKept DEF Lose, reqVars, Reliable
<1>12. ASSUME NEW t \in DOMAIN requestAcks, Expire(t) PROVE Records'
    BY <1>12, RecordsKept DEF Expire, Reliable
<1>13. CASE UNCHANGED vars
    BY <1>13, RecordsKept DEF vars, reqVars, Reliable
<1>14. \A x \in net : x.id \in Responses /\ x.flag \in BOOLEAN
    BY DEF Types
<1> QED
    BY <1>1, <1>2, <1>3, <1>4, <1>6, <1>7, <1>8, <1>9, <1>10, <1>11, <1>12, <1>13, <1>14,
       ReceiveRecords, DestroyRecords
    DEF Next, Receive, Conclude, Retransmit, TimerStep

-----------------------------------------------------------------------------
(* What travels.                                                           *)

\* Nothing that was sent is sent again, and nothing else arrives.
LEMMA TravelsKept ==
    ASSUME Travels, net' \subseteq net, DOMAIN request \subseteq DOMAIN request',
           respond' = respond, delivered' = delivered
    PROVE  Travels'
BY DEF Travels, Reliable

LEMMA ReceiveTravels ==
    ASSUME Types, Disposed, Records, Travels, NEW m \in Responses, NEW reliable \in BOOLEAN,
           HandleResponse(m, reliable)
    PROVE  Travels'
<1>1. PICK t \in DOMAIN request, a \in Acks,
            A \in {Admit(request[m.tag].ack, m.from, m.seqno)} :
        /\ t = m.tag /\ t \in requests /\ a = request[t].ack /\ Shaped(a)
        /\ Truthful(t, a) /\ Complete(t, a)
        /\ A = Admit(a, m.from, m.seqno) /\ AdmitSound(a, m.from, m.seqno, A)
        /\ Reply(m, reliable, A.positive) /\ Carry(m, reliable) \in net
        /\ DOMAIN request' = DOMAIN request
        /\ \A u \in DOMAIN request : request'[u].destroyed = request[u].destroyed
        /\ request'[t].ack = IF reliable THEN A.ack ELSE a
        /\ \A u \in DOMAIN request : u # t => request'[u] = request[u]
        /\ \A o \in Responses :
            delivered'[o] = IF o = m /\ (reliable => A.fresh) THEN delivered[o] + 1
                            ELSE delivered[o]
        /\ UNCHANGED <<lapsed, respond>> /\ requestAcks' = Sweep(requestAcks)
    BY Received
<1>2. \A o \in Responses : o # m => delivered'[o] = delivered[o]
    BY <1>1
<1>3. CASE reliable
    <2>1. Reliable(m)
        BY <1>1, <1>3 DEF Travels
    <2>2. A.fresh => delivered[m] = 0
        <3>1. A.fresh => ~Covers(a, m.from, m.seqno)
            BY <1>1 DEF AdmitSound
        <3>2. delivered[m] \in Nat
            BY DEF Types
        <3> QED
            BY <1>1, <2>1, <3>1, <3>2 DEF Complete
    <2>3. A.positive /\ ~A.fresh => delivered[m] = 1
        BY <1>1 DEF AdmitSound, Truthful
    <2>4. /\ delivered'[m] <= 1
          /\ delivered[m] = 1 => delivered'[m] = 1
          /\ A.positive => delivered'[m] = 1
        <3>1. CASE A.fresh
            BY <1>1, <1>3, <2>2, <3>1
        <3>2. CASE ~A.fresh
            <4>1. delivered'[m] = delivered[m]
                BY <1>1, <1>3, <3>2
            <4> QED
                BY <2>3, <3>2, <4>1 DEF Travels
        <3> QED
            BY <3>1, <3>2
    <2>5. net' = (net \ {Carry(m, TRUE)}) \cup {Answer(m, A.positive)}
        BY <1>1, <1>3 DEF Reply
    <2>6. ASSUME NEW o \in Responses
          PROVE  /\ Carry(o, FALSE) \in net' => Carry(o, FALSE) \in net
                 /\ Carry(o, TRUE) \in net' => Carry(o, TRUE) \in net
                 /\ Answer(o, TRUE) \in net' => Answer(o, TRUE) \in net \/ (o = m /\ A.positive)
        BY <2>5 DEF Carry, Answer
    <2>7. ASSUME NEW o \in Responses, o # m
          PROVE  delivered'[o] = delivered[o] /\ respond'[o] = respond[o]
        BY <1>1, <1>2, <2>7
    <2> QED
        BY <1>1, <2>1, <2>4, <2>6, <2>7 DEF Travels, Reliable
<1>4. CASE ~reliable
    <2>1. respond[m] = "best-effort" /\ delivered[m] = 0
        BY <1>1, <1>4 DEF Travels
    <2>2. delivered'[m] = 1
        BY <1>1, <1>4, <2>1
    <2>3. net' = net \ {Carry(m, FALSE)}
        BY <1>1, <1>4 DEF Reply
    <2>4. Carry(m, FALSE) \notin net'
        BY <2>3
    <2>5. net' \subseteq net /\ respond' = respond /\ DOMAIN request' = DOMAIN request
        BY <1>1, <2>3
    <2>6. ASSUME NEW o \in Responses
          PROVE  /\ delivered'[o] <= 1
                 /\ respond[o] = "unsent" => delivered'[o] = 0
                 /\ Carry(o, FALSE) \in net' => respond[o] = "best-effort" /\ delivered'[o] = 0
                 /\ Answer(o, TRUE) \in net \/ respond[o] = "OK" => Reliable(o) /\ delivered'[o] = 1
        <3>1. CASE o = m
            <4>1. ~(Answer(m, TRUE) \in net \/ respond[m] = "OK")
                BY <2>1 DEF Travels, Carry, Answer, Reliable
            <4> QED
                BY <2>1, <2>2, <2>4, <3>1, <4>1 DEF Carry, Answer
        <3>2. CASE o # m
            BY <1>2, <2>5, <3>2 DEF Travels
        <3> QED
            BY <3>1, <3>2
    <2> QED
        BY <2>5, <2>6 DEF Travels, Reliable
<1> QED
    BY <1>3, <1>4

LEMMA OrphanTravels ==
    ASSUME Types, Records, Travels, NEW m \in Responses, NEW reliable \in BOOLEAN,
           HandleOrphan(m, reliable)
    PROVE  Travels'
<1>1. PICK positive \in BOOLEAN :
        /\ Reply(m, reliable, positive)
        /\ positive => m.tag \in DOMAIN requestAcks /\ Test(requestAcks[m.tag], m.from, m.seqno)
    BY DEF HandleOrphan
<1>2. Carry(m, reliable) \in net /\ UNCHANGED <<request, respond, delivered>>
    BY DEF HandleOrphan
<1>3. positive => delivered[m] = 1
    BY <1>1 DEF Records, Truthful
<1>4. CASE reliable
    <2>1. Reliable(m)
        BY <1>2, <1>4 DEF Travels, Carry
    <2>2. net' = (net \ {Carry(m, TRUE)}) \cup {Answer(m, positive)}
        BY <1>1, <1>4 DEF Reply
    <2>3. ASSUME NEW o \in Responses
          PROVE  /\ Carry(o, FALSE) \in net' => Carry(o, FALSE) \in net
                 /\ Carry(o, TRUE) \in net' => Carry(o, TRUE) \in net
                 /\ Answer(o, TRUE) \in net' => Answer(o, TRUE) \in net \/ (o = m /\ positive)
        BY <2>2 DEF Carry, Answer
    <2> QED
        BY <1>2, <1>3, <2>1, <2>3 DEF Travels, Reliable
<1>5. CASE ~reliable
    <2>1. net' \subseteq net
        BY <1>1, <1>5 DEF Reply
    <2> QED
        BY <1>2, <2>1, TravelsKept
<1> QED
    BY <1>4, <1>5

LEMMA RespondTravels ==
    ASSUME Types, Travels, NEW m \in Responses, NEW reliable \in BOOLEAN, Respond(m, reliable)
    PROVE  Travels'
<1>1. respond[m] # "unsent" => \E o \in Sent : o.from = m.from /\ o.tag = m.tag /\ o.seqno = m.seqno
    BY DEF Sent
<1>2. respond[m] = "unsent" /\ m.tag \in DOMAIN request /\ UNCHANGED <<request, delivered>>
    BY <1>1, ResponseFields DEF Respond, reqVars
<1>3. /\ respond' = [respond EXCEPT ![m] = IF reliable THEN "pending" ELSE "best-effort"]
      /\ net' = net \cup {Carry(m, reliable)}
    BY DEF Respond
<1>4. /\ Carry(m, FALSE) \notin net /\ Carry(m, TRUE) \notin net /\ Answer(m, TRUE) \notin net
      /\ delivered[m] = 0
    BY <1>2 DEF Travels, Reliable, Carry, Answer
<1>5. respond'[m] = (IF reliable THEN "pending" ELSE "best-effort")
    BY <1>3 DEF Types
<1>6. ASSUME NEW o \in Responses, o # m
      PROVE  /\ respond'[o] = respond[o]
             /\ \A b \in BOOLEAN : Carry(o, b) \in net' => Carry(o, b) \in net
             /\ \A b \in BOOLEAN : Answer(o, b) \in net' => Answer(o, b) \in net
    BY <1>3, <1>6 DEF Types, Carry, Answer
<1>7. /\ Answer(m, TRUE) \notin net'
      /\ Carry(m, FALSE) \in net' => ~reliable
      /\ Carry(m, TRUE) \in net' => reliable
    BY <1>3, <1>4 DEF Carry, Answer
<1>8. ASSUME NEW o \in Responses
      PROVE  /\ delivered[o] <= 1
             /\ respond'[o] # "unsent" => o.tag \in DOMAIN request
             /\ respond'[o] = "unsent" => delivered[o] = 0
             /\ Carry(o, FALSE) \in net' => respond'[o] = "best-effort" /\ delivered[o] = 0
             /\ Carry(o, TRUE) \in net' => Reliable(o)'
             /\ Answer(o, TRUE) \in net' \/ respond'[o] = "OK" => Reliable(o)' /\ delivered[o] = 1
    <2>1. CASE o = m
        BY <1>2, <1>4, <1>5, <1>7, <2>1 DEF Reliable, Carry, Answer
    <2>2. CASE o # m
        BY <1>6, <2>2 DEF Travels, Reliable, Carry, Answer
    <2> QED
        BY <2>1, <2>2
<1> QED
    BY <1>2, <1>8 DEF Travels

LEMMA TravelsStep ==
    ASSUME Types, Disposed, Records, Travels, [Next]_vars PROVE Travels'
<1>1. ASSUME NEW m \in Responses, OnRetransmitTick(m) PROVE Travels'
    <2>1. /\ Reliable(m) /\ net' = net \cup {Carry(m, TRUE)}
          /\ UNCHANGED <<request, respond, delivered>>
        BY <1>1 DEF OnRetransmitTick, reqVars, Reliable
    <2>2. ASSUME NEW o \in Responses
          PROVE  /\ Carry(o, FALSE) \in net' => Carry(o, FALSE) \in net
                 /\ Carry(o, TRUE) \in net' => Carry(o, TRUE) \in net \/ o = m
                 /\ Answer(o, TRUE) \in net' => Answer(o, TRUE) \in net
        BY <2>1 DEF Carry, Answer
    <2> QED
        BY <2>1, <2>2 DEF Travels, Reliable
<1>2. ASSUME NEW m \in Responses, NEW positive \in BOOLEAN, HandleResponseAck(m, positive)
      PROVE  Travels'
    <2>1. /\ Answer(m, positive) \in net /\ net' \subseteq net
          /\ UNCHANGED <<request, delivered>>
          /\ respond' = [respond EXCEPT ![m] =
                IF @ # "pending" THEN @ ELSE IF positive THEN "OK" ELSE "ErrNACK"]
        BY <1>2 DEF HandleResponseAck, reqVars
    <2>2. \A o \in Responses :
            /\ Reliable(o) <=> Reliable(o)'
            /\ respond[o] = "unsent" <=> respond'[o] = "unsent"
            /\ respond[o] = "best-effort" <=> respond'[o] = "best-effort"
            /\ respond'[o] = "OK" => respond[o] = "OK" \/ (o = m /\ positive)
        BY <2>1 DEF Types, Reliable
    <2>3. positive => Reliable(m) /\ delivered[m] = 1
        BY <2>1 DEF Travels, Answer
    <2> QED
        BY <2>1, <2>2, <2>3 DEF Travels
<1>3. ASSUME NEW x \in net, Lose(x) PROVE Travels'
    BY <1>3, TravelsKept DEF Lose, reqVars
<1>4. CASE Request
    BY <1>4, TravelsKept DEF Request, Put
<1>5. CASE \E k \in tasks : Dequeue(k)
    BY <1>5, TravelsKept DEF Dequeue
<1>6. CASE OnLivenessTimeout
    BY <1>6, TravelsKept DEF OnLivenessTimeout
<1>7. CASE \E t \in DOMAIN request : MoveResponse(t) \/ CancelRequest(t) \/ Destroy(t)
    BY <1>7, TravelsKept DEF MoveResponse, CancelRequest, Destroy
<1>8. CASE \E t \in DOMAIN requestAcks : Expire(t)
    BY <1>8, TravelsKept DEF Expire
<1>9. CASE UNCHANGED vars
    BY <1>9, TravelsKept DEF vars, reqVars
<1>10. \A x \in net : x.id \in Responses /\ x.flag \in BOOLEAN
    BY DEF Types
<1> QED
    BY <1>1, <1>2, <1>3, <1>4, <1>5, <1>6, <1>7, <1>8, <1>9, <1>10,
       ReceiveTravels, OrphanTravels, RespondTravels
    DEF Next, Receive, Conclude, Retransmit, TimerStep

-----------------------------------------------------------------------------
(* The reasons to refuse.                                                  *)

\* The top of a window was delivered, so what is older than the window is too old.
LEMMA TopDelivered ==
    ASSUME Types, NEW m \in Responses, NEW a \in Acks, Shaped(a), Truthful(m.tag, a),
           m.from \in DOMAIN a.tree, a.tree[m.from].top >= m.seqno + History
    PROVE  TooOld(m)
<1>1. a.solo = None
    BY DEF Shaped
<1>2. PICK top : top = a.tree[m.from].top
    OBVIOUS
<1>3. top \in 0..MaxSeqno[m.from] /\ 0 \in a.tree[m.from].acked
    <2>1. a.tree[m.from] \in Windows
        BY AckFields
    <2>2. top \in Nat
        BY <1>2, <2>1 DEF Windows
    <2> QED
        BY <1>2, <2>2, ResponseFields DEF Shaped
<1>4. PICK o \in Responses : o.from = m.from /\ o.tag = m.tag /\ o.seqno = top
    BY <1>3, ResponseFields, ResponseOf
<1>5. Test(a, o.from, o.seqno)
    BY <1>1, <1>2, <1>3, <1>4 DEF Test
<1>6. delivered[o] = 1
    BY <1>4, <1>5 DEF Truthful
<1> QED
    BY <1>2, <1>4, <1>6 DEF TooOld

LEMMA RefusedByWindow ==
    ASSUME Types, Disposed, Records, Travels, NEW m \in Responses, NEW reliable \in BOOLEAN,
           HandleResponse(m, reliable)
    PROVE  /\ respond' = respond
           /\ \A o \in Responses : Answer(o, FALSE) \in net' =>
                Answer(o, FALSE) \in net \/ (o = m /\ Reliable(m) /\ Refusable(m))
<1>1. PICK t \in DOMAIN request, a \in Acks,
            A \in {Admit(request[m.tag].ack, m.from, m.seqno)} :
        /\ t = m.tag /\ Shaped(a) /\ Truthful(t, a)
        /\ AdmitSound(a, m.from, m.seqno, A)
        /\ Reply(m, reliable, A.positive) /\ Carry(m, reliable) \in net /\ respond' = respond
    BY Received
<1>2. reliable => Reliable(m)
    BY <1>1 DEF Travels, Carry
<1>3. ~A.positive => TooOld(m)
    BY <1>1, TopDelivered DEF AdmitSound
<1>4. ASSUME NEW o \in Responses, Answer(o, FALSE) \in net'
      PROVE  Answer(o, FALSE) \in net \/ (o = m /\ reliable /\ ~A.positive)
    BY <1>1, <1>4 DEF Reply, Answer
<1> QED
    BY <1>1, <1>2, <1>3, <1>4 DEF Refusable

LEMMA RefusedByRecord ==
    ASSUME Types, Disposed, Records, Travels, NEW m \in Responses, NEW reliable \in BOOLEAN,
           HandleOrphan(m, reliable)
    PROVE  /\ respond' = respond
           /\ \A o \in Responses : Answer(o, FALSE) \in net' =>
                Answer(o, FALSE) \in net \/ (o = m /\ Reliable(m) /\ Refusable(m))
<1>1. PICK positive \in BOOLEAN :
        /\ Reply(m, reliable, positive)
        /\ positive <=> m.tag \in DOMAIN requestAcks /\ Test(requestAcks[m.tag], m.from, m.seqno)
    BY DEF HandleOrphan
<1>2. Carry(m, reliable) \in net /\ m.tag \notin requests /\ respond' = respond
    BY DEF HandleOrphan
<1>3. reliable => Reliable(m) /\ m.tag \in DOMAIN request
    BY <1>2 DEF Travels, Carry, Reliable
<1>4. ASSUME reliable, ~positive PROVE Refusable(m)
    <2>1. CASE delivered[m] = 0 \/ request[m.tag].cancelled \/ m.tag \in lapsed
        BY <1>2, <2>1 DEF Refusable
    <2>2. CASE ~(delivered[m] = 0 \/ request[m.tag].cancelled \/ m.tag \in lapsed)
        <3>1. request[m.tag].destroyed /\ m.tag \notin lapsed /\ delivered[m] > 0
            BY <1>2, <1>3, <1>4, <2>2 DEF Disposed, Types
        <3>2. PICK a : a = IF m.tag \in DOMAIN requestAcks THEN requestAcks[m.tag] ELSE NoAck
            OBVIOUS
        <3>3. Complete(m.tag, a)
            BY <1>3, <1>4, <3>1, <3>2 DEF Records
        <3>4. Covers(a, m.from, m.seqno)
            BY <1>3, <1>4, <3>1, <3>3 DEF Complete
        <3>5. m.tag \in DOMAIN requestAcks /\ a = requestAcks[m.tag]
            BY <3>2, <3>4, ResponseFields, NothingAcked
        <3>6. a \in Acks /\ Shaped(a) /\ Truthful(m.tag, a)
            BY <3>5 DEF Types, Records
        <3>7. m.from \in DOMAIN a.tree /\ m.seqno + History <= a.tree[m.from].top
            BY <1>1, <1>4, <3>4, <3>5 DEF Covers
        <3>8. a.tree[m.from].top >= m.seqno + History
            <4>1. a.tree[m.from] \in Windows
                BY <3>6, <3>7, AckFields
            <4>2. a.tree[m.from].top \in Nat
                BY <4>1 DEF Windows
            <4> QED
                BY <3>7, <4>2, ResponseFields, RpcAssumption
        <3> QED
            BY <3>6, <3>7, <3>8, TopDelivered DEF Refusable
    <2> QED
        BY <2>1, <2>2
<1>5. ASSUME NEW o \in Responses, Answer(o, FALSE) \in net'
      PROVE  Answer(o, FALSE) \in net \/ (o = m /\ reliable /\ ~positive)
    BY <1>1, <1>5 DEF Reply, Answer
<1> QED
    BY <1>2, <1>3, <1>4, <1>5

\* A reason that held before a step holds after it.
LEMMA ReasonsStay ==
    ASSUME Types, Disposed, Records, Travels, [Next]_vars,
           NEW m \in Responses, Reliable(m), Refusable(m)
    PROVE  Reliable(m)' /\ Refusable(m)'
<1>1. m.tag \in DOMAIN request
    BY DEF Travels, Reliable
<1>2. \A o \in Responses : delivered[o] \in Nat /\ delivered'[o] \in Nat
    BY TypesStep DEF Types
<1>3. ASSUME \A o \in Responses : delivered'[o] >= delivered[o],
             m.tag \notin requests => m.tag \notin requests' /\ delivered'[m] = delivered[m],
             request[m.tag].cancelled /\ m.tag \notin requests => request'[m.tag].cancelled,
             lapsed \subseteq lapsed', Reliable(m)'
      PROVE  Reliable(m)' /\ Refusable(m)'
    <2>1. CASE TooOld(m)
        <3>1. PICK o \in Responses : /\ o.from = m.from /\ o.tag = m.tag
                                     /\ o.seqno >= m.seqno + History /\ delivered[o] > 0
            BY <2>1 DEF TooOld
        <3>2. delivered'[o] > 0
            BY <1>2, <1>3, <3>1
        <3> QED
            BY <1>3, <3>1, <3>2 DEF TooOld, Refusable
    <2>2. CASE ~TooOld(m)
        BY <1>3, <2>2 DEF Refusable
    <2> QED
        BY <2>1, <2>2
<1>4. \A o \in Responses : delivered[o] >= delivered[o]
    BY DEF Types
<1>5. CASE UNCHANGED <<request, requests, lapsed, respond, delivered>>
    BY <1>3, <1>4, <1>5 DEF Reliable
<1>6. CASE Request
    <2>1. /\ UNCHANGED <<lapsed, respond, delivered>>
          /\ m.tag # nextRequestTag /\ requests' = requests \cup {nextRequestTag}
          /\ request'[m.tag] = request[m.tag]
        BY <1>1, <1>6 DEF Request, Put, Types
    <2> QED
        BY <1>3, <1>4, <2>1 DEF Reliable
<1>7. ASSUME NEW o \in Responses, NEW reliable \in BOOLEAN, Respond(o, reliable)
      PROVE  Reliable(m)' /\ Refusable(m)'
    <2>1. UNCHANGED reqVars /\ (Reliable(m)' \/ o = m)
        <3>1. /\ UNCHANGED reqVars
              /\ respond' = [respond EXCEPT ![o] = IF reliable THEN "pending" ELSE "best-effort"]
            BY <1>7 DEF Respond
        <3>2. o # m => respond'[m] = respond[m]
            BY <3>1 DEF Types
        <3> QED
            BY <3>1, <3>2 DEF Reliable
    <2>2. respond[o] # "unsent" => \E n \in Sent : n.from = o.from /\ n.tag = o.tag /\ n.seqno = o.seqno
        BY DEF Sent
    <2>3. respond[o] = "unsent"
        BY <1>7, <2>2, ResponseFields DEF Respond
    <2>4. Reliable(m)'
        BY <2>1, <2>3 DEF Reliable
    <2> QED
        BY <1>3, <1>4, <2>1, <2>4 DEF reqVars
<1>8. ASSUME NEW o \in Responses, NEW reliable \in BOOLEAN, HandleResponse(o, reliable)
      PROVE  Reliable(m)' /\ Refusable(m)'
    <2>1. PICK t \in DOMAIN request, a \in Acks,
                A \in {Admit(request[o.tag].ack, o.from, o.seqno)} :
            /\ t = o.tag /\ t \in requests
            /\ \A u \in DOMAIN request : u # t => request'[u] = request[u]
            /\ \A n \in Responses :
                delivered'[n] = IF n = o /\ (reliable => A.fresh) THEN delivered[n] + 1
                                ELSE delivered[n]
            /\ UNCHANGED <<lapsed, respond>>
        BY <1>8, Received
    <2>2. requests' = requests
        BY <1>8 DEF HandleResponse
    <2>3. \A n \in Responses : delivered'[n] >= delivered[n]
        BY <2>1 DEF Types
    <2>4. m.tag \notin requests =>
            m.tag # t /\ delivered'[m] = delivered[m] /\ request'[m.tag] = request[m.tag]
        BY <1>1, <2>1
    <2> QED
        BY <1>3, <2>1, <2>2, <2>3, <2>4 DEF Reliable
<1>9. ASSUME NEW o \in Responses, NEW positive \in BOOLEAN, HandleResponseAck(o, positive)
      PROVE  Reliable(m)' /\ Refusable(m)'
    <2>1. Reliable(m)' /\ UNCHANGED reqVars
        BY <1>9 DEF HandleResponseAck, Types, Reliable
    <2> QED
        BY <1>3, <1>4, <2>1 DEF reqVars
<1>10. ASSUME NEW t \in DOMAIN request, NEW f \in Futures,
              request' = [request EXCEPT ![t] = f],
              request[t].cancelled => f.cancelled,
              requests' \subseteq requests, UNCHANGED <<lapsed, respond, delivered>>
       PROVE  Reliable(m)' /\ Refusable(m)'
    <2>1. request[m.tag].cancelled => request'[m.tag].cancelled
        BY <1>1, <1>10 DEF Types
    <2> QED
        BY <1>3, <1>4, <1>10, <2>1 DEF Reliable
<1>11. CASE OnLivenessTimeout
    <2>1. PICK t \in DOMAIN request : t = due.tag
        BY <1>11 DEF OnLivenessTimeout, Types
    <2>2. PICK g \in Futures : g = request[t]
        BY DEF Types
    <2>3. PICK f : f = IF g.expired THEN g
                       ELSE [g EXCEPT !.task = None, !.expired = TRUE, !.err = "ErrLiveness"]
        OBVIOUS
    <2>4. f \in Futures
        BY <2>3, FutureSteps
    <2>5. g.cancelled => f.cancelled
        BY <2>3 DEF Futures
    <2>6. request' = [request EXCEPT ![t] = f]
        BY <1>11, <2>1, <2>2, <2>3 DEF OnLivenessTimeout
    <2>7. UNCHANGED <<requests, lapsed, respond, delivered>>
        BY <1>11 DEF OnLivenessTimeout
    <2> QED
        BY <1>10, <2>2, <2>4, <2>5, <2>6, <2>7
<1>12. ASSUME NEW t \in DOMAIN request, MoveResponse(t) PROVE Reliable(m)' /\ Refusable(m)'
    <2>1. PICK g \in Futures : g = request[t]
        BY DEF Types
    <2>2. PICK f : f = [g EXCEPT !.stored = FALSE]
        OBVIOUS
    <2>3. f \in Futures
        BY <2>2, FutureSteps
    <2>4. g.cancelled => f.cancelled
        BY <2>2 DEF Futures
    <2>5. request' = [request EXCEPT ![t] = f]
        BY <1>12, <2>1, <2>2 DEF MoveResponse
    <2>6. UNCHANGED <<requests, lapsed, respond, delivered>>
        BY <1>12 DEF MoveResponse
    <2> QED
        BY <1>10, <2>1, <2>3, <2>4, <2>5, <2>6
<1>13. ASSUME NEW t \in DOMAIN request, CancelRequest(t) PROVE Reliable(m)' /\ Refusable(m)'
    <2>1. PICK g \in Futures : g = request[t]
        BY DEF Types
    <2>2. PICK f : f = [g EXCEPT !.task = None, !.expired = TRUE, !.err = "ErrNACK",
                                 !.cancelled = TRUE]
        OBVIOUS
    <2>3. f \in Futures
        BY <2>2, FutureSteps
    <2>4. f.cancelled
        BY <2>2 DEF Futures
    <2>5. request' = [request EXCEPT ![t] = f]
        BY <1>13, <2>1, <2>2 DEF CancelRequest
    <2>6. requests' \subseteq requests /\ UNCHANGED <<lapsed, respond, delivered>>
        BY <1>13 DEF CancelRequest
    <2> QED
        BY <1>10, <2>3, <2>4, <2>5, <2>6
<1>14. ASSUME NEW t \in DOMAIN request, Destroy(t) PROVE Reliable(m)' /\ Refusable(m)'
    <2>1. PICK g \in Futures : g = request[t]
        BY DEF Types
    <2>2. PICK f : f = [g EXCEPT !.task = None, !.expired = TRUE, !.ack = NoAck,
                                 !.destroyed = TRUE]
        OBVIOUS
    <2>3. f \in Futures
        BY <2>2, FutureSteps
    <2>4. g.cancelled => f.cancelled
        BY <2>2 DEF Futures
    <2>5. request' = [request EXCEPT ![t] = f]
        BY <1>14, <2>1, <2>2 DEF Destroy
    <2>6. requests' \subseteq requests /\ UNCHANGED <<lapsed, respond, delivered>>
        BY <1>14 DEF Destroy
    <2> QED
        BY <1>10, <2>1, <2>3, <2>4, <2>5, <2>6
<1>15. ASSUME NEW t \in DOMAIN requestAcks, Expire(t) PROVE Reliable(m)' /\ Refusable(m)'
    <2>1. lapsed \subseteq lapsed' /\ UNCHANGED <<request, requests, respond, delivered>>
        BY <1>15 DEF Expire
    <2> QED
        BY <1>3, <1>4, <2>1 DEF Reliable
<1>16. \A x \in net : x.id \in Responses /\ x.flag \in BOOLEAN
    BY DEF Types
<1>17. CASE \E x \in net : HandleOrphan(x.id, x.flag)
    BY <1>5, <1>17 DEF HandleOrphan
<1>18. CASE Retransmit
    BY <1>5, <1>18 DEF Retransmit, OnRetransmitTick, reqVars
<1>19. CASE \E k \in tasks : Dequeue(k)
    BY <1>5, <1>19 DEF Dequeue
<1>20. CASE \E x \in net : Lose(x)
    BY <1>5, <1>20 DEF Lose, reqVars
<1>21. CASE UNCHANGED vars
    BY <1>5, <1>21 DEF vars, reqVars
<1> QED
    BY <1>6, <1>7, <1>8, <1>9, <1>11, <1>12, <1>13, <1>14, <1>15, <1>16, <1>17, <1>18,
       <1>19, <1>20, <1>21
    DEF Next, Receive, Conclude, TimerStep

LEMMA RefusedStep ==
    ASSUME Types, Disposed, Records, Travels, Refused, [Next]_vars PROVE Refused'
<1>1. ASSUME NEW m \in Responses, Answer(m, FALSE) \in net' \/ respond'[m] = "ErrNACK",
             Answer(m, FALSE) \in net \/ respond[m] = "ErrNACK"
      PROVE  Reliable(m)' /\ Refusable(m)'
    BY <1>1, ReasonsStay DEF Refused
<1>2. ASSUME NEW o \in Responses, NEW m \in Responses, NEW reliable \in BOOLEAN,
             HandleResponse(o, reliable) \/ HandleOrphan(o, reliable),
             Answer(m, FALSE) \in net' \/ respond'[m] = "ErrNACK"
      PROVE  Reliable(m)' /\ Refusable(m)'
    <2>1. /\ respond' = respond
          /\ Answer(m, FALSE) \in net' =>
                Answer(m, FALSE) \in net \/ (m = o /\ Reliable(o) /\ Refusable(o))
        BY <1>2, RefusedByWindow, RefusedByRecord
    <2> QED
        BY <1>1, <1>2, <2>1, ReasonsStay
<1>3. ASSUME NEW o \in Responses, NEW m \in Responses, NEW positive \in BOOLEAN,
             HandleResponseAck(o, positive),
             Answer(m, FALSE) \in net' \/ respond'[m] = "ErrNACK"
      PROVE  Reliable(m)' /\ Refusable(m)'
    <2>1. net' \subseteq net
        BY <1>3 DEF HandleResponseAck
    <2>2. respond'[m] = "ErrNACK" => respond[m] = "ErrNACK" \/ Answer(m, FALSE) \in net
        <3>1. /\ Answer(o, positive) \in net
              /\ respond' = [respond EXCEPT ![o] =
                    IF @ # "pending" THEN @ ELSE IF positive THEN "OK" ELSE "ErrNACK"]
            BY <1>3 DEF HandleResponseAck
        <3> QED
            BY <3>1 DEF Types, Answer
    <2> QED
        BY <1>1, <1>3, <2>1, <2>2
<1>4. ASSUME \A m \in Responses : /\ Answer(m, FALSE) \in net' => Answer(m, FALSE) \in net
                                  /\ respond'[m] = "ErrNACK" => respond[m] = "ErrNACK"
      PROVE  Refused'
    BY <1>1, <1>4 DEF Refused
<1>5. ASSUME NEW o \in Responses, NEW reliable \in BOOLEAN, Respond(o, reliable)
      PROVE  Refused'
    <2>1. /\ net' = net \cup {Carry(o, reliable)}
          /\ respond' = [respond EXCEPT ![o] = IF reliable THEN "pending" ELSE "best-effort"]
        BY <1>5 DEF Respond
    <2>2. \A m \in Responses : Answer(m, FALSE) \in net' => Answer(m, FALSE) \in net
        BY <2>1 DEF Carry, Answer
    <2>3. \A m \in Responses : respond'[m] = "ErrNACK" => respond[m] = "ErrNACK"
        BY <2>1 DEF Types
    <2> QED
        BY <1>4, <2>2, <2>3
<1>6. ASSUME NEW o \in Responses, OnRetransmitTick(o) PROVE Refused'
    <2>1. \A m \in Responses : Answer(m, FALSE) \in net' => Answer(m, FALSE) \in net
        BY <1>6 DEF OnRetransmitTick, Carry, Answer
    <2> QED
        BY <1>4, <1>6, <2>1 DEF OnRetransmitTick
<1>7. CASE Request
    BY <1>4, <1>7 DEF Request
<1>8. CASE TimerStep
    BY <1>4, <1>8 DEF TimerStep, Dequeue, OnLivenessTimeout
<1>9. CASE \E t \in DOMAIN request : MoveResponse(t) \/ CancelRequest(t) \/ Destroy(t)
    BY <1>4, <1>9 DEF MoveResponse, CancelRequest, Destroy
<1>10. CASE \E x \in net : Lose(x)
    BY <1>4, <1>10 DEF Lose
<1>11. CASE \E t \in DOMAIN requestAcks : Expire(t)
    BY <1>4, <1>11 DEF Expire
<1>12. CASE UNCHANGED vars
    BY <1>4, <1>12 DEF vars
<1>13. \A x \in net : x.id \in Responses /\ x.flag \in BOOLEAN
    BY DEF Types
<1>14. CASE Receive
    <2>1. PICK o \in Responses, reliable \in BOOLEAN :
            HandleResponse(o, reliable) \/ HandleOrphan(o, reliable)
        BY <1>13, <1>14 DEF Receive
    <2> QED
        BY <1>2, <2>1 DEF Refused
<1>15. CASE Conclude
    <2>1. PICK o \in Responses, positive \in BOOLEAN : HandleResponseAck(o, positive)
        BY <1>13, <1>15 DEF Conclude
    <2> QED
        BY <1>3, <2>1 DEF Refused
<1> QED
    BY <1>5, <1>6, <1>7, <1>8, <1>9, <1>10, <1>11, <1>12, <1>14, <1>15
    DEF Next, Retransmit

-----------------------------------------------------------------------------
LEMMA InductiveInvariant == Spec => []IInv
<1>1. Init => IInv
    <2> SUFFICES ASSUME Init PROVE IInv
        OBVIOUS
    <2>1. Types /\ Disposed
        BY TypesInit
    <2>2. DOMAIN request = {} /\ DOMAIN requestAcks = {} /\ net = {}
        BY DEF Init
    <2>3. \A m \in Responses : respond[m] = "unsent" /\ delivered[m] = 0
        BY DEF Init
    <2>4. Records
        BY <2>2 DEF Records
    <2>5. Travels
        BY <2>2, <2>3 DEF Travels
    <2>6. Refused
        BY <2>2, <2>3 DEF Refused
    <2> QED
        BY <2>1, <2>4, <2>5, <2>6 DEF IInv
<1>2. IInv /\ [Next]_vars => IInv'
    <2> SUFFICES ASSUME IInv, [Next]_vars PROVE IInv'
        OBVIOUS
    <2>1. Types /\ Disposed /\ Records /\ Travels /\ Refused
        BY DEF IInv
    <2>2. Types' /\ Disposed'
        BY <2>1, TypesStep
    <2>3. Records' /\ Travels' /\ Refused'
        BY <2>1, RecordsStep, TravelsStep, RefusedStep
    <2> QED
        BY <2>2, <2>3 DEF IInv
<1> QED
    BY <1>1, <1>2, PTL DEF Spec

LEMMA TypesSuffice == Types => TypeOK
<1> SUFFICES ASSUME Types PROVE TypeOK
    OBVIOUS
<1> USE DEF Types
<1>1. ASSUME NEW t \in DOMAIN request
      PROVE  /\ request[t].err \in {"OK", "ErrLiveness", "ErrNACK"}
             /\ request[t].task \in Nat \cup {None}
             /\ \A b \in UNION {w.acked : w \in Range(request[t].ack.tree)} :
                    b \in 0..(History - 1)
    <2>1. PICK f \in Futures : f = request[t]
        OBVIOUS
    <2>2. PICK tree : tree = f.ack.tree
        OBVIOUS
    <2>3. f.ack \in Acks /\ f.err \in {"OK", "ErrLiveness", "ErrNACK"} /\ f.task \in Nat \cup {None}
        BY DEF Futures
    <2>4. \A r \in DOMAIN tree : tree[r] \in Windows
        BY <2>2, <2>3, AckFields
    <2>5. \A w \in Range(tree) : w.acked \in SUBSET (0..(History - 1))
        BY <2>4 DEF Range, Windows
    <2> QED
        BY <2>1, <2>2, <2>3, <2>5
<1> QED
    BY <1>1 DEF TypeOK

\* A response reaches the application at most once: handleResponseCorrelation asks the
\* record of what was acknowledged before it delivers, and the record speaks for all
\* that was delivered.  And sendResponseReliable reports success only for a response
\* that was delivered, whichever record answered for it.
THEOREM RpcDeliveredOnce == Spec => []DeliveredOnce
<1>1. IInv => DeliveredOnce
    <2> SUFFICES ASSUME IInv PROVE DeliveredOnce
        OBVIOUS
    <2>1. TypeOK
        BY TypesSuffice DEF IInv
    <2>2. \A m \in Responses : delivered[m] <= 1 /\ (respond[m] = "OK" => delivered[m] = 1)
        BY DEF IInv, Travels
    <2> QED
        BY <2>1, <2>2 DEF DeliveredOnce
<1> QED
    BY <1>1, InductiveInvariant, PTL

\* handleResponseCorrelation refuses a response only for a reason, and the reason stays:
\* the window has moved past it, or the request is gone and the response was not
\* delivered, its request was cancelled or its record has lapsed.
THEOREM RpcNackJustified == Spec => []NackJustified
<1>1. IInv => NackJustified
    BY DEF IInv, Refused, Refusable, TooOld, NackJustified
<1> QED
    BY <1>1, InductiveInvariant, PTL

\* Cancel and Destroy take the future out of the index and mark its deadline as gone:
\* handleResponseCorrelation does not find it any more and onLivenessTimeout returns at once,
\* so no response and no timer of its own changes what it holds.
THEOREM RpcDisposedSilent == Spec => DisposedSilent
<1>1. ASSUME IInv, [Next]_vars, NEW t \in DOMAIN request,
             request[t].cancelled \/ request[t].destroyed
      PROVE  /\ request[t].expired /\ request'[t].expired
             /\ \/ request'[t].err = request[t].err
                \/ request'[t].cancelled # request[t].cancelled
             /\ request'[t].stored => request[t].stored
    <2> USE DEF Types
    <2>1. Types /\ Disposed /\ Records
        BY <1>1 DEF IInv
    <2>2. t \notin requests /\ request[t].expired
        BY <1>1, <2>1 DEF Disposed
    <2>3. PICK f \in Futures : f = request[t]
        BY <2>1
    <2>4. f.expired
        BY <2>2, <2>3
    <2>5. CASE Request
        <3>1. request'[t] = request[t]
            BY <2>1, <2>5 DEF Request, Put
        <3> QED
            BY <2>2, <3>1
    <2>6. ASSUME NEW m \in Responses, NEW reliable \in BOOLEAN, HandleResponse(m, reliable)
          PROVE  request'[t] = request[t]
        <3>1. m.tag # t
            BY <2>2, <2>6 DEF HandleResponse
        <3> QED
            BY <2>1, <2>6, <3>1 DEF HandleResponse
    <2>7. CASE OnLivenessTimeout
        <3>1. CASE due.tag = t
            BY <2>1, <2>2, <2>7, <3>1 DEF OnLivenessTimeout
        <3>2. CASE due.tag # t
            <4>1. request'[t] = request[t]
                BY <2>1, <2>7, <3>2 DEF OnLivenessTimeout
            <4> QED
                BY <2>2, <4>1
        <3> QED
            BY <3>1, <3>2
    <2>8. ASSUME NEW u \in DOMAIN request, NEW g, request' = [request EXCEPT ![u] = g],
                 u = t => /\ g.expired
                          /\ (g.err = f.err \/ (g.cancelled /\ ~f.cancelled))
                          /\ (g.stored => f.stored)
          PROVE  /\ request[t].expired /\ request'[t].expired
                 /\ \/ request'[t].err = request[t].err
                    \/ request'[t].cancelled # request[t].cancelled
                 /\ request'[t].stored => request[t].stored
        <3>1. CASE u = t
            <4>1. request'[t] = g
                BY <2>1, <2>8, <3>1
            <4> QED
                BY <2>2, <2>3, <2>8, <3>1, <4>1
        <3>2. CASE u # t
            <4>1. request'[t] = request[t]
                BY <2>1, <2>8, <3>2
            <4> QED
                BY <2>2, <4>1
        <3> QED
            BY <3>1, <3>2
    <2>9. ASSUME NEW u \in DOMAIN request, MoveResponse(u) \/ CancelRequest(u) \/ Destroy(u)
          PROVE  \E g : /\ request' = [request EXCEPT ![u] = g]
                        /\ u = t => /\ g.expired
                                    /\ (g.err = f.err \/ (g.cancelled /\ ~f.cancelled))
                                    /\ (g.stored => f.stored)
        <3>1. CASE MoveResponse(u)
            <4>1. PICK g : g = [request[u] EXCEPT !.stored = FALSE]
                OBVIOUS
            <4>2. request' = [request EXCEPT ![u] = g]
                BY <3>1, <4>1 DEF MoveResponse
            <4>3. u = t => g.expired /\ g.err = f.err /\ ~g.stored
                BY <2>3, <2>4, <4>1 DEF Futures
            <4> QED
                BY <4>2, <4>3
        <3>2. CASE CancelRequest(u)
            BY <2>2, <3>2 DEF CancelRequest
        <3>3. CASE Destroy(u)
            <4>1. PICK g : g = [request[u] EXCEPT !.task = None, !.expired = TRUE,
                                                  !.ack = NoAck, !.destroyed = TRUE]
                OBVIOUS
            <4>2. request' = [request EXCEPT ![u] = g]
                BY <3>3, <4>1 DEF Destroy
            <4>3. u = t => g.expired /\ g.err = f.err /\ (g.stored => f.stored)
                BY <2>3, <4>1 DEF Futures
            <4> QED
                BY <4>2, <4>3
        <3> QED
            BY <2>9, <3>1, <3>2, <3>3
    <2>10. \A x \in net : x.id \in Responses /\ x.flag \in BOOLEAN
        BY <2>1
    <2>11. CASE UNCHANGED request
        BY <2>2, <2>11
    <2>12. CASE Receive
        <3>1. CASE \E x \in net : HandleResponse(x.id, x.flag)
            BY <2>2, <2>6, <2>10, <3>1
        <3>2. CASE \E x \in net : HandleOrphan(x.id, x.flag)
            BY <2>11, <3>2 DEF HandleOrphan
        <3> QED
            BY <2>12, <3>1, <3>2 DEF Receive
    <2>13. \/ UNCHANGED request \/ Request \/ Receive \/ OnLivenessTimeout
           \/ \E u \in DOMAIN request : MoveResponse(u) \/ CancelRequest(u) \/ Destroy(u)
        BY <1>1 DEF Next, Respond, Conclude, HandleResponseAck, Retransmit, OnRetransmitTick,
                    TimerStep, Dequeue, Lose, Expire, vars, reqVars
    <2> QED
        BY <2>5, <2>7, <2>8, <2>9, <2>11, <2>12, <2>13
<1>2. IInv /\ [Next]_vars =>
        [\A t \in DOMAIN request :
            request[t].cancelled \/ request[t].destroyed =>
                /\ request[t].expired /\ request'[t].expired
                /\ \/ request'[t].err = request[t].err
                   \/ request'[t].cancelled # request[t].cancelled
                /\ request'[t].stored => request[t].stored]_vars
    BY <1>1
<1> QED
    BY <1>2, InductiveInvariant, PTL DEF Spec, DisposedSilent

=============================================================================
