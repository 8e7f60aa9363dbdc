--------------------------- MODULE UdpPlatformProofs ---------------------------
(***************************************************************************)
(* Proofs about the UDP platform, for any nodes, subjects, interfaces,     *)
(* sizes of transfers, and size of the ring of transfer-IDs.               *)
(***************************************************************************)
EXTENDS UdpPlatform, FiniteSetTheorems, SequenceTheorems, TLAPS

-----------------------------------------------------------------------------
(***************************************************************************)
(* The inductive invariant.                                                *)
(***************************************************************************)
Transfers == [from : Nodes, chan : Channels, tid : 0..(TIDs - 1), size : Nat,
              port : Nat \cup {None}]

\* A sequence of anything.
Listed(s) == Len(s) \in Nat /\ s = [i \in 1..Len(s) |-> s[i]]

\* A frame of a transfer that was sent.
Frame(f) ==
    /\ f[1] \in 1..Len(sent) /\ f[2] \in 0..(sent[f[1]].size - 1)
    /\ f = <<f[1], f[2]>>

Entry(e) ==
    /\ e.port \in 1..Len(ports) /\ e.tr \in 1..Len(sent)
    /\ sent[e.tr].chan = ports[e.port].chan

IsPort(q) ==
    /\ q = [chan |-> q.chan, stateful |-> q.stateful, history |-> q.history,
            sessions |-> q.sessions]
    /\ q.stateful \in BOOLEAN

Types ==
    /\ sent \in Seq(Transfers)
    /\ Listed(ports) /\ Listed(log) /\ Listed(heard) /\ Len(heard) = Len(ports)
    /\ \A p \in 1..Len(ports) : IsPort(ports[p])

\* The counters that transfer-IDs are taken from.
Counters ==
    /\ DOMAIN writers \subseteq Nodes \X Subjects
    /\ \A w \in DOMAIN writers : writers[w] \in Nat
    /\ unicastTID \in [Nodes -> Nat]

\* The frames on the network are frames of transfers.
OnNetwork == \A f \in DOMAIN net : Frame(f) /\ net[f] \in 0..Interfaces

\* A port is given the frames of its channel.
Routed ==
    /\ \A k \in 1..Len(sent) : sent[k].port # None =>
        sent[k].port \in 1..Len(ports) /\ ports[sent[k].port].chan = sent[k].chan
    /\ hand # None =>
        /\ Frame(hand.frame) /\ hand.port \in 1..Len(ports)
        /\ sent[hand.frame[1]].chan = ports[hand.port].chan

\* What ports were given and have passed up.
Received ==
    /\ \A p \in 1..Len(ports) : \A f \in heard[p] :
        Frame(f) /\ sent[f[1]].chan = ports[p].chan
    /\ \A i \in 1..Len(log) :
        /\ Entry(log[i])
        /\ \E f \in heard[log[i].port] : f[1] = log[i].tr

\* The newest port of a channel is that of its reader; a frame in hand was read
\* before any newer port passed something up.
Newest ==
    /\ DOMAIN readers \subseteq Channels
    /\ \A c \in DOMAIN readers :
        /\ readers[c] \in 1..Len(ports) /\ ports[readers[c]].chan = c
        /\ \A p \in 1..Len(ports) : ports[p].chan = c => p <= readers[c]
    /\ hand # None =>
        \A i \in 1..Len(log) :
            ports[log[i].port].chan = ports[hand.port].chan => log[i].port <= hand.port

\* No transfer-ID comes twice in a stream.
Unique ==
    \A j, k \in 1..Len(sent) :
        sent[j].from = sent[k].from /\ sent[j].chan = sent[k].chan /\ sent[j].tid = sent[k].tid
        => j = k

Base ==
    /\ Types /\ Counters /\ OnNetwork /\ Routed /\ Received /\ Newest /\ Unique

\* A slot holds fragments of one transfer, not all of them.
Filled(slot, k) ==
    /\ slot = [tid |-> sent[k].tid, total |-> sent[k].size,
               frags |-> [o \in DOMAIN slot.frags |-> k]]
    /\ DOMAIN slot.frags \subseteq 0..(sent[k].size - 1)
    /\ Cardinality(DOMAIN slot.frags) < sent[k].size

Kept(s, n, chan) ==
    /\ s = [lastTID |-> s.lastTID, slot |-> s.slot] /\ s.lastTID \in 0..(TIDs - 1)
    /\ Stream(n, chan) # {}
    /\ s.slot # NoSlot => \E k \in Stream(n, chan) : Filled(s.slot, k)

Sessions ==
    \A p \in 1..Len(ports) : \A n \in DOMAIN ports[p].sessions :
        Kept(ports[p].sessions[n], n, ports[p].chan)

\* The last transfer-ID of a session is that of the latest transfer passed up,
\* and the slot is for a later one.
NonePassed(p, n, chan) == \A j \in Stream(n, chan) : ~PassedUp(p, j)

UpTo(p, n, chan, m) == \A j \in Stream(n, chan) : PassedUp(p, j) => j <= m

Latest(p, s, n, chan) ==
    \/ NonePassed(p, n, chan)
    \/ \E m \in Stream(n, chan) : s.lastTID = sent[m].tid /\ PassedUp(p, m) /\ UpTo(p, n, chan, m)

Later(p, s, n, chan) ==
    \A k \in Stream(n, chan) : s.slot.tid = sent[k].tid => UpTo(p, n, chan, k - 1)

Progress(p, q, n) ==
    IF n \in DOMAIN q.sessions
    THEN Latest(p, q.sessions[n], n, q.chan) /\ Later(p, q.sessions[n], n, q.chan)
    ELSE NonePassed(p, n, q.chan)

Ordering ==
    \A p \in 1..Len(ports) : \A n \in Nodes :
        ports[p].stateful /\ Steady(n, ports[p].chan) => Progress(p, ports[p], n)

\* A port that may yet be given a frame.
Fed(p) == (\E c \in DOMAIN readers : readers[c] = p) \/ (hand # None /\ hand.port = p)

\* A transfer that no other one disturbs is on its way.
Expected(k) ==
    /\ k \notin crossed /\ sent[k].port # None /\ ports[sent[k].port].stateful
    /\ Steady(sent[k].from, sent[k].chan) /\ ~PassedUp(sent[k].port, k)

\* The fragments of it that were given to the port are in the slot.
Unheard(p, k) == \A o \in 0..(sent[k].size - 1) : <<k, o>> \notin heard[p]

Collected(p, q, k) ==
    IF sent[k].from \in DOMAIN q.sessions
    THEN LET s == q.sessions[sent[k].from]
         IN  /\ TidGreater(sent[k].tid, s.lastTID)
             /\ \/ s.slot = NoSlot /\ Unheard(p, k)
                \/ /\ s.slot.tid = sent[k].tid
                   /\ \A o \in 0..(sent[k].size - 1) :
                        <<k, o>> \in heard[p] => o \in DOMAIN s.slot.frags
    ELSE Unheard(p, k)

Alone(p, k) ==
    \A j \in Stream(sent[k].from, sent[k].chan) : j <= k /\ (j < k => PassedUp(p, j))

Awaited ==
    \A k \in 1..Len(sent) : Expected(k) /\ Fed(sent[k].port) =>
        Alone(sent[k].port, k) /\ Collected(sent[k].port, ports[sent[k].port], k)

\* What a stateless port remembers.
FP(k) == Fingerprint(sent[k].tid, sent[k].from)

Given(p) == {f[1] : f \in heard[p]}

OfGiven(p, fp) == fp = {} \/ \E k \in Given(p) : fp = FP(k)

Recalled(p, q, k) ==
    \/ Cardinality(Given(p)) > 2
    \/ FP(k) = q.history[1]
    \/ /\ FP(k) = q.history[2] /\ q.history[1] # q.history[2]
       /\ \E j \in Given(p) : FP(j) = q.history[1]

Memory(p, q) ==
    /\ q.history = <<q.history[1], q.history[2]>>
    /\ OfGiven(p, q.history[1]) /\ OfGiven(p, q.history[2])
    /\ \A k \in Given(p) : sent[k].size = 1 => PassedUp(p, k)

Stateless ==
    /\ \A p \in 1..Len(ports) : ~ports[p].stateful => Memory(p, ports[p])
    /\ \A i \in 1..Len(log) : ~ports[log[i].port].stateful =>
        Recalled(log[i].port, ports[log[i].port], log[i].tr)

\* A late message is the last one that its port passes up.
Lateness ==
    \A i \in 1..Len(log) : log[i].late => ~Fed(log[i].port)

Intact(e) ==
    e.payload = IF ports[e.port].stateful
                THEN [o \in 0..(sent[e.tr].size - 1) |-> e.tr]
                ELSE [o \in {0} |-> e.tr]

Payloads == \A i \in 1..Len(log) : Intact(log[i])

\* No transfer that has arrived as a whole is still expected.
NoneStuck == \A k \in 1..Len(sent) : ~(HeardWhole(k) /\ Expected(k))

\* What does not depend on the order of transfer-IDs; what gives the order in
\* which transfers are passed up; and what sees to it that they are.  Each is
\* inductive together with those before it, and so are Core and Lateness.
Core == Base /\ Sessions /\ Payloads

Orderly == Core /\ Ordering /\ Stateless /\ InOrderOnce

Lossless == Orderly /\ Awaited /\ NoneStuck

-----------------------------------------------------------------------------
(* The ring of transfer-IDs, and sequences of anything.                    *)

LEMMA ModUnique ==
    ASSUME NEW m \in Nat \ {0}, NEW r \in 0..(m - 1), NEW k \in Int
    PROVE  (k * m + r) % m = r
OBVIOUS

\* The residue of a difference of two places on the ring.
LEMMA Distance ==
    ASSUME NEW a \in 0..(TIDs - 1), NEW b \in 0..(TIDs - 1)
    PROVE  (a - b) % TIDs = IF a >= b THEN a - b ELSE a - b + TIDs
<1>1. TIDs \in Nat \ {0}
    BY UdpAssumption
<1>2. CASE a >= b
    <2>1. PICK r \in 0..(TIDs - 1) : r = a - b
        BY <1>1, <1>2
    <2>2. (0 * TIDs + r) % TIDs = r
        BY <1>1, ModUnique
    <2> QED
        BY <1>1, <1>2, <2>1, <2>2
<1>3. CASE a < b
    <2>1. PICK r \in 0..(TIDs - 1) : r = a - b + TIDs
        BY <1>1, <1>3
    <2>2. ((-1) * TIDs + r) % TIDs = r
        BY <1>1, ModUnique
    <2>3. (-1) * TIDs + r = a - b
        BY <1>1, <2>1
    <2> QED
        BY <1>1, <1>3, <2>1, <2>2, <2>3
<1> QED
    BY <1>2, <1>3

\* Of two places at most one is ahead, and tidGreater tells which.
LEMMA AheadIsGreater ==
    ASSUME NEW a \in 0..(TIDs - 1), NEW b \in 0..(TIDs - 1), Ahead(a, b)
    PROVE  TidGreater(a, b) /\ ~TidGreater(b, a)
<1>1. TIDs \in Nat /\ TIDs > 3 /\ TIDs \div 2 \in Nat /\ 2 * (TIDs \div 2) <= TIDs
    BY UdpAssumption
<1>2. PICK d \in 1..(TIDs \div 2 - 1) : d = (a - b) % TIDs
    BY DEF Ahead
<1>3. (b - a) % TIDs = TIDs - d
    BY <1>1, <1>2, Distance
<1>4. d # 0 /\ d < TIDs \div 2 /\ ~(TIDs - d < TIDs \div 2)
    BY <1>1
<1> QED
    BY <1>2, <1>3, <1>4 DEF TidGreater

\* A transfer is acceptable after its predecessor, and not after itself.
LEMMA Successor ==
    ASSUME NEW a \in 0..(TIDs - 1)
    PROVE  /\ (a - 1) % TIDs \in 0..(TIDs - 1)
           /\ TidGreater(a, (a - 1) % TIDs) /\ ~TidGreater(a, a)
<1>1. TIDs \in Nat /\ TIDs > 3 /\ TIDs \div 2 \in Nat /\ TIDs \div 2 > 1 /\ TIDs \div 2 < TIDs
    BY UdpAssumption
<1>2. (a - 1) % TIDs = IF a >= 1 THEN a - 1 ELSE a - 1 + TIDs
    BY <1>1, Distance
<1>3. PICK b \in 0..(TIDs - 1) : b = (a - 1) % TIDs /\ b = IF a >= 1 THEN a - 1 ELSE a - 1 + TIDs
    BY <1>1, <1>2
<1>4. (a - b) % TIDs = 1 /\ (a - a) % TIDs = 0
    BY <1>1, <1>3, Distance
<1> QED
    BY <1>1, <1>3, <1>4 DEF TidGreater

LEMMA AppendListed ==
    ASSUME NEW s, Listed(s), NEW x
    PROVE  /\ Listed(Append(s, x)) /\ Len(Append(s, x)) = Len(s) + 1
           /\ \A i \in 1..Len(s) : Append(s, x)[i] = s[i]
           /\ Append(s, x)[Len(s) + 1] = x
<1>1. PICK S : S = {s[i] : i \in 1..Len(s)} \cup {x}
    OBVIOUS
<1>2. s \in Seq(S) /\ x \in S
    BY <1>1 DEF Listed
<1>3. Append(s, x) \in Seq(S) /\ Len(Append(s, x)) = Len(s) + 1
    BY <1>2
<1>4. /\ \A i \in 1..Len(s) : Append(s, x)[i] = s[i]
      /\ Append(s, x)[Len(s) + 1] = x
    BY <1>2
<1>5. PICK t : t = Append(s, x)
    OBVIOUS
<1>6. t \in [1..Len(t) -> S] /\ Len(t) \in Nat
    BY <1>3, <1>5, LenProperties
<1>7. Listed(t)
    BY <1>6 DEF Listed
<1> QED
    BY <1>3, <1>4, <1>5, <1>7

Changed(s, p, x, t) == p \in 1..Len(s) /\ t = [s EXCEPT ![p] = x]

LEMMA ExceptListed ==
    ASSUME NEW s, Listed(s), NEW p, NEW x, NEW t, Changed(s, p, x, t)
    PROVE  /\ Listed(t) /\ Len(t) = Len(s)
           /\ \A i \in 1..Len(s) : t[i] = IF i = p THEN x ELSE s[i]
<1>1. PICK S : S = {s[i] : i \in 1..Len(s)} \cup {x}
    OBVIOUS
<1> p \in 1..Len(s) /\ t = [s EXCEPT ![p] = x]
    BY DEF Changed
<1>2. s \in Seq(S) /\ x \in S
    BY <1>1 DEF Listed
<1>3. t \in Seq(S) /\ Len(t) = Len(s)
    BY <1>2, ExceptSeq
<1>4. t \in [1..Len(t) -> S] /\ Len(t) \in Nat
    BY <1>3, LenProperties
<1>5. Listed(t)
    BY <1>4 DEF Listed
<1> QED
    BY <1>2, <1>3, <1>5, ExceptSeq

-----------------------------------------------------------------------------
(***************************************************************************)
(* The steps, by what they do to the histories.                            *)
(***************************************************************************)
\* A transfer is sent.
Sent(t) ==
    /\ t \in Transfers /\ sent' = Append(sent, t)
    /\ \A j \in Stream(t.from, t.chan) : sent[j].tid # t.tid
    /\ t.port = IF t.chan \in DOMAIN readers THEN readers[t.chan] ELSE None
    /\ crossed' = crossed \cup Overlapping(t.from, t.chan)
    /\ UNCHANGED <<closed, rxVars>>

\* Readers go, or the frame in hand is given up.
Quiet ==
    /\ DOMAIN readers' \subseteq DOMAIN readers
    /\ \A c \in DOMAIN readers' : readers'[c] = readers[c]
    /\ hand' \in {hand, None}
    /\ UNCHANGED <<sent, ports, log, heard, crossed>>


LEMMA WriterSends ==
    ASSUME Types, Counters, Newest, NEW n, NEW chan, <<n, chan>> \in Traffic, NEW size \in Nat,
           NEW tid \in Seeds \cup {writers[v] : v \in DOMAIN writers},
           SubjectWriterSend(n, chan, size, tid)
    PROVE  Counters' /\ \E t : Sent(t) /\ t.size = size
<1>1. n \in Nodes /\ chan \in Subjects
    BY UdpAssumption
<1>2. tid \in Nat
    BY UdpAssumption DEF Counters
<1>3. TIDs \in Nat \ {0} /\ tid % TIDs \in 0..(TIDs - 1) /\ (tid + 1) % TIDs \in Nat
    BY <1>2, UdpAssumption
<1>4. PICK t : t = [from |-> n, chan |-> chan, tid |-> tid % TIDs, size |-> size,
                    port |-> IF chan \in DOMAIN readers THEN readers[chan] ELSE None]
    OBVIOUS
<1>5. t \in Transfers
    BY <1>1, <1>3, <1>4 DEF Transfers, Channels, Newest
<1>6. Sent(t) /\ t.size = size
    BY <1>4, <1>5 DEF Sent, SubjectWriterSend, SendTransfer, Overlapping, rxVars
<1>7. Counters'
    BY <1>1, <1>3 DEF Counters, SubjectWriterSend, Put
<1> QED
    BY <1>6, <1>7

LEMMA UnicastSends ==
    ASSUME Types, Counters, Newest, NEW n \in Nodes, NEW size \in Nat, NEW endpoints,
           Unicast(n, size, endpoints)
    PROVE  Counters' /\ \E t : Sent(t) /\ t.size = size
<1>1. TIDs \in Nat \ {0} /\ unicastTID[n] \in Nat /\ unicastTID[n] % TIDs \in 0..(TIDs - 1)
    BY UdpAssumption DEF Counters
<1>2. PICK t : t = [from |-> n, chan |-> Unicasts, tid |-> unicastTID[n] % TIDs, size |-> size,
                    port |-> IF Unicasts \in DOMAIN readers THEN readers[Unicasts] ELSE None]
    OBVIOUS
<1>3. t \in Transfers
    BY <1>1, <1>2 DEF Transfers, Channels, Newest
<1>4. Sent(t) /\ t.size = size
    BY <1>2, <1>3 DEF Sent, Unicast, SendTransfer, Overlapping, rxVars
<1>5. Counters'
    BY <1>1 DEF Counters, Unicast
<1> QED
    BY <1>4, <1>5

LEMMA StepClasses ==
    ASSUME Types, Counters, Newest, [Next]_vars
    PROVE  /\ Counters'
           /\ \/ \E t : Sent(t)
              \/ Quiet
              \/ \E chan \in Subjects : NewSubjectReader(chan)
              \/ \E f \in DOMAIN net : RxRead(f)
              \/ HandleDatagram
<1>1. ASSUME NEW w \in Traffic, NEW size \in Sizes,
             NEW tid \in Seeds \cup {writers[v] : v \in DOMAIN writers},
             SubjectWriterSend(w[1], w[2], size, tid)
      PROVE  Counters' /\ \E t : Sent(t)
    <2>1. <<w[1], w[2]>> \in Traffic /\ size \in Nat
        BY UdpAssumption
    <2> QED
        BY ONLY <1>1, <2>1, WriterSends, Types, Counters, Newest
<1>2. ASSUME NEW n \in Nodes \ {Self}, NEW size \in Sizes, NEW endpoints \in {0, 1},
             Unicast(n, size, endpoints)
      PROVE  Counters' /\ \E t : Sent(t)
    BY <1>2, UnicastSends, UdpAssumption
<1>3. ASSUME NEW w, DestroySubjectWriter(w[1], w[2]) PROVE Counters' /\ Quiet
    BY <1>3 DEF DestroySubjectWriter, Counters, Quiet, Drop, rxVars
<1>4. ASSUME Destroy PROVE Counters' /\ Quiet
    BY <1>4 DEF Destroy, Counters, Quiet, Drop
<1>5. ASSUME NEW chan \in Subjects, DestroySubjectReader(chan) PROVE Counters' /\ Quiet
    BY <1>5 DEF DestroySubjectReader, Counters, Quiet, Drop, txVars
<1>6. ASSUME IgnoreOwn PROVE Counters' /\ Quiet
    BY <1>6 DEF IgnoreOwn, Counters, Quiet, txVars
<1>7. ASSUME UNCHANGED vars PROVE Counters' /\ Quiet
    BY <1>7 DEF vars, txVars, rxVars, Counters, Quiet
<1>8. ASSUME NEW chan \in Subjects, NewSubjectReader(chan) PROVE Counters'
    BY <1>8 DEF NewSubjectReader, txVars, Counters
<1>9. ASSUME NEW f, RxRead(f) PROVE Counters'
    BY <1>9 DEF RxRead, txVars, Counters
<1>10. ASSUME HandleDatagram PROVE Counters'
    BY <1>10 DEF HandleDatagram, txVars, Counters
<1> QED
    BY <1>1, <1>2, <1>3, <1>4, <1>5, <1>6, <1>7, <1>8, <1>9, <1>10 DEF Next, RxLoop

LEMMA SentTyped ==
    ASSUME Types, NEW k \in 1..Len(sent)
    PROVE  /\ sent[k].tid \in Nat /\ sent[k].tid \in 0..(TIDs - 1) /\ sent[k].size \in Nat
           /\ sent[k].from \in Nodes /\ sent[k].chan \in Channels
<1>1. sent[k] \in Transfers
    BY DEF Types
<1> QED
    BY <1>1, UdpAssumption DEF Transfers

LEMMA SentGrows ==
    ASSUME Types, NEW t, Sent(t)
    PROVE  /\ sent' \in Seq(Transfers) /\ Len(sent) \in Nat /\ Len(sent') = Len(sent) + 1
           /\ \A j \in 1..Len(sent) : sent'[j] = sent[j]
           /\ sent'[Len(sent) + 1] = t
BY DEF Types, Sent

LEMMA BaseSent ==
    ASSUME Types, Routed, Received, Newest, Unique, NEW t, Sent(t)
    PROVE  Types' /\ Routed' /\ Received' /\ Newest' /\ Unique'
<1>1. PICK K \in Nat : /\ sent' \in Seq(Transfers) /\ K = Len(sent) /\ Len(sent') = K + 1
                       /\ \A j \in 1..K : sent'[j] = sent[j]
                       /\ sent'[K + 1] = t
    BY SentGrows
<1>2. UNCHANGED <<readers, ports, hand, log, heard>>
    BY DEF Sent, rxVars
<1>3. Types'
    BY <1>1, <1>2 DEF Types, Listed, IsPort
<1>4. ASSUME NEW f, Frame(f) PROVE Frame(f)'
    BY <1>1, <1>4 DEF Frame
<1>5. t.port # None => t.port \in 1..Len(ports) /\ ports[t.port].chan = t.chan
    BY DEF Sent, Newest
<1>6. Routed'
    <2>1. ASSUME NEW k \in 1..(K + 1), sent'[k].port # None
          PROVE  sent'[k].port \in 1..Len(ports) /\ ports[sent'[k].port].chan = sent'[k].chan
        <3>1. CASE k \in 1..K
            BY <1>1, <2>1, <3>1 DEF Routed
        <3>2. CASE k = K + 1
            BY <1>1, <1>5, <2>1, <3>2
        <3> QED
            BY <1>1, <3>1, <3>2
    <2>2. hand # None =>
            /\ Frame(hand.frame)' /\ hand.port \in 1..Len(ports)
            /\ sent'[hand.frame[1]].chan = ports[hand.port].chan
        BY <1>1, <1>2, <1>4 DEF Routed, Frame
    <2> QED
        BY <1>1, <1>2, <2>1, <2>2 DEF Routed
<1>7. Received'
    <2>1. ASSUME NEW p \in 1..Len(ports), NEW f \in heard[p]
          PROVE  Frame(f)' /\ sent'[f[1]].chan = ports[p].chan
        BY <1>1, <1>4 DEF Received, Frame
    <2>2. ASSUME NEW i \in 1..Len(log)
          PROVE  /\ Entry(log[i])'
                 /\ \E f \in heard[log[i].port] : f[1] = log[i].tr
        BY <1>1, <1>2 DEF Received, Entry
    <2> QED
        BY <1>2, <2>1, <2>2 DEF Received
<1>8. Newest'
    BY <1>2 DEF Newest
<1>9. Unique'
    <2>1. ASSUME NEW j \in 1..K, sent[j].from = t.from, sent[j].chan = t.chan PROVE sent[j].tid # t.tid
        BY <1>1, <2>1 DEF Sent, Stream
    <2>2. ASSUME NEW j \in 1..(K + 1), NEW k \in 1..(K + 1), sent'[j].from = sent'[k].from,
                 sent'[j].chan = sent'[k].chan, sent'[j].tid = sent'[k].tid
          PROVE  j = k
        <3>1. CASE j \in 1..K /\ k \in 1..K
            BY <1>1, <2>2, <3>1 DEF Unique
        <3>2. CASE j = K + 1 \/ k = K + 1
            BY <1>1, <2>1, <2>2, <3>2
        <3> QED
            BY <3>1, <3>2
    <2> QED
        BY <1>1, <2>2 DEF Unique
<1> QED
    BY <1>3, <1>6, <1>7, <1>8, <1>9

LEMMA BaseQuiet ==
    ASSUME Types, Routed, Received, Newest, Unique, Quiet
    PROVE  Types' /\ Routed' /\ Received' /\ Newest' /\ Unique'
<1>1. Types' /\ Unique' /\ Received'
    BY DEF Quiet, Types, IsPort, Listed, Unique, Received, Frame, Entry
<1>2. Routed' /\ Newest'
    BY DEF Quiet, Routed, Frame, Newest
<1> QED
    BY <1>1, <1>2

LEMMA BaseReader ==
    ASSUME Types, Routed, Received, Newest, Unique, NEW chan \in Subjects, NewSubjectReader(chan)
    PROVE  Types' /\ Routed' /\ Received' /\ Newest' /\ Unique'
<1>1. PICK P \in Nat : P = Len(ports)
    BY DEF Types, Listed
<1> PICK q : q = NewPort(chan, chan <= SubjectIDModulus)
    OBVIOUS
<1>2. /\ Listed(ports') /\ Len(ports') = P + 1 /\ ports'[P + 1] = q
      /\ \A p \in 1..P : ports'[p] = ports[p]
    BY <1>1, AppendListed DEF Types, NewSubjectReader
<1>3. /\ Listed(heard') /\ Len(heard') = P + 1 /\ heard'[P + 1] = {}
      /\ \A p \in 1..P : heard'[p] = heard[p]
    BY <1>1, AppendListed DEF Types, NewSubjectReader
<1>4. /\ UNCHANGED <<sent, hand, log>> /\ chan \notin DOMAIN readers
      /\ DOMAIN readers' = DOMAIN readers \cup {chan} /\ readers'[chan] = P + 1
      /\ \A c \in DOMAIN readers : readers'[c] = readers[c]
    BY <1>1 DEF NewSubjectReader, Put
<1>5. q.chan = chan /\ IsPort(q)
    BY <1>1 DEF NewPort, IsPort
<1>6. Types'
    <2>1. \A p \in 1..(P + 1) : IsPort(ports'[p])
        BY <1>1, <1>2, <1>5 DEF Types
    <2> QED
        BY <1>2, <1>3, <1>4, <2>1 DEF Types, Listed
<1>7. Routed'
    BY <1>1, <1>2, <1>4 DEF Routed, Frame
<1>8. Received'
    <2>1. ASSUME NEW p \in 1..(P + 1), NEW f \in heard'[p]
          PROVE  Frame(f) /\ sent[f[1]].chan = ports'[p].chan
        BY <1>1, <1>2, <1>3, <2>1 DEF Received
    <2>2. ASSUME NEW i \in 1..Len(log)
          PROVE  /\ Entry(log[i])'
                 /\ \E f \in heard'[log[i].port] : f[1] = log[i].tr
        BY <1>1, <1>2, <1>3, <1>4 DEF Received, Entry
    <2> QED
        BY <1>2, <1>4, <2>1, <2>2 DEF Received, Frame
<1>9. Newest'
    <2>1. ASSUME NEW c \in DOMAIN readers', NEW p \in 1..(P + 1)
          PROVE  /\ readers'[c] \in 1..(P + 1) /\ ports'[readers'[c]].chan = c
                 /\ ports'[p].chan = c => p <= readers'[c]
        BY <1>1, <1>2, <1>4, <1>5 DEF Newest
    <2>2. ASSUME hand # None, NEW i \in 1..Len(log), ports'[log[i].port].chan = ports'[hand.port].chan
          PROVE  log[i].port <= hand.port
        BY <1>1, <1>2, <2>2 DEF Newest, Routed, Received, Entry
    <2>3. DOMAIN readers' \subseteq Channels
        BY <1>4 DEF Newest, Channels
    <2> QED
        BY <1>2, <1>4, <2>1, <2>2, <2>3 DEF Newest
<1>10. Unique'
    BY <1>4 DEF Unique
<1> QED
    BY <1>6, <1>7, <1>8, <1>9, <1>10

LEMMA BaseRead ==
    ASSUME Types, OnNetwork, Routed, Received, Newest, Unique, NEW f \in DOMAIN net, RxRead(f)
    PROVE  Types' /\ Routed' /\ Received' /\ Newest' /\ Unique'
<1>1. UNCHANGED <<sent, readers, ports, log, heard>>
    BY DEF RxRead
<1>2. Types' /\ Unique' /\ Received'
    BY <1>1 DEF Types, IsPort, Listed, Unique, Received, Frame, Entry
<1>3. /\ hand' # None /\ hand'.frame = f /\ hand'.port = readers[sent[f[1]].chan]
      /\ sent[f[1]].chan \in DOMAIN readers /\ Frame(f)
    <2>1. Frame(f) /\ sent[f[1]].chan \in DOMAIN readers
        BY DEF RxRead, OnNetwork
    <2>2. f \in Nat \X Nat /\ readers[sent[f[1]].chan] \in Nat
        BY <2>1 DEF Frame, Newest, Types, Listed
    <2> QED
        BY <2>1, <2>2, UdpAssumption DEF RxRead, Read
<1>4. Routed'
    BY <1>1, <1>3 DEF Routed, Newest, Frame
<1>5. Newest'
    BY <1>1, <1>3 DEF Newest, Received, Entry
<1> QED
    BY <1>2, <1>4, <1>5

-----------------------------------------------------------------------------
(***************************************************************************)
(* Handling a frame.                                                       *)
(***************************************************************************)
\* A frame of an old transfer.
Stale(s, k) == s.slot.tid # sent[k].tid /\ ~TidGreater(sent[k].tid, s.lastTID)

\* A slot with the fragments of transfer k at the offsets D.
SlotOf(k, D) == [tid |-> sent[k].tid, total |-> sent[k].size, frags |-> [x \in D |-> k]]

\* The offsets of transfer k that are collected with the frame at offset o.
Gathers(s, k, o, D) ==
    /\ o \in D /\ D \subseteq 0..(sent[k].size - 1)
    /\ D = (IF s.slot.tid = sent[k].tid THEN DOMAIN s.slot.frags ELSE {}) \cup {o}

\* What becomes of session s.
Turn(s, new, out, k, o) ==
    \/ Stale(s, k) /\ new = s /\ DOMAIN out = {}
    \/ /\ ~Stale(s, k)
       /\ \E D : /\ Gathers(s, k, o, D) /\ Cardinality(D) < sent[k].size
                 /\ new = [lastTID |-> s.lastTID, slot |-> SlotOf(k, D)]
                 /\ DOMAIN out = {}
    \/ /\ ~Stale(s, k)
       /\ new = [lastTID |-> sent[k].tid, slot |-> NoSlot]
       /\ out = [x \in 0..(sent[k].size - 1) |-> k] /\ sent[k].size > 0

\* A stateful port.
Reassembles(q0, q, out, k, o) ==
    \E new : /\ Turn(Session(q0, k), new, out, k, o)
             /\ q = [q0 EXCEPT !.sessions = Put(q0.sessions, sent[k].from, new)]

\* A stateless port.
Remembers(q0, q, out, k) ==
    \/ FP(k) \in {q0.history[1], q0.history[2]} /\ q = q0 /\ DOMAIN out = {}
    \/ /\ FP(k) \notin {q0.history[1], q0.history[2]}
       /\ q = [q0 EXCEPT !.history = <<FP(k), q0.history[1]>>]
       /\ out = [x \in {0} |-> k] \/ (DOMAIN out = {} /\ sent[k].size # 1)

\* The frame at offset o of transfer k makes the fragments those at D.
Adds(slot, k, o, frags, D) ==
    /\ sent[k].size \in Nat /\ o \in 0..(sent[k].size - 1)
    /\ slot = SlotOf(k, DOMAIN slot.frags) /\ DOMAIN slot.frags \subseteq 0..(sent[k].size - 1)
    /\ frags = IF o \in DOMAIN slot.frags THEN slot.frags ELSE Put(slot.frags, o, k)
    /\ D = DOMAIN slot.frags \cup {o}

LEMMA Collecting ==
    ASSUME NEW slot, NEW k, NEW o, NEW frags, NEW D, Adds(slot, k, o, frags, D)
    PROVE  /\ frags = [x \in D |-> k]
           /\ [slot EXCEPT !.frags = frags] = SlotOf(k, D)
           /\ Whole(slot, frags) => D = 0..(sent[k].size - 1)
           /\ ~Whole(slot, frags) => Cardinality(D) < sent[k].size
<1>1. slot.frags = [x \in DOMAIN slot.frags |-> k] /\ slot.total = sent[k].size
      /\ slot.tid = sent[k].tid
    BY DEF Adds, SlotOf
<1>2. frags = [x \in D |-> k]
    BY <1>1 DEF Adds, Put
<1>3. [slot EXCEPT !.frags = frags] = SlotOf(k, D)
    BY <1>2 DEF Adds, SlotOf
<1>4. PICK n \in Nat : n = sent[k].size
    BY DEF Adds
<1>5. /\ IsFiniteSet(0..(n - 1)) /\ Cardinality(0..(n - 1)) = n
      /\ IsFiniteSet(D) /\ Cardinality(D) <= n /\ Cardinality(D) \in Nat
      /\ Cardinality(D) = n => D = 0..(n - 1)
    <2>1. IsFiniteSet(0..(n - 1)) /\ Cardinality(0..(n - 1)) = n
        <3>1. 0 \in Int /\ n - 1 \in Int
            OBVIOUS
        <3>2. /\ IsFiniteSet(0..(n - 1))
              /\ Cardinality(0..(n - 1)) = IF 0 > n - 1 THEN 0 ELSE n - 1 - 0 + 1
            BY <3>1, FS_Interval
        <3> QED
            BY <3>2
    <2>2. D \in SUBSET (0..(n - 1))
        BY <1>4 DEF Adds
    <2>3. /\ IsFiniteSet(D) /\ Cardinality(D) <= Cardinality(0..(n - 1))
          /\ Cardinality(0..(n - 1)) = Cardinality(D) => 0..(n - 1) = D
        BY <2>1, <2>2, FS_Subset
    <2> QED
        BY <2>1, <2>3, FS_CardinalityType
<1>6. DOMAIN frags = D
    BY <1>2
<1>7. /\ Whole(slot, frags) => D = 0..(n - 1)
      /\ ~Whole(slot, frags) => Cardinality(D) < n
    <2>1. PICK c \in Nat : c = Cardinality(D)
        BY <1>5
    <2>2. Whole(slot, frags) <=> c >= n
        BY <1>1, <1>4, <1>6, <2>1 DEF Whole
    <2> QED
        BY <1>5, <2>1, <2>2
<1> QED
    BY <1>2, <1>3, <1>4, <1>7, Zenon

\* The slot of a session is empty or for one transfer.
LEMMA SlotMatches ==
    ASSUME Types, Unique, NEW s, NEW n, NEW chan, Kept(s, n, chan), NEW k \in Stream(n, chan),
           s.slot.tid = sent[k].tid
    PROVE  s.slot # NoSlot /\ Filled(s.slot, k)
<1>1. k \in 1..Len(sent) /\ sent[k].from = n /\ sent[k].chan = chan /\ sent[k].tid \in Nat
    BY SentTyped DEF Stream
<1>2. s.slot # NoSlot
    BY <1>1, UdpAssumption DEF NoSlot
<1>3. PICK j \in Stream(n, chan) : Filled(s.slot, j)
    BY <1>2 DEF Kept
<1>4. s.slot.tid = sent[j].tid
    BY <1>3 DEF Filled
<1>5. j = k
    BY <1>1, <1>4 DEF Stream, Unique
<1> QED
    BY <1>2, <1>3, <1>5

\* acceptStateful.
LEMMA AcceptedStateful ==
    ASSUME Types, Unique, Sessions, NEW p \in 1..Len(ports),
           NEW k \in 1..Len(sent), NEW o \in 0..(sent[k].size - 1), sent[k].chan = ports[p].chan
    PROVE  LET r == AcceptStateful(ports[p], k, o)
           IN  Reassembles(ports[p], r.port, r.out, k, o)
<1>1. sent[k].tid \in Nat /\ sent[k].size \in Nat /\ k \in Stream(sent[k].from, ports[p].chan)
    BY SentTyped DEF Stream
<1>2. PICK s : s = Session(ports[p], k)
    OBVIOUS
<1>3. s = [lastTID |-> s.lastTID, slot |-> s.slot]
    BY <1>2 DEF Session, Sessions, Kept
<1>4. s.slot.tid = sent[k].tid =>
        s.slot = SlotOf(k, DOMAIN s.slot.frags) /\ DOMAIN s.slot.frags \subseteq 0..(sent[k].size - 1)
    <2>1. HAVE s.slot.tid = sent[k].tid
    <2>2. sent[k].from \in DOMAIN ports[p].sessions
        BY <1>1, <1>2, <2>1, UdpAssumption DEF Session, NoSlot
    <2>3. Kept(s, sent[k].from, ports[p].chan)
        BY <1>2, <2>2 DEF Session, Sessions
    <2> QED
        BY <1>1, <2>1, <2>3, SlotMatches DEF Filled, SlotOf
<1>5. PICK slot : slot = SlotFor(s, k)
    OBVIOUS
<1>6. /\ slot = SlotOf(k, DOMAIN slot.frags) /\ DOMAIN slot.frags \subseteq 0..(sent[k].size - 1)
      /\ DOMAIN slot.frags = IF s.slot.tid = sent[k].tid THEN DOMAIN s.slot.frags ELSE {}
    BY <1>4, <1>5 DEF SlotFor, NewSlot, NoSlot, SlotOf
<1>7. PICK frags : frags = IF o \in DOMAIN slot.frags THEN slot.frags ELSE Put(slot.frags, o, k)
    OBVIOUS
<1>8. PICK D : D = DOMAIN slot.frags \cup {o}
    OBVIOUS
<1>9. /\ frags = [x \in D |-> k] /\ [slot EXCEPT !.frags = frags] = SlotOf(k, D)
      /\ Whole(slot, frags) => D = 0..(sent[k].size - 1)
      /\ ~Whole(slot, frags) => Cardinality(D) < sent[k].size
    <2>1. Adds(slot, k, o, frags, D)
        BY <1>1, <1>6, <1>7, <1>8 DEF Adds
    <2> QED
        BY <2>1, Collecting
<1>10. Gathers(s, k, o, D)
    BY <1>6, <1>8 DEF Gathers
<1>11. PICK r : r = AcceptStateful(ports[p], k, o)
    OBVIOUS
<1>12. PICK new : /\ new = IF Stale(s, k) THEN s
                           ELSE IF Whole(slot, frags) THEN Finished(s, k)
                           ELSE [s EXCEPT !.slot = [slot EXCEPT !.frags = frags]]
                  /\ r.port = [ports[p] EXCEPT !.sessions = Put(ports[p].sessions, sent[k].from, new)]
                  /\ r.out = IF ~Stale(s, k) /\ Whole(slot, frags) THEN frags ELSE NoSlot.frags
    BY <1>2, <1>5, <1>7, <1>11 DEF AcceptStateful, Stale
<1>13. DOMAIN NoSlot.frags = {}
    BY DEF NoSlot
<1>14. Turn(s, new, r.out, k, o)
    <2>1. CASE Stale(s, k)
        BY <1>12, <1>13, <2>1 DEF Turn
    <2>2. CASE ~Stale(s, k) /\ Whole(slot, frags)
        <3>1. r.out = [x \in 0..(sent[k].size - 1) |-> k] /\ sent[k].size > 0
            BY <1>1, <1>9, <1>12, <2>2
        <3>2. new = [lastTID |-> sent[k].tid, slot |-> NoSlot]
            BY <1>3, <1>12, <2>2 DEF Finished
        <3> QED
            BY <2>2, <3>1, <3>2 DEF Turn
    <2>3. CASE ~Stale(s, k) /\ ~Whole(slot, frags)
        <3>1. new = [lastTID |-> s.lastTID, slot |-> SlotOf(k, D)]
            BY <1>3, <1>9, <1>12, <2>3
        <3> QED
            BY <1>9, <1>10, <1>12, <1>13, <2>3, <3>1 DEF Turn
    <2> QED
        BY <2>1, <2>2, <2>3
<1> QED
    BY <1>2, <1>11, <1>12, <1>14 DEF Reassembles

\* acceptStateless.
LEMMA AcceptedStateless ==
    ASSUME NEW q0, NEW k, NEW o \in 0..(sent[k].size - 1), sent[k].size \in Nat
    PROVE  LET r == AcceptStateless(q0, k, o)
           IN  Remembers(q0, r.port, r.out, k)
<1>1. sent[k].size = 1 =>
        /\ o = 0
        /\ (IF sent[k].size < Extent THEN sent[k].size ELSE Extent) <= 1
    BY UdpAssumption
<1>2. DOMAIN NoSlot.frags = {}
    BY DEF NoSlot
<1> QED
    BY <1>1, <1>2 DEF AcceptStateless, Remembers, FP

\* A port of either kind.
Accepts(q0, q, out, f) ==
    IF q0.stateful THEN Reassembles(q0, q, out, f[1], f[2]) ELSE Remembers(q0, q, out, f[1])

Message(p, k, out) ==
    [port |-> p, tr |-> k, payload |-> out, late |-> \A c \in DOMAIN readers : readers[c] # p]

TakesPort(p, q) ==
    /\ IsPort(q) /\ q.chan = ports[p].chan /\ q.stateful = ports[p].stateful
    /\ Listed(ports') /\ Len(ports') = Len(ports)
    /\ \A r \in 1..Len(ports) : ports'[r] = IF r = p THEN q ELSE ports[r]

TakesHeard(p, f) ==
    /\ Listed(heard') /\ Len(heard') = Len(heard)
    /\ \A r \in 1..Len(ports) : heard'[r] = IF r = p THEN heard[p] \cup {f} ELSE heard[r]

TakesLog(p, f, out) ==
    /\ Listed(log') /\ \A i \in 1..Len(log) : log'[i] = log[i]
    /\ IF DOMAIN out = {} THEN log' = log
       ELSE Len(log') = Len(log) + 1 /\ log'[Len(log) + 1] = Message(p, f[1], out)

TakesHand(p, f) ==
    /\ hand # None /\ p = hand.port /\ f = hand.frame /\ hand' = None
    /\ p \in 1..Len(ports) /\ Frame(f) /\ sent[f[1]].chan = ports[p].chan
    /\ UNCHANGED <<closed, sent, readers, crossed>>

\* Port p takes frame f, and is then q.
Takes(p, f, q, out) ==
    TakesHand(p, f) /\ TakesPort(p, q) /\ TakesHeard(p, f) /\ TakesLog(p, f, out)

LEMMA Handling ==
    ASSUME Types, Routed, Unique, Sessions, HandleDatagram
    PROVE  \E p, f, q, out : Takes(p, f, q, out) /\ Accepts(ports[p], q, out, f)
<1>1. PICK p, f : p = hand.port /\ f = hand.frame
    OBVIOUS
<1>2. hand # None /\ p \in 1..Len(ports) /\ Frame(f) /\ sent[f[1]].chan = ports[p].chan
    BY <1>1 DEF HandleDatagram, Routed
<1>3. PICK r : r = IF ports[p].stateful THEN AcceptStateful(ports[p], f[1], f[2])
                   ELSE AcceptStateless(ports[p], f[1], f[2])
    OBVIOUS
<1>4. f[1] \in 1..Len(sent) /\ f[2] \in 0..(sent[f[1]].size - 1)
    BY <1>2 DEF Frame
<1>5. Accepts(ports[p], r.port, r.out, f)
    <2>1. CASE ports[p].stateful
        BY <1>2, <1>3, <1>4, <2>1, AcceptedStateful DEF Accepts
    <2>2. CASE ~ports[p].stateful
        BY <1>3, <1>4, <2>2, AcceptedStateless, SentTyped DEF Accepts
    <2> QED
        BY <2>1, <2>2
<1>6. IsPort(ports[p])
    BY <1>2 DEF Types
<1>7. PICK q, out : q = r.port /\ out = r.out
    OBVIOUS
<1>8. IsPort(q) /\ q.chan = ports[p].chan /\ q.stateful = ports[p].stateful
    BY <1>5, <1>6, <1>7 DEF Accepts, Reassembles, Remembers, IsPort
<1>9. /\ hand' = None /\ UNCHANGED <<closed, sent, readers, crossed>>
      /\ ports' = [ports EXCEPT ![p] = q]
      /\ heard' = [heard EXCEPT ![p] = heard[p] \cup {f}]
      /\ log' = IF DOMAIN out = {} THEN log ELSE Append(log, Message(p, f[1], out))
    BY <1>1, <1>3, <1>7 DEF HandleDatagram, Message, txVars
<1>10. /\ Listed(ports') /\ Len(ports') = Len(ports)
       /\ \A s \in 1..Len(ports) : ports'[s] = IF s = p THEN q ELSE ports[s]
    <2>1. Listed(ports)
        BY DEF Types
    <2>2. Changed(ports, p, q, ports')
        BY <1>2, <1>9 DEF Changed
    <2> QED
        BY <2>1, <2>2, ExceptListed
<1>11. /\ Listed(heard') /\ Len(heard') = Len(heard)
       /\ \A s \in 1..Len(ports) : heard'[s] = IF s = p THEN heard[p] \cup {f} ELSE heard[s]
    <2>1. Listed(heard) /\ Len(heard) = Len(ports)
        BY DEF Types
    <2>2. Changed(heard, p, heard[p] \cup {f}, heard')
        BY <1>2, <1>9, <2>1 DEF Changed
    <2>3. /\ Listed(heard') /\ Len(heard') = Len(heard)
          /\ \A s \in 1..Len(heard) : heard'[s] = IF s = p THEN heard[p] \cup {f} ELSE heard[s]
        BY <2>1, <2>2, ExceptListed
    <2> QED
        BY <2>1, <2>3
<1>12. /\ Listed(log') /\ \A i \in 1..Len(log) : log'[i] = log[i]
       /\ IF DOMAIN out = {} THEN log' = log
          ELSE Len(log') = Len(log) + 1 /\ log'[Len(log) + 1] = Message(p, f[1], out)
    BY <1>9, AppendListed DEF Types
<1>13. Takes(p, f, q, out)
    <2>1. TakesHand(p, f)
        BY <1>1, <1>2, <1>9 DEF TakesHand
    <2>2. TakesPort(p, q)
        BY <1>8, <1>10 DEF TakesPort
    <2>3. TakesHeard(p, f)
        BY <1>11 DEF TakesHeard
    <2>4. TakesLog(p, f, out)
        BY <1>12 DEF TakesLog
    <2> QED
        BY <2>1, <2>2, <2>3, <2>4 DEF Takes
<1> QED
    BY <1>5, <1>7, <1>13

\* What is in the log afterwards.
LEMMA LogTaken ==
    ASSUME Types, NEW p, NEW f, NEW out, TakesLog(p, f, out), NEW i \in 1..Len(log')
    PROVE  \/ i \in 1..Len(log) /\ log'[i] = log[i]
           \/ DOMAIN out # {} /\ i = Len(log) + 1 /\ log'[i] = Message(p, f[1], out)
<1>1. CASE DOMAIN out = {}
    BY <1>1 DEF TakesLog
<1>2. CASE DOMAIN out # {}
    <2>1. Len(log') = Len(log) + 1
        BY <1>2 DEF TakesLog
    <2>2. PICK L \in Nat : L = Len(log)
        BY DEF Types, Listed
    <2>3. i \in 1..L \/ i = L + 1
        BY <2>1, <2>2
    <2> QED
        BY <1>2, <2>2, <2>3 DEF TakesLog
<1> QED
    BY <1>1, <1>2

LEMMA BaseTaken ==
    ASSUME Types, Routed, Received, Newest, Unique, NEW p, NEW f, NEW q, NEW out,
           Takes(p, f, q, out)
    PROVE  Types' /\ Routed' /\ Received' /\ Newest' /\ Unique'
<1>1. /\ p \in 1..Len(ports) /\ Frame(f) /\ sent[f[1]].chan = ports[p].chan
      /\ hand' = None /\ UNCHANGED <<sent, readers>>
    BY DEF Takes, TakesHand
<1>2. /\ Len(ports') = Len(ports)
      /\ \A r \in 1..Len(ports) : ports'[r].chan = ports[r].chan
    BY DEF Takes, TakesPort
<1>3. /\ Len(heard') = Len(heard)
      /\ \A r \in 1..Len(ports) : heard'[r] = IF r = p THEN heard[p] \cup {f} ELSE heard[r]
    BY DEF Takes, TakesHeard
<1>4. Types'
    <2>1. \A r \in 1..Len(ports) : IsPort(ports'[r])
        BY DEF Takes, TakesPort, Types
    <2>2. Listed(ports') /\ Listed(heard') /\ Listed(log')
        BY DEF Takes, TakesPort, TakesHeard, TakesLog
    <2> QED
        BY <1>1, <1>2, <1>3, <2>1, <2>2 DEF Types
<1>5. Routed'
    BY <1>1, <1>2 DEF Routed
<1>6. Received'
    <2>1. ASSUME NEW r \in 1..Len(ports), NEW g \in heard'[r]
          PROVE  Frame(g) /\ sent[g[1]].chan = ports[r].chan
        <3>1. g \in heard[r] \/ (r = p /\ g = f)
            BY <1>3, <2>1
        <3> QED
            BY <1>1, <3>1 DEF Received
    <2>2. ASSUME NEW i \in 1..Len(log')
          PROVE  /\ Entry(log[i])'
                 /\ \E g \in heard'[log'[i].port] : g[1] = log'[i].tr
        <3>1. CASE i \in 1..Len(log) /\ log'[i] = log[i]
            <4>1. /\ log[i].port \in 1..Len(ports) /\ log[i].tr \in 1..Len(sent)
                  /\ sent[log[i].tr].chan = ports[log[i].port].chan
                  /\ \E g \in heard[log[i].port] : g[1] = log[i].tr
                BY <3>1 DEF Received, Entry
            <4>2. \E g \in heard'[log[i].port] : g[1] = log[i].tr
                BY <1>3, <4>1
            <4> QED
                BY <1>1, <1>2, <3>1, <4>1, <4>2 DEF Entry
        <3>2. CASE log'[i] = Message(p, f[1], out)
            <4>1. log'[i].port = p /\ log'[i].tr = f[1]
                BY <3>2 DEF Message
            <4>2. f \in heard'[p]
                BY <1>1, <1>3
            <4> QED
                BY <1>1, <1>2, <4>1, <4>2 DEF Entry, Frame
        <3> QED
            BY <2>2, <3>1, <3>2, LogTaken DEF Takes
    <2> QED
        BY <1>1, <1>2, <2>1, <2>2 DEF Received, Frame
<1>7. Newest'
    BY <1>1, <1>2 DEF Newest
<1>8. Unique'
    BY <1>1 DEF Unique
<1> QED
    BY <1>4, <1>5, <1>6, <1>7, <1>8

-----------------------------------------------------------------------------
(***************************************************************************)
(* Sessions, and what they pass up.                                        *)
(***************************************************************************)
LEMMA StreamSent ==
    ASSUME Types, NEW t, Sent(t), NEW n, NEW chan
    PROVE  /\ Stream(n, chan) \subseteq Stream(n, chan)'
           /\ \A j \in Stream(n, chan)' :
                \/ j \in Stream(n, chan)
                \/ j = Len(sent) + 1 /\ n = t.from /\ chan = t.chan
           /\ \A j \in Stream(n, chan) : j \in 1..Len(sent) /\ sent'[j] = sent[j]
<1>1. PICK K \in Nat : /\ K = Len(sent) /\ Len(sent') = K + 1
                       /\ \A j \in 1..K : sent'[j] = sent[j]
                       /\ sent'[K + 1] = t
    BY SentGrows
<1>2. \A j \in 1..(K + 1) : j \in 1..K \/ j = K + 1
    OBVIOUS
<1> QED
    BY <1>1, <1>2 DEF Stream

LEMMA SessionKept ==
    ASSUME Types, Sessions, NEW p \in 1..Len(ports), NEW k \in 1..Len(sent),
           sent[k].chan = ports[p].chan
    PROVE  Kept(Session(ports[p], k), sent[k].from, ports[p].chan)
<1>1. k \in Stream(sent[k].from, ports[p].chan)
    BY DEF Stream
<1>2. CASE sent[k].from \in DOMAIN ports[p].sessions
    BY <1>2 DEF Sessions, Session
<1>3. CASE sent[k].from \notin DOMAIN ports[p].sessions
    <2>1. (sent[k].tid - 1) % TIDs \in 0..(TIDs - 1)
        BY SentTyped, Successor
    <2> QED
        BY <1>1, <1>3, <2>1 DEF Session, Kept
<1> QED
    BY <1>2, <1>3

LEMMA TurnKept ==
    ASSUME Types, NEW s, NEW k, NEW o, NEW new, NEW out, NEW n, NEW chan,
           Kept(s, n, chan), k \in Stream(n, chan), Turn(s, new, out, k, o)
    PROVE  Kept(new, n, chan)
<1>1. sent[k].tid \in 0..(TIDs - 1)
    BY SentTyped DEF Stream
<1>2. CASE Stale(s, k) /\ new = s /\ DOMAIN out = {}
    BY <1>2
<1>3. ASSUME NEW D, Gathers(s, k, o, D), Cardinality(D) < sent[k].size,
             new = [lastTID |-> s.lastTID, slot |-> SlotOf(k, D)]
      PROVE  Kept(new, n, chan)
    <2>1. Filled(SlotOf(k, D), k)
        BY <1>3 DEF Gathers, SlotOf, Filled
    <2> QED
        BY <1>3, <2>1 DEF Kept
<1>4. CASE new = [lastTID |-> sent[k].tid, slot |-> NoSlot]
    BY <1>1, <1>4 DEF Kept
<1> QED
    BY <1>2, <1>3, <1>4 DEF Turn

LEMMA SessionsSent ==
    ASSUME Types, Sessions, NEW t, Sent(t)
    PROVE  Sessions'
<1>1. UNCHANGED ports
    BY DEF Sent, rxVars
<1>2. ASSUME NEW s, NEW n, NEW chan, Kept(s, n, chan) PROVE Kept(s, n, chan)'
    <2>1. /\ s = [lastTID |-> s.lastTID, slot |-> s.slot] /\ s.lastTID \in 0..(TIDs - 1)
          /\ Stream(n, chan)' # {}
        BY <1>2, StreamSent DEF Kept
    <2>2. ASSUME s.slot # NoSlot
          PROVE  \E k \in Stream(n, chan)' : Filled(s.slot, k)'
        <3>1. PICK k \in Stream(n, chan) : Filled(s.slot, k)
            BY <1>2, <2>2 DEF Kept
        <3>2. k \in Stream(n, chan)' /\ sent'[k] = sent[k]
            BY StreamSent
        <3> QED
            BY <3>1, <3>2 DEF Filled
    <2> QED
        BY <2>1, <2>2 DEF Kept
<1>3. ASSUME NEW p \in 1..Len(ports), NEW n \in DOMAIN ports[p].sessions
      PROVE  Kept(ports[p].sessions[n], n, ports[p].chan)'
    <2>1. PICK s, chan : s = ports[p].sessions[n] /\ chan = ports[p].chan
        OBVIOUS
    <2>2. Kept(s, n, chan)'
        BY <1>2, <2>1 DEF Sessions
    <2>3. s = ports'[p].sessions[n] /\ chan = ports'[p].chan
        BY <1>1, <2>1
    <2> QED
        BY <2>2, <2>3
<1> QED
    BY <1>1, <1>3 DEF Sessions

LEMMA KeptSame ==
    ASSUME UNCHANGED sent, NEW s, NEW n, NEW chan, Kept(s, n, chan)
    PROVE  Kept(s, n, chan)'
<1>1. Stream(n, chan)' = Stream(n, chan)
    BY DEF Stream
<1>2. ASSUME s.slot # NoSlot PROVE \E k \in Stream(n, chan)' : Filled(s.slot, k)'
    <2>1. PICK k \in Stream(n, chan) : Filled(s.slot, k)
        BY <1>2 DEF Kept
    <2>2. Filled(s.slot, k)'
        BY <2>1 DEF Filled
    <2> QED
        BY <1>1, <2>2
<1>3. /\ s = [lastTID |-> s.lastTID, slot |-> s.slot] /\ s.lastTID \in 0..(TIDs - 1)
      /\ Stream(n, chan)' # {}
    BY <1>1 DEF Kept
<1> QED
    BY <1>2, <1>3 DEF Kept

\* The sessions of one port after a step.
LEMMA KeptAfter ==
    ASSUME UNCHANGED sent, NEW p, NEW n, Kept(ports'[p].sessions[n], n, ports'[p].chan)
    PROVE  Kept(ports[p].sessions[n], n, ports[p].chan)'
<1>1. PICK s, chan : s = ports'[p].sessions[n] /\ chan = ports'[p].chan
    OBVIOUS
<1>2. Kept(s, n, chan)'
    BY <1>1, KeptSame
<1> QED
    BY <1>1, <1>2

LEMMA SessionsSame ==
    ASSUME Sessions, UNCHANGED <<sent, ports>>
    PROVE  Sessions'
<1>1. ASSUME NEW p \in 1..Len(ports), NEW n \in DOMAIN ports[p].sessions
      PROVE  Kept(ports[p].sessions[n], n, ports[p].chan)'
    <2>1. Kept(ports'[p].sessions[n], n, ports'[p].chan)
        BY DEF Sessions
    <2> QED
        BY <2>1, KeptAfter
<1> QED
    BY <1>1 DEF Sessions

\* The ports after NewSubjectReader.
LEMMA PortAdded ==
    ASSUME Types, NEW chan, NewSubjectReader(chan)
    PROVE  /\ Len(ports') = Len(ports) + 1 /\ Len(ports) \in Nat
           /\ \A p \in 1..Len(ports) : ports'[p] = ports[p] /\ heard'[p] = heard[p]
           /\ ports'[Len(ports) + 1] = NewPort(chan, chan <= SubjectIDModulus)
           /\ heard'[Len(ports) + 1] = {}
           /\ UNCHANGED <<sent, hand, log, crossed>>
BY AppendListed DEF Types, NewSubjectReader, Listed

LEMMA SessionsReader ==
    ASSUME Types, Sessions, NEW chan, NewSubjectReader(chan)
    PROVE  Sessions'
<1>1. ASSUME NEW p \in 1..Len(ports'), NEW n \in DOMAIN ports'[p].sessions
      PROVE  Kept(ports[p].sessions[n], n, ports[p].chan)'
    <2>1. CASE p \in 1..Len(ports)
        <3>1. Kept(ports'[p].sessions[n], n, ports'[p].chan) /\ UNCHANGED sent
            BY <1>1, <2>1, PortAdded DEF Sessions
        <3> QED
            BY <3>1, KeptAfter
    <2>2. CASE p = Len(ports) + 1
        <3>1. ports'[p] = NewPort(chan, chan <= SubjectIDModulus)
            BY <2>2, PortAdded
        <3>2. DOMAIN ports'[p].sessions = {}
            BY <3>1 DEF NewPort
        <3> QED
            BY <1>1, <3>2
    <2> QED
        BY <2>1, <2>2, PortAdded
<1> QED
    BY <1>1 DEF Sessions

\* The sessions of a stateful port that takes a frame.
LEMMA SessionTaken ==
    ASSUME NEW q0, NEW q, NEW out, NEW k, NEW o, Reassembles(q0, q, out, k, o),
           q0 = [chan |-> q0.chan, stateful |-> q0.stateful, history |-> q0.history,
                 sessions |-> q0.sessions]
    PROVE  /\ Turn(Session(q0, k), q.sessions[sent[k].from], out, k, o)
           /\ DOMAIN q.sessions = DOMAIN q0.sessions \cup {sent[k].from}
           /\ \A n \in DOMAIN q0.sessions \ {sent[k].from} : q.sessions[n] = q0.sessions[n]
<1>1. PICK new : /\ Turn(Session(q0, k), new, out, k, o)
                 /\ q = [q0 EXCEPT !.sessions = Put(q0.sessions, sent[k].from, new)]
    BY DEF Reassembles
<1>2. q.sessions = Put(q0.sessions, sent[k].from, new)
    BY <1>1
<1>3. /\ q.sessions[sent[k].from] = new
      /\ DOMAIN q.sessions = DOMAIN q0.sessions \cup {sent[k].from}
      /\ \A n \in DOMAIN q0.sessions \ {sent[k].from} : q.sessions[n] = q0.sessions[n]
    BY <1>2 DEF Put
<1> QED
    BY <1>1, <1>3

LEMMA SessionsTaken ==
    ASSUME Types, Sessions, NEW p, NEW f, NEW q, NEW out, Takes(p, f, q, out),
           Accepts(ports[p], q, out, f)
    PROVE  Sessions'
<1>1. /\ p \in 1..Len(ports) /\ f[1] \in 1..Len(sent) /\ sent[f[1]].chan = ports[p].chan
      /\ UNCHANGED sent
    BY DEF Takes, TakesHand, Frame
<1>2. /\ IsPort(q) /\ q.chan = ports[p].chan /\ Len(ports') = Len(ports)
      /\ \A r \in 1..Len(ports) : ports'[r] = IF r = p THEN q ELSE ports[r]
    BY DEF Takes, TakesPort
<1>3. ASSUME NEW n \in DOMAIN q.sessions PROVE Kept(q.sessions[n], n, ports[p].chan)
    <2>1. CASE ports[p].stateful
        <3>1. Reassembles(ports[p], q, out, f[1], f[2]) /\ IsPort(ports[p])
            BY <1>1, <2>1 DEF Accepts, Types
        <3>2. /\ Turn(Session(ports[p], f[1]), q.sessions[sent[f[1]].from], out, f[1], f[2])
              /\ DOMAIN q.sessions = DOMAIN ports[p].sessions \cup {sent[f[1]].from}
              /\ \A m \in DOMAIN ports[p].sessions \ {sent[f[1]].from} :
                    q.sessions[m] = ports[p].sessions[m]
            BY <3>1, SessionTaken DEF IsPort
        <3>3. CASE n = sent[f[1]].from
            <4>1. f[1] \in Stream(n, ports[p].chan)
                BY <1>1, <3>3 DEF Stream
            <4> QED
                BY <1>1, <3>2, <3>3, <4>1, SessionKept, TurnKept
        <3>4. CASE n # sent[f[1]].from
            BY <1>1, <1>3, <3>2, <3>4 DEF Sessions
        <3> QED
            BY <3>3, <3>4
    <2>2. CASE ~ports[p].stateful
        <3>1. Remembers(ports[p], q, out, f[1]) /\ IsPort(ports[p])
            BY <1>1, <2>2 DEF Accepts, Types
        <3>2. q.sessions = ports[p].sessions
            BY <3>1 DEF Remembers, IsPort
        <3> QED
            BY <1>1, <1>3, <3>2 DEF Sessions
    <2> QED
        BY <2>1, <2>2
<1>4. ASSUME NEW r \in 1..Len(ports), NEW n \in DOMAIN ports'[r].sessions
      PROVE  Kept(ports[r].sessions[n], n, ports[r].chan)'
    <2>1. Kept(ports'[r].sessions[n], n, ports'[r].chan)
        BY <1>1, <1>2, <1>3, <1>4 DEF Sessions
    <2> QED
        BY <1>1, <2>1, KeptAfter
<1> QED
    BY <1>1, <1>2, <1>4 DEF Sessions

LEMMA PayloadsSent ==
    ASSUME Types, Received, Payloads, NEW t, Sent(t)
    PROVE  Payloads'
<1>1. UNCHANGED <<ports, log>>
    BY DEF Sent, rxVars
<1>2. ASSUME NEW i \in 1..Len(log) PROVE Intact(log[i])'
    <2>1. Intact(log[i]) /\ log[i].tr \in 1..Len(sent)
        BY DEF Payloads, Received, Entry
    <2>2. sent'[log[i].tr] = sent[log[i].tr]
        BY <2>1, SentGrows
    <2> QED
        BY <1>1, <2>1, <2>2 DEF Intact
<1> QED
    BY <1>1, <1>2 DEF Payloads

LEMMA PayloadsSame ==
    ASSUME Payloads, UNCHANGED <<sent, ports, log>>
    PROVE  Payloads'
BY DEF Payloads, Intact

LEMMA PayloadsReader ==
    ASSUME Types, Received, Payloads, NEW chan, NewSubjectReader(chan)
    PROVE  Payloads'
<1>1. ASSUME NEW i \in 1..Len(log) PROVE Intact(log[i])'
    <2>1. Intact(log[i]) /\ log[i].port \in 1..Len(ports)
        BY DEF Payloads, Received, Entry
    <2>2. ports'[log[i].port] = ports[log[i].port] /\ UNCHANGED <<sent, log>>
        BY <2>1, PortAdded
    <2> QED
        BY <2>1, <2>2 DEF Intact
<1> QED
    BY <1>1, PortAdded DEF Payloads

\* What a port hands out is the payload of the frame's transfer.
LEMMA HandsOut ==
    ASSUME NEW q0, NEW q, NEW out, NEW f, Accepts(q0, q, out, f), DOMAIN out # {}
    PROVE  out = IF q0.stateful THEN [o \in 0..(sent[f[1]].size - 1) |-> f[1]]
                 ELSE [o \in {0} |-> f[1]]
<1>1. CASE q0.stateful
    <2>1. PICK new : Turn(Session(q0, f[1]), new, out, f[1], f[2])
        BY <1>1 DEF Accepts, Reassembles
    <2> QED
        BY <1>1, <2>1 DEF Turn
<1>2. CASE ~q0.stateful
    BY <1>2 DEF Accepts, Remembers
<1> QED
    BY <1>1, <1>2

LEMMA PayloadsTaken ==
    ASSUME Types, Received, Payloads, NEW p, NEW f, NEW q, NEW out, Takes(p, f, q, out),
           Accepts(ports[p], q, out, f)
    PROVE  Payloads'
<1>1. /\ UNCHANGED sent
      /\ p \in 1..Len(ports) /\ \A r \in 1..Len(ports) : ports'[r].stateful = ports[r].stateful
    BY DEF Takes, TakesHand, TakesPort
<1>2. ASSUME NEW i \in 1..Len(log') PROVE Intact(log[i])'
    <2>1. CASE i \in 1..Len(log) /\ log'[i] = log[i]
        <3>1. Intact(log[i]) /\ log[i].port \in 1..Len(ports)
            BY <2>1 DEF Payloads, Received, Entry
        <3> QED
            BY <1>1, <2>1, <3>1 DEF Intact
    <2>2. CASE DOMAIN out # {} /\ log'[i] = Message(p, f[1], out)
        <3>1. log'[i].port = p /\ log'[i].tr = f[1] /\ log'[i].payload = out
            BY <2>2 DEF Message
        <3> QED
            BY <1>1, <2>2, <3>1, HandsOut DEF Intact
    <2> QED
        BY <1>2, <2>1, <2>2, LogTaken DEF Takes
<1> QED
    BY <1>2 DEF Payloads

LEMMA OnNetworkStep ==
    ASSUME Types, Counters, Newest, OnNetwork, [Next]_vars
    PROVE  OnNetwork'
<1>1. ASSUME NEW n, NEW chan, NEW tid, NEW size, NEW copies \in {0, 1, Interfaces},
             SendTransfer(n, chan, tid, size, copies), NEW t, Sent(t), t.size = size
      PROVE  OnNetwork'
    <2>1. PICK K \in Nat : /\ K = Len(sent) /\ Len(sent') = K + 1
                           /\ \A j \in 1..K : sent'[j] = sent[j]
                           /\ sent'[K + 1] = t
        BY <1>1, SentGrows
    <2>2. copies \in 0..Interfaces
        BY UdpAssumption
    <2>3. PICK new : /\ new = {K + 1} \X (0..(size - 1))
                     /\ net' = [f \in DOMAIN net \cup new |-> IF f \in new THEN copies ELSE net[f]]
        BY <1>1, <2>1 DEF SendTransfer
    <2>4. ASSUME NEW f \in DOMAIN net \cup new PROVE net'[f] \in 0..Interfaces
        BY <2>2, <2>3 DEF OnNetwork
    <2>5. ASSUME NEW f \in new PROVE Frame(f)'
        BY <1>1, <2>1, <2>3 DEF Frame
    <2>6. ASSUME NEW f \in DOMAIN net PROVE Frame(f)'
        BY <2>1 DEF Frame, OnNetwork
    <2>7. DOMAIN net' = DOMAIN net \cup new
        BY <2>3
    <2> QED
        BY <2>4, <2>5, <2>6, <2>7 DEF OnNetwork
<1>2. ASSUME NEW w \in Traffic, NEW size \in Sizes,
             NEW tid \in Seeds \cup {writers[v] : v \in DOMAIN writers},
             SubjectWriterSend(w[1], w[2], size, tid)
      PROVE  OnNetwork'
    <2>1. \E t : Sent(t) /\ t.size = size
        BY <1>2, WriterSends, UdpAssumption
    <2>2. SendTransfer(w[1], w[2], tid, size, Interfaces)
        BY <1>2 DEF SubjectWriterSend
    <2> QED
        BY <1>1, <2>1, <2>2
<1>3. ASSUME NEW n \in Nodes \ {Self}, NEW size \in Sizes, NEW endpoints \in {0, 1},
             Unicast(n, size, endpoints)
      PROVE  OnNetwork'
    <2>1. \E t : Sent(t) /\ t.size = size
        BY <1>3, UnicastSends, UdpAssumption
    <2>2. SendTransfer(n, Unicasts, unicastTID[n], size, endpoints)
        BY <1>3 DEF Unicast
    <2> QED
        BY <1>1, <2>1, <2>2
<1>4. ASSUME NEW f \in DOMAIN net, RxRead(f) PROVE OnNetwork'
    <2>1. Interfaces \in Nat /\ net[f] \in 0..Interfaces /\ net[f] > 0
        BY <1>4, UdpAssumption DEF RxRead, OnNetwork
    <2>2. DOMAIN net' = DOMAIN net /\ \A g \in DOMAIN net : net'[g] \in 0..Interfaces
        BY <1>4, <2>1 DEF RxRead, OnNetwork
    <2>3. UNCHANGED sent
        BY <1>4 DEF RxRead
    <2> QED
        BY <2>2, <2>3 DEF OnNetwork, Frame
<1>5. ASSUME UNCHANGED <<sent, net>> PROVE OnNetwork'
    BY <1>5 DEF OnNetwork, Frame
<1>6. ASSUME \/ \E w \in Traffic : DestroySubjectWriter(w[1], w[2])
             \/ Destroy \/ HandleDatagram \/ IgnoreOwn \/ UNCHANGED vars
             \/ \E chan \in Subjects : NewSubjectReader(chan) \/ DestroySubjectReader(chan)
      PROVE  UNCHANGED <<sent, net>>
    BY <1>6 DEF DestroySubjectWriter, Destroy, HandleDatagram, IgnoreOwn, vars,
        NewSubjectReader, DestroySubjectReader
<1> QED
    BY <1>2, <1>3, <1>4, <1>5, <1>6 DEF Next, RxLoop

LEMMA CoreInit ==
    ASSUME Init
    PROVE  Core
<1>1. /\ sent = <<>> /\ log = <<>> /\ hand = None
      /\ ports = <<NewPort(Unicasts, TRUE)>> /\ heard = <<{}>>
      /\ readers = [c \in {Unicasts} |-> 1] /\ DOMAIN net = {}
      /\ DOMAIN writers = {} /\ unicastTID = [n \in Nodes |-> 0]
    BY DEF Init
<1>2. PICK q : q = NewPort(Unicasts, TRUE) /\ ports = <<q>>
    BY <1>1
<1>3. /\ Len(ports) = 1 /\ ports[1] = q /\ heard[1] = {} /\ \A p \in 1..Len(ports) : p = 1
      /\ Len(sent) = 0 /\ Len(log) = 0
    BY <1>1, <1>2
<1>4. IsPort(q) /\ q.chan = Unicasts /\ DOMAIN q.sessions = {}
    BY <1>2 DEF NewPort, IsPort
<1>5. Counters /\ OnNetwork
    BY <1>1 DEF Counters, OnNetwork
<1>6. Routed /\ Received /\ Unique
    BY <1>1, <1>3 DEF Routed, Received, Unique
<1>7. Newest
    <2>1. DOMAIN readers = {Unicasts} /\ readers[Unicasts] = 1
        BY <1>1
    <2>2. ASSUME NEW c \in DOMAIN readers
          PROVE  /\ c \in Channels /\ readers[c] \in 1..Len(ports) /\ ports[readers[c]].chan = c
                 /\ \A p \in 1..Len(ports) : p <= readers[c]
        BY <1>3, <1>4, <2>1 DEF Channels
    <2> QED
        BY <1>1, <2>2 DEF Newest
<1>8. Types
    <2>1. Listed(ports) /\ Listed(log) /\ Listed(heard) /\ Len(heard) = 1
        BY <1>1, <1>2 DEF Listed
    <2>2. \A p \in 1..Len(ports) : IsPort(ports[p])
        BY <1>3, <1>4
    <2>3. sent \in Seq(Transfers)
        BY <1>1
    <2> QED
        BY <1>3, <2>1, <2>2, <2>3 DEF Types
<1>9. Sessions /\ Payloads
    BY <1>3, <1>4 DEF Sessions, Payloads
<1> QED
    BY <1>5, <1>6, <1>7, <1>8, <1>9 DEF Core, Base

LEMMA CoreStep ==
    ASSUME Core, [Next]_vars
    PROVE  Core'
<1>1. /\ Types /\ Counters /\ OnNetwork /\ Routed /\ Received /\ Newest /\ Unique
      /\ Sessions /\ Payloads
    BY DEF Core, Base
<1>2. Counters' /\ OnNetwork'
    BY <1>1, StepClasses, OnNetworkStep
<1>3. SUFFICES Types' /\ Routed' /\ Received' /\ Newest' /\ Unique' /\ Sessions' /\ Payloads'
    BY <1>2 DEF Core, Base
<1>4. ASSUME NEW t, Sent(t)
      PROVE  Types' /\ Routed' /\ Received' /\ Newest' /\ Unique' /\ Sessions' /\ Payloads'
    BY <1>1, <1>4, BaseSent, SessionsSent, PayloadsSent
<1>5. CASE Quiet
    <2>1. UNCHANGED <<sent, ports, log>>
        BY <1>5 DEF Quiet
    <2> QED
        BY <1>1, <1>5, <2>1, BaseQuiet, SessionsSame, PayloadsSame
<1>6. ASSUME NEW chan \in Subjects, NewSubjectReader(chan)
      PROVE  Types' /\ Routed' /\ Received' /\ Newest' /\ Unique' /\ Sessions' /\ Payloads'
    BY <1>1, <1>6, BaseReader, SessionsReader, PayloadsReader
<1>7. ASSUME NEW f \in DOMAIN net, RxRead(f)
      PROVE  Types' /\ Routed' /\ Received' /\ Newest' /\ Unique' /\ Sessions' /\ Payloads'
    <2>1. UNCHANGED <<sent, ports, log>>
        BY <1>7 DEF RxRead
    <2> QED
        BY <1>1, <1>7, <2>1, BaseRead, SessionsSame, PayloadsSame
<1>8. CASE HandleDatagram
    <2>1. PICK p, f, q, out : Takes(p, f, q, out) /\ Accepts(ports[p], q, out, f)
        BY <1>1, <1>8, Handling
    <2> QED
        BY <1>1, <2>1, BaseTaken, SessionsTaken, PayloadsTaken
<1> QED
    BY <1>1, <1>4, <1>5, <1>6, <1>7, <1>8, StepClasses

LEMMA CoreInvariance == Spec => []Core
<1> QED
    BY CoreInit, CoreStep, PTL DEF Spec

\* What is passed up is one transfer, whole (the slot's check of the transfer-ID,
\* and its replacement by a later transfer, in acceptStateful; the history of
\* acceptStateless and its first frame), however many frames of however many
\* transfers interleave, and through any number of writers and readers.
THEOREM UdpPayloadIntact == Spec => []PayloadIntact
<1>1. ASSUME Core PROVE PayloadIntact
    <2>1. /\ Types /\ Counters /\ OnNetwork /\ Newest /\ Sessions /\ Payloads
        BY <1>1 DEF Core, Base
    <2>2. DOMAIN net \subseteq (1..Len(sent)) \X Nat /\ \A f \in DOMAIN net : net[f] \in 0..Interfaces
        BY <2>1 DEF OnNetwork, Frame
    <2>3. /\ DOMAIN writers \subseteq Nodes \X Subjects /\ DOMAIN readers \subseteq Channels
          /\ \A c \in DOMAIN readers : readers[c] \in 1..Len(ports)
          /\ Len(heard) = Len(ports)
        BY <2>1 DEF Types, Counters, Newest
    <2>4. ASSUME NEW p \in 1..Len(ports), NEW u \in DOMAIN ports[p].sessions
          PROVE  /\ ports[p].sessions[u].lastTID \in 0..(TIDs - 1)
                 /\ \/ ports[p].sessions[u].slot = NoSlot
                    \/ Cardinality(DOMAIN ports[p].sessions[u].slot.frags)
                         < ports[p].sessions[u].slot.total
        <3>1. PICK s : s = ports[p].sessions[u] /\ Kept(s, u, ports[p].chan)
            BY <2>1 DEF Sessions
        <3>2. ASSUME s.slot # NoSlot PROVE Cardinality(DOMAIN s.slot.frags) < s.slot.total
            <4>1. PICK k : Filled(s.slot, k)
                BY <3>1, <3>2 DEF Kept
            <4>2. s.slot.total = sent[k].size /\ Cardinality(DOMAIN s.slot.frags) < sent[k].size
                BY <4>1 DEF Filled
            <4> QED
                BY <4>2
        <3> QED
            BY <3>1, <3>2 DEF Kept
    <2>5. TypeOK
        BY <2>2, <2>3, <2>4 DEF TypeOK
    <2> QED
        BY <2>1, <2>5 DEF PayloadIntact, Payloads, Intact
<1> QED
    BY <1>1, CoreInvariance, PTL

-----------------------------------------------------------------------------
(***************************************************************************)
(* After DestroySubjectReader.                                             *)
(***************************************************************************)
\* Only a new reader makes a port that may be given frames.
LEMMA FedStep ==
    ASSUME Core, NEW p \in 1..Len(ports), Fed(p)',
           \/ \E t : Sent(t)
           \/ Quiet
           \/ \E chan \in Subjects : NewSubjectReader(chan)
           \/ \E f \in DOMAIN net : RxRead(f)
           \/ \E r, f, q, out : Takes(r, f, q, out)
    PROVE  Fed(p)
<1>1. CASE UNCHANGED <<readers, hand>>
    BY <1>1 DEF Fed
<1>2. (\E t : Sent(t)) => UNCHANGED <<readers, hand>>
    BY DEF Sent, rxVars
<1>3. CASE Quiet
    BY <1>3 DEF Quiet, Fed
<1>4. ASSUME NEW chan, NewSubjectReader(chan) PROVE Fed(p)
    <2>1. /\ UNCHANGED hand /\ DOMAIN readers' = DOMAIN readers \cup {chan}
          /\ readers' = Put(readers, chan, Len(ports) + 1)
        BY <1>4 DEF NewSubjectReader, Put
    <2>2. Len(ports) \in Nat /\ p # Len(ports) + 1
        BY DEF Core, Base, Types, Listed
    <2> QED
        BY <2>1, <2>2 DEF Fed, Put
<1>5. ASSUME NEW f, RxRead(f) PROVE Fed(p)
    <2>1. /\ UNCHANGED readers /\ hand'.port = readers[sent[f[1]].chan]
          /\ sent[f[1]].chan \in DOMAIN readers
        BY <1>5 DEF RxRead
    <2> QED
        BY <2>1 DEF Fed
<1>6. ASSUME NEW r, NEW f, NEW q, NEW out, Takes(r, f, q, out) PROVE Fed(p)
    BY <1>6 DEF Takes, TakesHand, Fed
<1> QED
    BY <1>1, <1>2, <1>3, <1>4, <1>5, <1>6

LEMMA LateTaken ==
    ASSUME Core, Lateness, LateAtMostOne, NEW p, NEW f, NEW q, NEW out, Takes(p, f, q, out)
    PROVE  Lateness' /\ LateAtMostOne'
<1>1. /\ Fed(p) /\ hand' = None /\ UNCHANGED readers
    BY DEF Takes, TakesHand, Fed
<1>2. ASSUME NEW i \in 1..Len(log')
      PROVE  \/ i \in 1..Len(log) /\ log'[i] = log[i]
             \/ i = Len(log) + 1 /\ log'[i] = Message(p, f[1], out)
    BY <1>2, LogTaken DEF Takes, Core, Base
<1>3. ASSUME NEW i \in 1..Len(log'), log'[i].late PROVE ~Fed(log[i].port)'
    <2>1. CASE i \in 1..Len(log) /\ log'[i] = log[i]
        <3>1. PICK r : r = log'[i].port /\ ~Fed(r) /\ r \in 1..Len(ports)
            BY <1>3, <2>1 DEF Lateness, Core, Base, Received, Entry
        <3>2. ~Fed(r)'
            BY <3>1, FedStep
        <3> QED
            BY <3>1, <3>2 DEF Fed
    <2>2. CASE log'[i] = Message(p, f[1], out)
        BY <1>1, <1>3, <2>2 DEF Message, Fed
    <2> QED
        BY <1>2, <2>1, <2>2
<1>4. ASSUME NEW i \in 1..Len(log), log[i].late PROVE log[i].port # p
    BY <1>1, <1>4 DEF Lateness
<1>5. ASSUME NEW i \in 1..Len(log'), NEW j \in 1..Len(log'), log'[i].port = log'[j].port,
             log'[i].late, log'[j].late
      PROVE  i = j
    <2>1. Message(p, f[1], out).port = p
        BY DEF Message
    <2>2. CASE i \in 1..Len(log) /\ log'[i] = log[i] /\ j \in 1..Len(log) /\ log'[j] = log[j]
        BY <1>5, <2>2 DEF LateAtMostOne
    <2> QED
        BY <1>2, <1>4, <1>5, <2>1, <2>2
<1> QED
    BY <1>3, <1>5 DEF Lateness, LateAtMostOne

LEMMA LateStep ==
    ASSUME Core, Lateness, LateAtMostOne, [Next]_vars
    PROVE  Lateness' /\ LateAtMostOne'
<1>1. CASE HandleDatagram
    <2>1. PICK p, f, q, out : Takes(p, f, q, out)
        BY <1>1, Handling DEF Core, Base
    <2> QED
        BY <2>1, LateTaken
<1>2. CASE ~HandleDatagram
    <2>1. \/ \E t : Sent(t)
          \/ Quiet
          \/ \E chan \in Subjects : NewSubjectReader(chan)
          \/ \E f \in DOMAIN net : RxRead(f)
        BY <1>2, StepClasses DEF Core, Base
    <2>2. UNCHANGED log
        BY <2>1 DEF Sent, rxVars, Quiet, NewSubjectReader, RxRead
    <2>3. ASSUME NEW i \in 1..Len(log), log[i].late PROVE ~Fed(log[i].port)'
        <3>1. PICK r : r = log[i].port /\ ~Fed(r) /\ r \in 1..Len(ports)
            BY <2>3 DEF Lateness, Core, Base, Received, Entry
        <3>2. ~Fed(r)'
            BY <2>1, <3>1, FedStep
        <3> QED
            BY <2>2, <3>1, <3>2 DEF Fed
    <2> QED
        BY <2>2, <2>3 DEF Lateness, LateAtMostOne
<1> QED
    BY <1>1, <1>2

\* After DestroySubjectReader at most one message is passed up: the one whose
\* frame the receive loop had read (rxLoop reads the socket before it takes the
\* lock of the port).  A reader that is made anew for the subject has a port of
\* its own.
THEOREM UdpLateAtMostOne == Spec => []LateAtMostOne
<1>1. ASSUME Init PROVE Core /\ Lateness /\ LateAtMostOne
    <2>1. Len(log) = 0
        BY <1>1 DEF Init
    <2> QED
        BY <1>1, <2>1, CoreInit DEF Lateness, LateAtMostOne
<1>2. ASSUME Core, Lateness, LateAtMostOne, [Next]_vars
      PROVE  Core' /\ Lateness' /\ LateAtMostOne'
    BY <1>2, CoreStep, LateStep
<1> QED
    BY <1>1, <1>2, PTL DEF Spec

-----------------------------------------------------------------------------
(***************************************************************************)
(* The stateless ports.                                                    *)
(***************************************************************************)
\* Nothing is passed up, and ports keep what they have.
Carried ==
    /\ UNCHANGED log
    /\ \A k \in 1..Len(sent) : k \in 1..Len(sent') /\ sent'[k] = sent[k]
    /\ \A p \in 1..Len(ports) : ports'[p] = ports[p] /\ heard'[p] = heard[p]
    /\ \A p \in 1..Len(ports') :
        \/ p \in 1..Len(ports)
        \/ /\ heard'[p] = {} /\ ports'[p].history = <<{}, {}>>
           /\ DOMAIN ports'[p].sessions = {} /\ p = Len(ports) + 1

LEMMA CarriedStep ==
    ASSUME Types,
           \/ \E t : Sent(t)
           \/ Quiet
           \/ \E chan \in Subjects : NewSubjectReader(chan)
           \/ \E f \in DOMAIN net : RxRead(f)
    PROVE  Carried
<1>1. ASSUME NEW t, Sent(t) PROVE Carried
    <2>1. PICK K \in Nat : /\ K = Len(sent) /\ Len(sent') = K + 1
                           /\ \A j \in 1..K : sent'[j] = sent[j]
        BY <1>1, SentGrows
    <2>2. \A j \in 1..K : j \in 1..(K + 1)
        OBVIOUS
    <2>3. UNCHANGED <<ports, heard, log>>
        BY <1>1 DEF Sent, rxVars
    <2> QED
        BY <2>1, <2>2, <2>3 DEF Carried
<1>2. ASSUME UNCHANGED <<sent, ports, heard, log>> PROVE Carried
    BY <1>2 DEF Carried
<1>3. Quiet => UNCHANGED <<sent, ports, heard, log>>
    BY DEF Quiet
<1>4. ASSUME NEW f, RxRead(f) PROVE UNCHANGED <<sent, ports, heard, log>>
    BY <1>4 DEF RxRead
<1>5. ASSUME NEW chan, NewSubjectReader(chan) PROVE Carried
    <2> PICK P : P = Len(ports)
        OBVIOUS
    <2> PICK q : q = NewPort(chan, chan <= SubjectIDModulus)
        OBVIOUS
    <2>1. /\ P \in Nat /\ Len(ports') = P + 1
          /\ ports'[P + 1] = q /\ heard'[P + 1] = {}
        BY <1>5, PortAdded
    <2>2. q.history = <<{}, {}>> /\ DOMAIN q.sessions = {}
        BY DEF NewPort
    <2>3. /\ \A p \in 1..P : ports'[p] = ports[p] /\ heard'[p] = heard[p]
          /\ UNCHANGED <<sent, log>>
        BY <1>5, <2>1, PortAdded
    <2>4. \A p \in 1..(P + 1) : p \in 1..P \/ p = P + 1
        OBVIOUS
    <2> QED
        BY <2>1, <2>2, <2>3, <2>4 DEF Carried
<1> QED
    BY <1>1, <1>2, <1>3, <1>4, <1>5

\* The fingerprints of the transfers of a channel differ.
LEMMA FingerprintsDiffer ==
    ASSUME Types, Unique, NEW j \in 1..Len(sent), NEW k \in 1..Len(sent),
           sent[j].chan = sent[k].chan, FP(j) = FP(k)
    PROVE  j = k
<1>1. /\ sent[j].from \in Nodes /\ sent[j].tid \in 0..(TIDs - 1)
      /\ sent[k].from \in Nodes /\ sent[k].tid \in 0..(TIDs - 1)
    BY SentTyped
<1>2. sent[j].tid = sent[k].tid /\ sent[j].from = sent[k].from
    BY <1>1, UdpAssumption DEF FP
<1> QED
    BY <1>2 DEF Unique

LEMMA FingerprintSet ==
    ASSUME Types, NEW k \in 1..Len(sent)
    PROVE  FP(k) # {}
<1>1. sent[k].from \in Nodes /\ sent[k].tid \in 0..(TIDs - 1)
    BY SentTyped
<1> QED
    BY <1>1, UdpAssumption DEF FP

LEMMA GivenSent ==
    ASSUME Received, NEW p \in 1..Len(ports), NEW k \in Given(p)
    PROVE  k \in 1..Len(sent) /\ sent[k].chan = ports[p].chan
BY DEF Given, Received, Frame

LEMMA LoggedGiven ==
    ASSUME Received, NEW i \in 1..Len(log)
    PROVE  log[i].port \in 1..Len(ports) /\ log[i].tr \in Given(log[i].port)
BY DEF Given, Received, Entry

LEMMA MemoryCarried ==
    ASSUME NEW p, NEW q, Memory(p, q), Given(p)' = Given(p),
           \A k \in Given(p) : sent'[k] = sent[k] /\ (PassedUp(p, k) => PassedUp(p, k)')
    PROVE  Memory(p, q)'
<1>1. \A k \in Given(p) : FP(k)' = FP(k)
    BY DEF FP
<1>2. ASSUME NEW fp, OfGiven(p, fp) PROVE OfGiven(p, fp)'
    BY <1>1, <1>2 DEF OfGiven
<1>3. \A k \in Given(p)' : sent'[k].size = 1 => PassedUp(p, k)'
    BY DEF Memory
<1> QED
    BY <1>2, <1>3 DEF Memory

LEMMA RecalledCarried ==
    ASSUME NEW p, NEW q, NEW k \in Given(p), Recalled(p, q, k), Given(p)' = Given(p),
           \A j \in Given(p) : sent'[j] = sent[j]
    PROVE  Recalled(p, q, k)'
<1>1. \A j \in Given(p) : FP(j)' = FP(j)
    BY DEF FP
<1> QED
    BY <1>1 DEF Recalled

LEMMA StatelessCarried ==
    ASSUME Core, Stateless, Carried
    PROVE  Stateless'
<1>1. Types /\ Received
    BY DEF Core, Base
<1>2. ASSUME NEW p \in 1..Len(ports)
      PROVE  /\ Given(p)' = Given(p) /\ ports'[p] = ports[p]
             /\ \A k \in Given(p) : sent'[k] = sent[k] /\ (PassedUp(p, k) => PassedUp(p, k)')
    <2>1. heard'[p] = heard[p] /\ ports'[p] = ports[p] /\ UNCHANGED log
        BY DEF Carried
    <2>2. \A k \in Given(p) : sent'[k] = sent[k]
        BY <1>1, GivenSent DEF Carried
    <2> QED
        BY <2>1, <2>2 DEF Given, PassedUp
<1>3. ASSUME NEW p \in 1..Len(ports'), ~ports'[p].stateful PROVE Memory(p, ports[p])'
    <2>1. PICK q : q = ports'[p]
        OBVIOUS
    <2>2. CASE p \in 1..Len(ports)
        <3>1. Memory(p, q)
            BY <1>2, <1>3, <2>1, <2>2 DEF Stateless
        <3>2. Memory(p, q)'
            BY <1>2, <2>2, <3>1, MemoryCarried
        <3> QED
            BY <2>1, <3>2
    <2>3. CASE heard'[p] = {} /\ q.history = <<{}, {}>>
        <3>1. Given(p)' = {}
            BY <2>3 DEF Given
        <3>2. q.history[1] = {} /\ q.history[2] = {}
            BY <2>3
        <3>3. Memory(p, q)'
            BY <2>3, <3>1, <3>2 DEF Memory, OfGiven
        <3> QED
            BY <2>1, <3>3
    <2> QED
        BY <2>1, <2>2, <2>3 DEF Carried
<1>4. ASSUME NEW i \in 1..Len(log), ~ports'[log[i].port].stateful
      PROVE  Recalled(log[i].port, ports[log[i].port], log[i].tr)'
    <2>1. PICK p, k : p = log[i].port /\ k = log[i].tr /\ p \in 1..Len(ports) /\ k \in Given(p)
        BY <1>1, LoggedGiven
    <2>2. PICK q : q = ports'[p] /\ q = ports[p]
        BY <1>2, <2>1
    <2>3. Recalled(p, q, k)
        BY <1>4, <2>1, <2>2 DEF Stateless
    <2>4. Recalled(p, q, k)'
        BY <1>2, <2>1, <2>3, RecalledCarried
    <2>5. log'[i] = log[i]
        BY DEF Carried
    <2> QED
        BY <2>1, <2>2, <2>4, <2>5
<1> QED
    BY <1>3, <1>4 DEF Stateless, Carried

LEMMA ThreeElements ==
    ASSUME NEW S, IsFiniteSet(S), NEW a \in S, NEW b \in S, NEW c \in S, a # b, a # c, b # c
    PROVE  Cardinality(S) > 2
<1>1. IsFiniteSet({a}) /\ Cardinality({a}) = 1
    BY FS_Singleton
<1>2. IsFiniteSet({a} \cup {b}) /\ Cardinality({a} \cup {b}) = 2
    <2>1. PICK A : A = {a}
        OBVIOUS
    <2>2. IsFiniteSet(A) /\ Cardinality(A) = 1 /\ b \notin A
        BY <1>1, <2>1
    <2>3. IsFiniteSet(A \cup {b}) /\ Cardinality(A \cup {b}) = 2
        BY ONLY <2>2, FS_AddElement
    <2> QED
        BY <2>1, <2>3
<1>3. PICK T : T = {a} \cup {b}
    OBVIOUS
<1>4. c \notin T
    BY <1>3
<1>5. IsFiniteSet(T \cup {c}) /\ Cardinality(T \cup {c}) = 3
    BY <1>2, <1>3, <1>4, FS_AddElement
<1>6. T \cup {c} \in SUBSET S
    BY <1>3
<1>7. Cardinality(T \cup {c}) <= Cardinality(S) /\ Cardinality(S) \in Nat
    BY <1>6, FS_Subset, FS_CardinalityType
<1> QED
    BY <1>5, <1>7

LEMMA GivenFinite ==
    ASSUME Types, Received, NEW p \in 1..Len(ports)
    PROVE  IsFiniteSet(Given(p)) /\ Cardinality(Given(p)) \in Nat
<1>1. Len(sent) \in Int
    BY DEF Types
<1>2. IsFiniteSet(1..Len(sent))
    BY <1>1, FS_Interval
<1>3. Given(p) \in SUBSET (1..Len(sent))
    BY GivenSent
<1> QED
    BY <1>2, <1>3, FS_Subset, FS_CardinalityType

LEMMA GivenTaken ==
    ASSUME NEW p, NEW f, NEW q, NEW out, Takes(p, f, q, out)
    PROVE  /\ Given(p)' = Given(p) \cup {f[1]}
           /\ \A r \in 1..Len(ports) : r # p => Given(r)' = Given(r)
<1>1. p \in 1..Len(ports)
    BY DEF Takes, TakesHand
<1>2. /\ heard'[p] = heard[p] \cup {f}
      /\ \A r \in 1..Len(ports) : r # p => heard'[r] = heard[r]
    BY <1>1 DEF Takes, TakesHeard
<1>3. Given(p)' = Given(p) \cup {f[1]}
    BY <1>2 DEF Given
<1>4. \A r \in 1..Len(ports) : r # p => Given(r)' = Given(r)
    BY <1>2 DEF Given
<1> QED
    BY <1>3, <1>4

\* What is passed up afterwards.
LEMMA PassedTaken ==
    ASSUME Types, NEW p, NEW f, NEW q, NEW out, Takes(p, f, q, out), NEW r, NEW k
    PROVE  PassedUp(r, k)' <=> PassedUp(r, k) \/ (DOMAIN out # {} /\ r = p /\ k = f[1])
<1>1. TakesLog(p, f, out) /\ Len(log) \in Nat
    BY DEF Takes, Types, Listed
<1>2. /\ \A i \in 1..Len(log) : i \in 1..Len(log') /\ log'[i] = log[i]
      /\ DOMAIN out # {} =>
            /\ Len(log) + 1 \in 1..Len(log')
            /\ log'[Len(log) + 1].port = p /\ log'[Len(log) + 1].tr = f[1]
    <2>1. CASE DOMAIN out = {}
        BY <1>1, <2>1 DEF TakesLog
    <2>2. CASE DOMAIN out # {}
        <3>1. /\ Len(log') = Len(log) + 1 /\ log'[Len(log) + 1] = Message(p, f[1], out)
              /\ \A i \in 1..Len(log) : log'[i] = log[i]
            BY <1>1, <2>2 DEF TakesLog
        <3>2. \A i \in 1..Len(log) : i \in 1..(Len(log) + 1)
            BY <1>1
        <3>3. Len(log) + 1 \in 1..(Len(log) + 1)
            BY <1>1
        <3> QED
            BY <3>1, <3>2, <3>3 DEF Message
    <2> QED
        BY <2>1, <2>2
<1>3. ASSUME NEW i \in 1..Len(log')
      PROVE  \/ i \in 1..Len(log) /\ log'[i] = log[i]
             \/ DOMAIN out # {} /\ log'[i].port = p /\ log'[i].tr = f[1]
    <2>1. Message(p, f[1], out).port = p /\ Message(p, f[1], out).tr = f[1]
        BY DEF Message
    <2> QED
        BY <1>1, <1>3, <2>1, LogTaken
<1> QED
    BY <1>2, <1>3 DEF PassedUp

\* The memory of a stateless port that takes a frame of transfer k.
LEMMA MemoryTaken ==
    ASSUME Types, Routed, Received, Unique, Stateless, NEW p, NEW f, NEW q, NEW out,
           Takes(p, f, q, out), ~ports[p].stateful, Accepts(ports[p], q, out, f)
    PROVE  Memory(p, q)'
<1>1. PICK k : k = f[1]
    OBVIOUS
<1>2. /\ p \in 1..Len(ports) /\ k \in 1..Len(sent) /\ sent[k].chan = ports[p].chan
      /\ UNCHANGED sent
    BY <1>1 DEF Takes, TakesHand, Frame
<1>3. Given(p)' = Given(p) \cup {k} /\ \A j \in Given(p) : j \in 1..Len(sent)
    BY <1>1, <1>2, GivenTaken, GivenSent
<1>4. Memory(p, ports[p]) /\ Remembers(ports[p], q, out, k) /\ IsPort(ports[p])
    BY <1>1, <1>2 DEF Stateless, Accepts, Types
<1>5. \A j \in 1..Len(sent) : FP(j)' = FP(j)
    BY <1>2 DEF FP
<1>6. ASSUME NEW fp, OfGiven(p, fp) \/ fp = FP(k) PROVE OfGiven(p, fp)'
    BY <1>2, <1>3, <1>5, <1>6 DEF OfGiven
<1>7. PICK h1, h2 : h1 = ports[p].history[1] /\ h2 = ports[p].history[2]
    OBVIOUS
<1>8. OfGiven(p, h1) /\ OfGiven(p, h2) /\ ports[p].history = <<h1, h2>>
    BY <1>4, <1>7 DEF Memory
<1>9. \A j \in Given(p) : sent[j].size = 1 => PassedUp(p, j)'
    BY <1>4, PassedTaken DEF Memory
<1>10. CASE FP(k) \in {h1, h2} /\ q = ports[p]
    <2>1. PICK j \in Given(p) : FP(k) = FP(j)
        BY <1>2, <1>8, <1>10, FingerprintSet DEF OfGiven
    <2>2. k \in Given(p)
        BY <1>2, <2>1, GivenSent, FingerprintsDiffer
    <2> QED
        BY <1>2, <1>3, <1>4, <1>6, <1>7, <1>8, <1>9, <1>10, <2>2 DEF Memory
<1>11. CASE /\ q.history = <<FP(k), h1>>
            /\ out = [x \in {0} |-> k] \/ (DOMAIN out = {} /\ sent[k].size # 1)
    <2>1. q.history[1] = FP(k) /\ q.history[2] = h1
        BY <1>11
    <2>2. DOMAIN out # {} \/ sent[k].size # 1
        BY <1>11
    <2>3. sent[k].size = 1 => PassedUp(p, k)'
        BY <1>1, <2>2, PassedTaken
    <2> QED
        BY <1>2, <1>3, <1>6, <1>8, <1>9, <1>11, <2>1, <2>3 DEF Memory
<1> QED
    BY <1>4, <1>7, <1>10, <1>11 DEF Remembers, IsPort

\* A port that passed transfer j up still recalls it after a frame of transfer k.
LEMMA RecalledTaken ==
    ASSUME Types, Routed, Received, Unique, Stateless, NEW p, NEW f, NEW q, NEW out,
           Takes(p, f, q, out), ~ports[p].stateful, Accepts(ports[p], q, out, f),
           NEW j \in Given(p), Recalled(p, ports[p], j)
    PROVE  Recalled(p, q, j)'
<1>1. PICK k : k = f[1]
    OBVIOUS
<1>2. /\ p \in 1..Len(ports) /\ k \in 1..Len(sent) /\ sent[k].chan = ports[p].chan
      /\ UNCHANGED sent
    BY <1>1 DEF Takes, TakesHand, Frame
<1>3. PICK G : G = Given(p)' /\ G = Given(p) \cup {k}
    BY <1>1, GivenTaken
<1>4. IsFiniteSet(G) /\ Cardinality(G) \in Nat /\ Cardinality(Given(p)) \in Nat
      /\ Cardinality(Given(p)) <= Cardinality(G)
    <2>1. IsFiniteSet(Given(p)) /\ Cardinality(Given(p)) \in Nat
        BY <1>2, GivenFinite
    <2>2. IsFiniteSet(G)
        BY <1>3, <2>1, FS_AddElement
    <2>3. Given(p) \in SUBSET G
        BY <1>3
    <2> QED
        BY <2>1, <2>2, <2>3, FS_Subset, FS_CardinalityType
<1>5. Remembers(ports[p], q, out, k) /\ IsPort(ports[p])
    BY <1>1, <1>2 DEF Accepts, Types
<1>6. \A i \in Given(p) : FP(i)' = FP(i) /\ i \in 1..Len(sent)
    BY <1>2, GivenSent DEF FP
<1>7. PICK h1, h2 : h1 = ports[p].history[1] /\ h2 = ports[p].history[2]
    OBVIOUS
<1>8. CASE Cardinality(Given(p)) > 2
    <2>1. Cardinality(G) > 2
        BY <1>4, <1>8
    <2> QED
        BY <1>3, <2>1 DEF Recalled
<1>9. CASE FP(k) \in {h1, h2} /\ q = ports[p] /\ ~(Cardinality(Given(p)) > 2)
    <2>1. \/ FP(j) = h1
          \/ FP(j) = h2 /\ h1 # h2 /\ \E i \in Given(p) : FP(i) = h1
        BY <1>7, <1>9 DEF Recalled
    <2>2. \A i \in Given(p) : i \in G
        BY <1>3
    <2> QED
        BY <1>3, <1>6, <1>7, <1>9, <2>1, <2>2 DEF Recalled
<1>10. CASE /\ FP(k) \notin {h1, h2} /\ q.history = <<FP(k), h1>>
            /\ ~(Cardinality(Given(p)) > 2)
    <2>1. q.history[1] = FP(k) /\ q.history[2] = h1 /\ k \in G
        BY <1>3, <1>10
    <2>2. CASE FP(j) = h1
        <3>1. FP(k)' = FP(k)
            BY <1>2 DEF FP
        <3> QED
            BY <1>3, <1>6, <1>10, <2>1, <2>2, <3>1 DEF Recalled
    <2>3. ASSUME FP(j) = h2, h1 # h2, NEW i \in Given(p), FP(i) = h1 PROVE Recalled(p, q, j)'
        <3>1. i # j /\ i # k /\ j # k
            BY <1>10, <2>3
        <3>2. Cardinality(G) > 2
            BY <1>3, <1>4, <2>1, <3>1, ThreeElements
        <3> QED
            BY <1>3, <3>2 DEF Recalled
    <2> QED
        BY <1>7, <1>10, <2>2, <2>3 DEF Recalled
<1>11. \/ FP(k) \in {h1, h2} /\ q = ports[p]
       \/ FP(k) \notin {h1, h2} /\ q.history = <<FP(k), h1>>
    BY <1>5, <1>7 DEF Remembers, IsPort
<1> QED
    BY <1>8, <1>9, <1>10, <1>11

\* And it recalls the one it passes up.
LEMMA RecalledNew ==
    ASSUME NEW p, NEW f, NEW q, NEW out, Takes(p, f, q, out), IsPort(ports[p]),
           ~ports[p].stateful, Accepts(ports[p], q, out, f), DOMAIN out # {}
    PROVE  Recalled(p, q, f[1])'
<1>1. Remembers(ports[p], q, out, f[1])
    BY DEF Accepts
<1>2. q.history[1] = FP(f[1])
    BY <1>1 DEF Remembers, IsPort
<1>3. UNCHANGED sent
    BY DEF Takes, TakesHand
<1> QED
    BY <1>2, <1>3 DEF Recalled, FP

LEMMA StatelessTaken ==
    ASSUME Core, Stateless, NEW p, NEW f, NEW q, NEW out, Takes(p, f, q, out),
           Accepts(ports[p], q, out, f)
    PROVE  Stateless'
<1>1. Types /\ Routed /\ Received /\ Unique
    BY DEF Core, Base
<1>2. /\ p \in 1..Len(ports) /\ Frame(f) /\ UNCHANGED sent
    BY DEF Takes, TakesHand
<1>3. /\ Len(ports') = Len(ports) /\ q.stateful = ports[p].stateful
      /\ \A r \in 1..Len(ports) : ports'[r] = IF r = p THEN q ELSE ports[r]
    BY DEF Takes, TakesPort
<1>4. ASSUME NEW r \in 1..Len(ports), r # p
      PROVE  /\ Given(r)' = Given(r)
             /\ \A k \in Given(r) : sent'[k] = sent[k] /\ (PassedUp(r, k) => PassedUp(r, k)')
    BY <1>1, <1>2, <1>4, GivenTaken, PassedTaken
<1>5. ASSUME NEW r \in 1..Len(ports), ~ports'[r].stateful PROVE Memory(r, ports[r])'
    <2>1. PICK h : h = ports'[r]
        OBVIOUS
    <2>2. CASE r = p
        BY <1>1, <1>2, <1>3, <1>5, <2>1, <2>2, MemoryTaken
    <2>3. CASE r # p
        <3>1. h = ports[r] /\ Memory(r, h)
            BY <1>3, <1>5, <2>1, <2>3 DEF Stateless
        <3>2. Memory(r, h)'
            BY <1>4, <2>3, <3>1, MemoryCarried
        <3> QED
            BY <2>1, <3>2
    <2> QED
        BY <2>2, <2>3
<1>6. ASSUME NEW i \in 1..Len(log'), ~ports'[log'[i].port].stateful
      PROVE  Recalled(log[i].port, ports[log[i].port], log[i].tr)'
    <2>1. PICK r, j : r = log'[i].port /\ j = log'[i].tr
        OBVIOUS
    <2>2. CASE i \in 1..Len(log) /\ log'[i] = log[i]
        <3>1. r \in 1..Len(ports) /\ j \in Given(r) /\ r = log[i].port /\ j = log[i].tr
            BY <1>1, <2>1, <2>2, LoggedGiven
        <3>2. PICK h : h = ports'[r]
            OBVIOUS
        <3>3. Recalled(r, ports[r], j)
            BY <1>3, <1>6, <2>1, <2>2, <3>1 DEF Stateless
        <3>4. CASE r = p
            <4>1. Recalled(p, q, j)'
                BY <1>1, <1>3, <1>6, <2>1, <3>1, <3>3, <3>4, RecalledTaken
            <4> QED
                BY <1>2, <1>3, <2>1, <3>4, <4>1
        <3>5. CASE r # p
            <4>1. h = ports[r]
                BY <1>3, <3>1, <3>2, <3>5
            <4>2. Recalled(r, h, j)'
                BY <1>4, <3>1, <3>3, <3>5, <4>1, RecalledCarried
            <4> QED
                BY <2>1, <3>2, <4>2
        <3> QED
            BY <3>4, <3>5
    <2>3. CASE DOMAIN out # {} /\ log'[i] = Message(p, f[1], out)
        <3>1. r = p /\ j = f[1]
            BY <2>1, <2>3 DEF Message
        <3>2. IsPort(ports[p]) /\ ~ports[p].stateful
            BY <1>1, <1>2, <1>3, <1>6, <2>1, <3>1 DEF Types
        <3>3. Recalled(p, q, f[1])'
            BY <2>3, <3>2, RecalledNew
        <3> QED
            BY <1>2, <1>3, <2>1, <3>1, <3>3
    <2> QED
        BY <1>1, <1>6, <2>2, <2>3, LogTaken DEF Takes
<1> QED
    BY <1>3, <1>5, <1>6 DEF Stateless

-----------------------------------------------------------------------------
(***************************************************************************)
(* The order in which stateful ports pass transfers up.                    *)
(***************************************************************************)
\* A frame that is not of an old transfer is of one that is ahead of all that
\* were passed up.
LEMMA Behind ==
    ASSUME Types, Unique, NEW p, NEW s, NEW n, NEW chan, NEW k \in Stream(n, chan),
           Steady(n, chan), Latest(p, s, n, chan), Later(p, s, n, chan), ~Stale(s, k)
    PROVE  UpTo(p, n, chan, k - 1)
<1>1. CASE s.slot.tid = sent[k].tid
    BY <1>1 DEF Later
<1>2. CASE NonePassed(p, n, chan)
    BY <1>2 DEF NonePassed, UpTo
<1>3. ASSUME TidGreater(sent[k].tid, s.lastTID), NEW m \in Stream(n, chan),
             s.lastTID = sent[m].tid, UpTo(p, n, chan, m)
      PROVE  UpTo(p, n, chan, k - 1)
    <2>1. /\ k \in 1..Len(sent) /\ m \in 1..Len(sent) /\ Len(sent) \in Nat
          /\ sent[k].tid \in 0..(TIDs - 1) /\ sent[m].tid \in 0..(TIDs - 1)
        BY SentTyped DEF Stream, Types
    <2>2. k # m
        BY <1>3, <2>1, Successor
    <2>3. ~(k < m)
        BY <1>3, <2>1, AheadIsGreater DEF Steady
    <2>4. m < k
        BY <2>1, <2>2, <2>3
    <2>5. \A j \in Stream(n, chan) : j \in Nat
        BY DEF Stream
    <2> QED
        BY <1>3, <2>1, <2>4, <2>5 DEF UpTo
<1> QED
    BY <1>1, <1>2, <1>3 DEF Latest, Stale

\* The session that a frame finds, made for it or not.
LEMMA SessionOrdered ==
    ASSUME Types, NEW p, NEW q, NEW k, Progress(p, q, sent[k].from)
    PROVE  /\ Latest(p, Session(q, k), sent[k].from, q.chan)
           /\ Later(p, Session(q, k), sent[k].from, q.chan)
BY DEF Progress, Session, Latest, Later, NonePassed, UpTo

LEMMA ProgressSame ==
    ASSUME UNCHANGED sent, NEW p, NEW q, NEW n, Progress(p, q, n),
           \A j \in Stream(n, q.chan) : PassedUp(p, j)' <=> PassedUp(p, j)
    PROVE  Progress(p, q, n)'
<1>1. PICK S, chan : S = Stream(n, q.chan) /\ S = Stream(n, q.chan)' /\ chan = q.chan
    BY DEF Stream
<1>2. NonePassed(p, n, chan) => NonePassed(p, n, chan)'
    BY <1>1 DEF NonePassed
<1>3. ASSUME NEW m, UpTo(p, n, chan, m) PROVE UpTo(p, n, chan, m)'
    BY <1>1, <1>3 DEF UpTo
<1>4. ASSUME NEW s, Latest(p, s, n, chan) PROVE Latest(p, s, n, chan)'
    BY <1>1, <1>2, <1>3, <1>4 DEF Latest
<1>5. ASSUME NEW s, Later(p, s, n, chan) PROVE Later(p, s, n, chan)'
    BY <1>1, <1>3, <1>5 DEF Later
<1> QED
    BY <1>1, <1>2, <1>4, <1>5 DEF Progress

\* The stream of the frame that a port takes.
LEMMA ProgressTaken ==
    ASSUME Core, NEW p, NEW f, NEW q, NEW out, Takes(p, f, q, out), ports[p].stateful,
           Accepts(ports[p], q, out, f), NEW n, n = sent[f[1]].from,
           Steady(n, ports[p].chan), Progress(p, ports[p], n)
    PROVE  /\ Progress(p, q, n)'
           /\ DOMAIN out # {} => UpTo(p, n, ports[p].chan, f[1] - 1)
<1>1. PICK k, chan, S : k = f[1] /\ chan = ports[p].chan /\ S = Stream(n, chan)
    OBVIOUS
<1>2. /\ Types /\ Unique /\ UNCHANGED sent /\ q.chan = chan /\ IsPort(ports[p])
      /\ p \in 1..Len(ports) /\ k \in 1..Len(sent) /\ sent[k].chan = chan
    BY <1>1 DEF Core, Base, Types, Takes, TakesHand, TakesPort, Frame
<1>3. k \in S /\ S = Stream(n, chan)' /\ \A j \in S : j \in Nat
    BY <1>1, <1>2 DEF Stream
<1>4. PICK s, new : /\ s = Session(ports[p], k) /\ new = q.sessions[n]
                    /\ Turn(s, new, out, k, f[2]) /\ n \in DOMAIN q.sessions
    <2>1. Reassembles(ports[p], q, out, k, f[2])
        BY <1>1 DEF Accepts
    <2>2. /\ Turn(Session(ports[p], k), q.sessions[n], out, k, f[2])
          /\ n \in DOMAIN q.sessions
        BY <1>1, <1>2, <2>1, SessionTaken DEF IsPort
    <2> QED
        BY <2>2
<1>5. Latest(p, s, n, chan) /\ Later(p, s, n, chan)
    BY <1>1, <1>2, <1>4, SessionOrdered
<1>6. ~Stale(s, k) => UpTo(p, n, chan, k - 1)
    BY <1>1, <1>2, <1>3, <1>5, Behind
<1>7. \A j \in S : PassedUp(p, j)' <=> PassedUp(p, j) \/ (DOMAIN out # {} /\ j = k)
    BY <1>1, <1>2, PassedTaken
<1>8. SUFFICES Latest(p, new, n, chan)' /\ Later(p, new, n, chan)'
    <2>1. ASSUME Latest(p, new, n, chan)', Later(p, new, n, chan)' PROVE Progress(p, q, n)'
        BY <1>2, <1>4, <2>1 DEF Progress
    <2>2. DOMAIN out # {} => ~Stale(s, k)
        BY <1>4 DEF Turn
    <2> QED
        BY <1>1, <1>6, <2>1, <2>2
<1>9. ASSUME DOMAIN out = {}
      PROVE  /\ NonePassed(p, n, chan) => NonePassed(p, n, chan)'
             /\ \A m : UpTo(p, n, chan, m) => UpTo(p, n, chan, m)'
    BY <1>1, <1>3, <1>7, <1>9 DEF NonePassed, UpTo
<1>10. ASSUME DOMAIN out = {}, new.lastTID = s.lastTID PROVE Latest(p, new, n, chan)'
    BY <1>1, <1>2, <1>3, <1>5, <1>7, <1>9, <1>10 DEF Latest
<1>11. CASE new = s /\ DOMAIN out = {}
    <2>1. Later(p, new, n, chan)'
        BY <1>1, <1>2, <1>3, <1>5, <1>9, <1>11 DEF Later
    <2> QED
        BY <1>10, <1>11, <2>1
<1>12. ASSUME ~Stale(s, k), DOMAIN out = {}, NEW D,
              new = [lastTID |-> s.lastTID, slot |-> SlotOf(k, D)]
       PROVE  Latest(p, new, n, chan)' /\ Later(p, new, n, chan)'
    <2>1. new.lastTID = s.lastTID /\ new.slot.tid = sent[k].tid
        BY <1>12 DEF SlotOf
    <2>2. \A j \in S : sent[j].tid = sent[k].tid => j = k
        BY <1>1, <1>2, <1>3 DEF Unique, Stream
    <2>3. UpTo(p, n, chan, k - 1)'
        BY <1>6, <1>9, <1>12
    <2>4. Later(p, new, n, chan)'
        BY <1>2, <1>3, <2>1, <2>2, <2>3 DEF Later
    <2> QED
        BY <1>10, <1>12, <2>1, <2>4
<1>13. ASSUME ~Stale(s, k), DOMAIN out # {},
              new = [lastTID |-> sent[k].tid, slot |-> NoSlot]
       PROVE  Latest(p, new, n, chan)' /\ Later(p, new, n, chan)'
    <2>1. new.lastTID = sent[k].tid /\ new.slot.tid = None
        BY <1>13 DEF NoSlot
    <2>2. PassedUp(p, k)' /\ UpTo(p, n, chan, k)'
        BY <1>1, <1>3, <1>6, <1>7, <1>13 DEF UpTo
    <2>3. Latest(p, new, n, chan)'
        BY <1>2, <1>3, <2>1, <2>2 DEF Latest
    <2>4. \A j \in S : sent[j].tid \in Nat
        BY <1>1, <1>2, SentTyped DEF Stream
    <2>5. Later(p, new, n, chan)'
        BY <1>2, <1>3, <2>1, <2>4, UdpAssumption DEF Later
    <2> QED
        BY <2>3, <2>5
<1>14. ASSUME out = [x \in 0..(sent[k].size - 1) |-> k], sent[k].size > 0 PROVE DOMAIN out # {}
    <2>1. sent[k].size \in Nat /\ DOMAIN out = 0..(sent[k].size - 1)
        BY <1>2, <1>14, SentTyped
    <2>2. 0 \in 0..(sent[k].size - 1)
        BY <1>14, <2>1
    <2> QED
        BY <2>1, <2>2
<1> QED
    BY <1>4, <1>11, <1>12, <1>13, <1>14 DEF Turn

\* Histories that grow.
LEMMA StreamCarried ==
    ASSUME Types, Carried, NEW n, NEW chan
    PROVE  /\ Stream(n, chan) \subseteq Stream(n, chan)'
           /\ \A j \in Stream(n, chan) : j \in 1..Len(sent) /\ sent'[j] = sent[j]
           /\ \A j \in Stream(n, chan)' : j \in Stream(n, chan) \/ (j \in Nat /\ j > Len(sent))
<1>1. Len(sent) \in Nat
    BY DEF Types
<1>2. /\ Stream(n, chan) \subseteq Stream(n, chan)'
      /\ \A j \in Stream(n, chan) : j \in 1..Len(sent) /\ sent'[j] = sent[j]
    BY DEF Carried, Stream
<1>3. ASSUME NEW j \in Stream(n, chan)' PROVE j \in Stream(n, chan) \/ (j \in Nat /\ j > Len(sent))
    <2>1. j \in 1..Len(sent') /\ sent'[j].from = n /\ sent'[j].chan = chan
        BY DEF Stream
    <2>2. CASE j \in 1..Len(sent)
        <3>1. sent'[j] = sent[j]
            BY <2>2 DEF Carried
        <3> QED
            BY <2>1, <2>2, <3>1 DEF Stream
    <2>3. CASE j \notin 1..Len(sent)
        BY <1>1, <2>1, <2>3
    <2> QED
        BY <2>2, <2>3
<1> QED
    BY <1>2, <1>3

LEMMA SteadyCarried ==
    ASSUME Types, Carried, NEW n, NEW chan, Steady(n, chan)'
    PROVE  Steady(n, chan)
<1>1. ASSUME NEW j \in Stream(n, chan), NEW k \in Stream(n, chan), j < k
      PROVE  Ahead(sent[k].tid, sent[j].tid)
    <2>1. /\ j \in Stream(n, chan)' /\ k \in Stream(n, chan)'
          /\ sent'[j] = sent[j] /\ sent'[k] = sent[k]
        BY StreamCarried
    <2>2. Ahead(sent'[k].tid, sent'[j].tid)
        BY <1>1, <2>1 DEF Steady
    <2> QED
        BY <2>1, <2>2
<1> QED
    BY <1>1 DEF Steady

LEMMA ProgressCarried ==
    ASSUME Core, Carried, NEW p, NEW q, NEW n, Progress(p, q, n)
    PROVE  Progress(p, q, n)'
<1>1. PICK chan, S : chan = q.chan /\ S = Stream(n, chan)
    OBVIOUS
<1>2. /\ Types /\ Len(sent) \in Nat /\ UNCHANGED log
      /\ \A j : PassedUp(p, j) => j \in 1..Len(sent)
    BY DEF Core, Base, Types, Carried, PassedUp, Received, Entry
<1>3. \A j : PassedUp(p, j)' <=> PassedUp(p, j)
    BY <1>2 DEF PassedUp
<1>4. /\ \A j \in Stream(n, chan)' : j \in S \/ (j \in Nat /\ j > Len(sent))
      /\ \A j \in S : j \in Stream(n, chan)' /\ j \in 1..Len(sent) /\ sent'[j] = sent[j]
    BY <1>1, <1>2, StreamCarried
<1>5. NonePassed(p, n, chan) => NonePassed(p, n, chan)'
    BY <1>1, <1>2, <1>3, <1>4 DEF NonePassed
<1>6. ASSUME NEW m, UpTo(p, n, chan, m) PROVE UpTo(p, n, chan, m)'
    BY <1>1, <1>2, <1>3, <1>4, <1>6 DEF UpTo
<1>7. ASSUME NEW s, Latest(p, s, n, chan) PROVE Latest(p, s, n, chan)'
    BY <1>1, <1>3, <1>4, <1>5, <1>6, <1>7 DEF Latest
<1>8. ASSUME NEW k \in Nat, k > Len(sent) PROVE UpTo(p, n, chan, k - 1)'
    <2>1. ASSUME NEW j \in Stream(n, chan)', PassedUp(p, j)' PROVE j <= k - 1
        BY <1>2, <1>3, <1>8, <2>1
    <2> QED
        BY <2>1 DEF UpTo
<1>9. ASSUME NEW s, Later(p, s, n, chan) PROVE Later(p, s, n, chan)'
    <2>1. ASSUME NEW k \in Stream(n, chan)', s.slot.tid = sent'[k].tid
          PROVE  UpTo(p, n, chan, k - 1)'
        <3>1. CASE k \in S
            BY <1>1, <1>4, <1>6, <1>9, <2>1, <3>1 DEF Later
        <3>2. CASE k \in Nat /\ k > Len(sent)
            BY <1>8, <3>2
        <3> QED
            BY <1>4, <2>1, <3>1, <3>2
    <2> QED
        BY <2>1 DEF Later
<1> QED
    BY <1>1, <1>5, <1>7, <1>9 DEF Progress

LEMMA OrderingCarried ==
    ASSUME Core, Ordering, Carried
    PROVE  Ordering'
<1>1. Types /\ Received /\ Len(ports) \in Nat
    BY DEF Core, Base, Types, Listed
<1>2. ASSUME NEW p \in 1..Len(ports'), NEW n \in Nodes, ports'[p].stateful,
             Steady(n, ports[p].chan)'
      PROVE  Progress(p, ports[p], n)'
    <2>1. PICK q : q = ports'[p]
        OBVIOUS
    <2>2. Steady(n, q.chan)
        BY <1>1, <1>2, <2>1, SteadyCarried
    <2>3. Progress(p, q, n)
        <3>1. CASE p \in 1..Len(ports)
            BY <1>2, <2>1, <2>2, <3>1 DEF Ordering, Carried
        <3>2. CASE DOMAIN q.sessions = {} /\ p = Len(ports) + 1
            <4>1. \A j : ~PassedUp(p, j)
                BY <1>1, <3>2 DEF PassedUp, Received, Entry
            <4> QED
                BY <3>2, <4>1 DEF Progress, NonePassed
        <3> QED
            BY <2>1, <3>1, <3>2 DEF Carried
    <2>4. Progress(p, q, n)'
        BY <2>3, ProgressCarried
    <2> QED
        BY <2>1, <2>4
<1> QED
    BY <1>2 DEF Ordering

LEMMA OrderingTaken ==
    ASSUME Core, Ordering, NEW p, NEW f, NEW q, NEW out, Takes(p, f, q, out),
           Accepts(ports[p], q, out, f)
    PROVE  Ordering'
<1>1. /\ Types /\ p \in 1..Len(ports) /\ f[1] \in 1..Len(sent) /\ UNCHANGED sent
      /\ sent[f[1]].chan = ports[p].chan /\ IsPort(ports[p]) /\ sent[f[1]].from \in Nodes
    BY SentTyped DEF Core, Base, Types, Takes, TakesHand, Frame
<1>2. /\ Len(ports') = Len(ports) /\ q.stateful = ports[p].stateful /\ q.chan = ports[p].chan
      /\ \A r \in 1..Len(ports) : ports'[r] = IF r = p THEN q ELSE ports[r]
    BY DEF Takes, TakesPort
<1>3. ASSUME NEW r \in 1..Len(ports), NEW n \in Nodes, ports'[r].stateful,
             Steady(n, ports[r].chan)'
      PROVE  Progress(r, ports[r], n)'
    <2>1. PICK h : h = ports'[r]
        OBVIOUS
    <2>2. Steady(n, h.chan) /\ h.chan = ports[r].chan /\ h.stateful = ports[r].stateful
        BY <1>1, <1>2, <1>3, <2>1 DEF Steady, Stream
    <2>3. Progress(r, ports[r], n)
        BY <1>3, <2>1, <2>2 DEF Ordering
    <2>4. CASE r = p /\ n = sent[f[1]].from
        <3>1. Progress(p, q, n)'
            BY <1>3, <2>1, <2>2, <2>3, <2>4, ProgressTaken
        <3> QED
            BY <1>1, <1>2, <2>4, <3>1
    <2>5. CASE ~(r = p /\ n = sent[f[1]].from)
        <3>1. Progress(r, h, n)
            <4>1. CASE r # p
                BY <1>2, <2>1, <2>3, <4>1
            <4>2. CASE r = p /\ n # sent[f[1]].from
                <5>1. Reassembles(ports[p], q, out, f[1], f[2])
                    BY <1>3, <2>1, <2>2, <4>2 DEF Accepts
                <5>2. /\ DOMAIN q.sessions = DOMAIN ports[p].sessions \cup {sent[f[1]].from}
                      /\ \A m \in DOMAIN ports[p].sessions \ {sent[f[1]].from} :
                            q.sessions[m] = ports[p].sessions[m]
                    BY <1>1, <5>1, SessionTaken DEF IsPort
                <5>3. /\ n \in DOMAIN q.sessions <=> n \in DOMAIN ports[p].sessions
                      /\ n \in DOMAIN q.sessions => q.sessions[n] = ports[p].sessions[n]
                      /\ h = q
                    BY <1>1, <1>2, <2>1, <4>2, <5>2
                <5> QED
                    BY <1>2, <2>3, <4>2, <5>3 DEF Progress
            <4> QED
                BY <2>5, <4>1, <4>2
        <3>2. \A j \in Stream(n, h.chan) : PassedUp(r, j)' <=> PassedUp(r, j)
            BY <1>1, <2>2, <2>5, PassedTaken DEF Stream
        <3>3. Progress(r, h, n)'
            BY <1>1, <3>1, <3>2, ProgressSame
        <3> QED
            BY <2>1, <3>3
    <2> QED
        BY <2>4, <2>5
<1> QED
    BY <1>2, <1>3 DEF Ordering

-----------------------------------------------------------------------------
(***************************************************************************)
(* The log as a whole.                                                     *)
(***************************************************************************)
\* Port p passed transfer k up, and later m.
InTurn(p, k, m) ==
    IF ports[p].stateful
    THEN sent[k].from = sent[m].from /\ Steady(sent[m].from, ports[p].chan) => k < m
    ELSE k = m => Cardinality(Given(p)) > 2

LEMMA InOrderOnceInTurn ==
    InOrderOnce <=>
        \A j \in 1..Len(log) : \A i \in 1..(j - 1) :
            log[i].port = log[j].port => InTurn(log[j].port, log[i].tr, log[j].tr)
BY DEF InOrderOnce, InTurn, Given

LEMMA InTurnCarried ==
    ASSUME Types, Carried, NEW p \in 1..Len(ports), NEW k \in 1..Len(sent),
           NEW m \in 1..Len(sent), InTurn(p, k, m)
    PROVE  InTurn(p, k, m)'
<1>1. /\ sent'[k] = sent[k] /\ sent'[m] = sent[m]
      /\ ports'[p] = ports[p] /\ heard'[p] = heard[p]
    BY DEF Carried
<1>2. Given(p)' = Given(p)
    BY <1>1 DEF Given
<1>3. PICK n, chan : n = sent[m].from /\ chan = ports[p].chan
    OBVIOUS
<1>4. Steady(n, chan)' => Steady(n, chan)
    BY SteadyCarried
<1>5. Steady(sent[m].from, ports[p].chan)' => Steady(sent[m].from, ports[p].chan)
    BY <1>1, <1>3, <1>4
<1> QED
    BY <1>1, <1>2, <1>5 DEF InTurn

LEMMA InOrderOnceCarried ==
    ASSUME Core, Carried, InOrderOnce
    PROVE  InOrderOnce'
<1>1. Types /\ Received /\ UNCHANGED log /\ Len(log) \in Nat
    BY DEF Core, Base, Carried, Types, Listed
<1>2. ASSUME NEW j \in 1..Len(log), NEW i \in 1..(j - 1), log[i].port = log[j].port
      PROVE  InTurn(log[j].port, log[i].tr, log[j].tr)'
    <2>1. PICK p, k, m : p = log[j].port /\ k = log[i].tr /\ m = log[j].tr
        OBVIOUS
    <2>2. i \in 1..Len(log)
        BY <1>1
    <2>3. p \in 1..Len(ports) /\ k \in 1..Len(sent) /\ m \in 1..Len(sent)
        BY <1>1, <2>1, <2>2 DEF Received, Entry
    <2>4. InTurn(p, k, m)
        BY <1>2, <2>1, InOrderOnceInTurn
    <2>5. InTurn(p, k, m)'
        BY <1>1, <2>3, <2>4, InTurnCarried
    <2> QED
        BY <1>1, <2>1, <2>5
<1>3. \A j \in 1..Len(log') : \A i \in 1..(j - 1) :
        log'[i].port = log'[j].port => InTurn(log[j].port, log[i].tr, log[j].tr)'
    BY <1>1, <1>2
<1> QED
    BY <1>3 DEF InOrderOnce, InTurn, Given

LEMMA GivenGrows ==
    ASSUME Types, Received, NEW p, NEW f, NEW q, NEW out, Takes(p, f, q, out),
           NEW r \in 1..Len(ports), Cardinality(Given(r)) > 2
    PROVE  Cardinality(Given(r)') > 2
<1>1. CASE r # p
    BY <1>1, GivenTaken
<1>2. CASE r = p
    <2>1. PICK G, H : G = Given(p) /\ H = Given(p)' /\ H = G \cup {f[1]}
        BY GivenTaken
    <2>2. IsFiniteSet(G) /\ Cardinality(G) \in Nat
        BY <1>2, <2>1, GivenFinite
    <2>3. IsFiniteSet(H) /\ G \in SUBSET H
        BY <2>1, <2>2, FS_AddElement
    <2>4. Cardinality(G) <= Cardinality(H) /\ Cardinality(H) \in Nat
        BY <2>3, FS_Subset, FS_CardinalityType
    <2> QED
        BY <1>2, <2>1, <2>2, <2>4
<1> QED
    BY <1>1, <1>2

LEMMA InTurnTaken ==
    ASSUME Types, Received, NEW p, NEW f, NEW q, NEW out, Takes(p, f, q, out),
           NEW r \in 1..Len(ports), NEW k, NEW m, InTurn(r, k, m)
    PROVE  InTurn(r, k, m)'
<1>1. UNCHANGED sent
    BY DEF Takes, TakesHand
<1>2. ports'[r].stateful = ports[r].stateful /\ ports'[r].chan = ports[r].chan
    BY DEF Takes, TakesPort
<1>3. Cardinality(Given(r)) > 2 => Cardinality(Given(r)') > 2
    BY GivenGrows
<1>4. Steady(sent[m].from, ports[r].chan)' => Steady(sent[m].from, ports[r].chan)
    BY <1>1, <1>2 DEF Steady, Stream
<1> QED
    BY <1>1, <1>2, <1>3, <1>4 DEF InTurn

\* What was passed up before the transfer of the frame.
LEMMA InTurnNew ==
    ASSUME Core, Ordering, Stateless, NEW p, NEW f, NEW q, NEW out, Takes(p, f, q, out),
           Accepts(ports[p], q, out, f), DOMAIN out # {},
           NEW i \in 1..Len(log), log[i].port = p
    PROVE  InTurn(p, log[i].tr, f[1])
<1>1. PICK k, j, chan : k = f[1] /\ j = log[i].tr /\ chan = ports[p].chan
    OBVIOUS
<1>2. Types /\ Received /\ Unique
    BY DEF Core, Base
<1>3. /\ p \in 1..Len(ports) /\ k \in 1..Len(sent) /\ j \in 1..Len(sent)
      /\ sent[j].chan = chan /\ sent[k].chan = chan /\ j \in Given(p)
    BY <1>1, <1>2, LoggedGiven, GivenSent DEF Takes, TakesHand, Frame
<1>4. ASSUME ports[p].stateful, sent[j].from = sent[k].from, Steady(sent[k].from, chan)
      PROVE  j < k
    <2>1. sent[k].from \in Nodes
        BY <1>2, <1>3, SentTyped
    <2>2. Progress(p, ports[p], sent[k].from)
        BY <1>1, <1>3, <1>4, <2>1 DEF Ordering
    <2>3. UpTo(p, sent[k].from, chan, k - 1)
        BY <1>1, <1>4, <2>2, ProgressTaken
    <2>4. PassedUp(p, j) /\ j \in Stream(sent[k].from, chan)
        BY <1>1, <1>3, <1>4 DEF PassedUp, Stream
    <2> QED
        BY <1>3, <2>3, <2>4 DEF UpTo
<1>5. ASSUME ~ports[p].stateful, j = k PROVE Cardinality(Given(p)) > 2
    <2>1. Recalled(p, ports[p], j)
        BY <1>1, <1>5 DEF Stateless
    <2>2. FP(k) \notin {ports[p].history[1], ports[p].history[2]}
        BY <1>1, <1>5 DEF Accepts, Remembers
    <2> QED
        BY <1>5, <2>1, <2>2 DEF Recalled
<1> QED
    BY <1>1, <1>4, <1>5 DEF InTurn

LEMMA InOrderOnceTaken ==
    ASSUME Core, Ordering, Stateless, InOrderOnce, NEW p, NEW f, NEW q, NEW out,
           Takes(p, f, q, out), Accepts(ports[p], q, out, f)
    PROVE  InOrderOnce'
<1>1. Types /\ Received /\ p \in 1..Len(ports) /\ Len(log) \in Nat
    BY DEF Core, Base, Types, Listed, Takes, TakesHand
<1>2. ASSUME NEW j \in 1..Len(log'), NEW i \in 1..(j - 1), log'[i].port = log'[j].port
      PROVE  InTurn(log[j].port, log[i].tr, log[j].tr)'
    <2>1. PICK r, k, m : r = log'[j].port /\ k = log'[i].tr /\ m = log'[j].tr
        OBVIOUS
    <2>2. i \in 1..Len(log')
        <3>1. Listed(log')
            BY DEF Takes, TakesLog
        <3>2. Len(log') \in Nat
            BY <3>1 DEF Listed
        <3> QED
            BY <3>2
    <2>3. /\ \/ i \in 1..Len(log) /\ log'[i] = log[i]
             \/ DOMAIN out # {} /\ i = Len(log) + 1
          /\ \/ j \in 1..Len(log) /\ log'[j] = log[j]
             \/ DOMAIN out # {} /\ j = Len(log) + 1 /\ log'[j] = Message(p, f[1], out)
        BY <1>1, <1>2, <2>2, LogTaken DEF Takes
    <2>4. i \in 1..Len(log) /\ log'[i] = log[i]
        BY <1>1, <1>2, <2>3
    <2>5. CASE j \in 1..Len(log) /\ log'[j] = log[j]
        <3>1. InTurn(r, k, m) /\ r \in 1..Len(ports)
            BY <1>1, <1>2, <2>1, <2>4, <2>5, InOrderOnceInTurn DEF Received, Entry
        <3>2. InTurn(r, k, m)'
            BY <1>1, <3>1, InTurnTaken
        <3> QED
            BY <2>1, <3>2
    <2>6. CASE DOMAIN out # {} /\ log'[j] = Message(p, f[1], out)
        <3>1. r = p /\ m = f[1] /\ log[i].port = p /\ k = log[i].tr
            BY <1>2, <2>1, <2>4, <2>6 DEF Message
        <3>2. InTurn(p, k, m)
            BY <2>4, <2>6, <3>1, InTurnNew
        <3>3. InTurn(p, k, m)'
            BY <1>1, <3>2, InTurnTaken
        <3> QED
            BY <2>1, <3>1, <3>3
    <2> QED
        BY <2>3, <2>5, <2>6
<1>3. \A j \in 1..Len(log') : \A i \in 1..(j - 1) :
        log'[i].port = log'[j].port => InTurn(log[j].port, log[i].tr, log[j].tr)'
    BY <1>2
<1> QED
    BY <1>3 DEF InOrderOnce, InTurn, Given

LEMMA OrderlyInit ==
    ASSUME Init
    PROVE  Orderly
<1>1. Core
    BY CoreInit
<1>2. log = <<>> /\ ports = <<NewPort(Unicasts, TRUE)>>
    BY DEF Init
<1>3. PICK q : q = NewPort(Unicasts, TRUE) /\ ports = <<q>>
    BY <1>2
<1>4. Len(log) = 0 /\ \A p \in 1..Len(ports) : ports[p] = q
    <2>1. Len(ports) = 1 /\ ports[1] = q
        BY <1>3
    <2>2. \A p \in 1..Len(ports) : p = 1
        BY <2>1
    <2>3. Len(log) = 0
        BY <1>2
    <2> QED
        BY <2>1, <2>2, <2>3
<1>5. q.stateful /\ DOMAIN q.sessions = {}
    BY <1>3 DEF NewPort
<1>6. \A p, j : ~PassedUp(p, j)
    BY <1>4 DEF PassedUp
<1>7. Ordering
    BY <1>4, <1>5, <1>6 DEF Ordering, Progress, NonePassed
<1>8. Stateless /\ InOrderOnce
    BY <1>4, <1>5 DEF Stateless, InOrderOnce
<1> QED
    BY <1>1, <1>7, <1>8 DEF Orderly

LEMMA OrderlyStep ==
    ASSUME Orderly, [Next]_vars
    PROVE  Orderly'
<1>1. Core /\ Ordering /\ Stateless /\ InOrderOnce
    BY DEF Orderly
<1>2. Types /\ Counters /\ Routed /\ Newest /\ Unique /\ Sessions
    BY <1>1 DEF Core, Base
<1>3. CASE HandleDatagram
    <2>1. PICK p, f, q, out : Takes(p, f, q, out) /\ Accepts(ports[p], q, out, f)
        BY <1>2, <1>3, Handling
    <2> QED
        BY <1>1, <2>1, CoreStep, OrderingTaken, StatelessTaken, InOrderOnceTaken DEF Orderly
<1>4. CASE ~HandleDatagram
    <2>1. Carried
        BY <1>2, <1>4, StepClasses, CarriedStep
    <2> QED
        BY <1>1, <2>1, CoreStep, OrderingCarried, StatelessCarried, InOrderOnceCarried
        DEF Orderly
<1> QED
    BY <1>3, <1>4

\* A port passes the transfers of a steady stream up at most once and in order
\* (tidGreater and the session's last transfer-ID in acceptStateful); a stateless
\* one passes a transfer up again only after two others (the history of
\* acceptStateless), whatever the redundant interfaces and the network repeat.
THEOREM UdpInOrderOnce == Spec => []InOrderOnce
<1>1. Orderly => InOrderOnce
    BY DEF Orderly
<1> QED
    BY <1>1, OrderlyInit, OrderlyStep, PTL DEF Spec

-----------------------------------------------------------------------------
(***************************************************************************)
(* Nothing is lost that has arrived.                                       *)
(***************************************************************************)
LEMMA CollectedSame ==
    ASSUME NEW p, NEW q, NEW r, NEW k, Collected(p, q, k), sent'[k] = sent[k],
           \A o : <<k, o>> \in heard'[p] => <<k, o>> \in heard[p],
           sent[k].from \in DOMAIN r.sessions <=> sent[k].from \in DOMAIN q.sessions,
           sent[k].from \in DOMAIN q.sessions =>
                r.sessions[sent[k].from] = q.sessions[sent[k].from]
    PROVE  Collected(p, r, k)'
<1>1. Unheard(p, k) => Unheard(p, k)'
    BY DEF Unheard
<1>2. CASE sent[k].from \notin DOMAIN q.sessions
    BY <1>1, <1>2 DEF Collected
<1>3. CASE sent[k].from \in DOMAIN q.sessions
    <2>1. PICK s : s = q.sessions[sent[k].from] /\ s = r.sessions[sent[k].from]
        BY <1>3
    <2>2. /\ TidGreater(sent[k].tid, s.lastTID)
          /\ \/ s.slot = NoSlot /\ Unheard(p, k)
             \/ /\ s.slot.tid = sent[k].tid
                /\ \A o \in 0..(sent[k].size - 1) :
                     <<k, o>> \in heard[p] => o \in DOMAIN s.slot.frags
        BY <1>3, <2>1 DEF Collected
    <2>3. /\ TidGreater(sent'[k].tid, s.lastTID)
          /\ \/ s.slot = NoSlot /\ Unheard(p, k)'
             \/ /\ s.slot.tid = sent'[k].tid
                /\ \A o \in 0..(sent'[k].size - 1) :
                     <<k, o>> \in heard'[p] => o \in DOMAIN s.slot.frags
        BY <1>1, <2>2
    <2>4. sent'[k].from \in DOMAIN r.sessions /\ s = r.sessions[sent'[k].from]
        BY <1>3, <2>1
    <2> QED
        BY ONLY <2>3, <2>4 DEF Collected
<1> QED
    BY <1>2, <1>3

\* The session that a frame of an awaited transfer finds accepts it.
LEMMA AwaitedSession ==
    ASSUME Types, NEW p, NEW q, NEW k \in 1..Len(sent), Collected(p, q, k)
    PROVE  /\ TidGreater(sent[k].tid, Session(q, k).lastTID) /\ ~Stale(Session(q, k), k)
           /\ \A o \in 0..(sent[k].size - 1) : <<k, o>> \in heard[p] =>
                /\ Session(q, k).slot.tid = sent[k].tid
                /\ o \in DOMAIN Session(q, k).slot.frags
<1>1. PICK s : s = Session(q, k)
    OBVIOUS
<1>2. TidGreater(sent[k].tid, s.lastTID)
    <2>1. TidGreater(sent[k].tid, (sent[k].tid - 1) % TIDs)
        BY SentTyped, Successor
    <2>2. CASE sent[k].from \in DOMAIN q.sessions
        BY <1>1, <2>2 DEF Collected, Session
    <2>3. CASE sent[k].from \notin DOMAIN q.sessions
        BY <1>1, <2>1, <2>3 DEF Session
    <2> QED
        BY <2>2, <2>3
<1>3. \A o \in 0..(sent[k].size - 1) : <<k, o>> \in heard[p] =>
        s.slot.tid = sent[k].tid /\ o \in DOMAIN s.slot.frags
    BY <1>1 DEF Collected, Session, Unheard
<1> QED
    BY <1>1, <1>2, <1>3 DEF Stale

\* A frame of an awaited transfer that does not complete it joins the others.
LEMMA Gathered ==
    ASSUME Core, NEW p, NEW f, NEW q, NEW out, Takes(p, f, q, out), ports[p].stateful,
           Accepts(ports[p], q, out, f), NEW k, k = f[1], NEW n, n = sent[k].from,
           Collected(p, ports[p], k), ~PassedUp(p, k)'
    PROVE  \E D : /\ D \subseteq 0..(sent[k].size - 1) /\ Cardinality(D) < sent[k].size
                  /\ n \in DOMAIN q.sessions /\ TidGreater(sent[k].tid, q.sessions[n].lastTID)
                  /\ q.sessions[n].slot = SlotOf(k, D)
                  /\ \A o \in 0..(sent[k].size - 1) : <<k, o>> \in heard'[p] => o \in D
<1>1. /\ Types /\ p \in 1..Len(ports) /\ k \in 1..Len(sent) /\ IsPort(ports[p])
      /\ f = <<k, f[2]>> /\ sent[k].size \in Nat /\ heard'[p] = heard[p] \cup {f}
    BY SentTyped DEF Core, Base, Types, Takes, TakesHand, TakesHeard, Frame
<1>2. PICK s, new : /\ s = Session(ports[p], k) /\ new = q.sessions[n]
                    /\ Turn(s, new, out, k, f[2]) /\ n \in DOMAIN q.sessions
    <2>1. Reassembles(ports[p], q, out, k, f[2])
        BY DEF Accepts
    <2>2. /\ Turn(Session(ports[p], k), q.sessions[n], out, k, f[2])
          /\ n \in DOMAIN q.sessions
        BY <1>1, <2>1, SessionTaken DEF IsPort
    <2> QED
        BY <2>2
<1>3. /\ TidGreater(sent[k].tid, s.lastTID) /\ ~Stale(s, k)
      /\ \A o \in 0..(sent[k].size - 1) : <<k, o>> \in heard[p] =>
            s.slot.tid = sent[k].tid /\ o \in DOMAIN s.slot.frags
    BY <1>1, <1>2, AwaitedSession
<1>4. DOMAIN out = {}
    BY <1>1, PassedTaken
<1>5. ~(out = [x \in 0..(sent[k].size - 1) |-> k] /\ sent[k].size > 0)
    <2>1. ASSUME out = [x \in 0..(sent[k].size - 1) |-> k], sent[k].size > 0 PROVE FALSE
        <3>1. DOMAIN out = 0..(sent[k].size - 1)
            BY <2>1
        <3>2. 0 \in 0..(sent[k].size - 1)
            BY <1>1, <2>1
        <3> QED
            BY <1>4, <3>1, <3>2
    <2> QED
        BY <2>1
<1>6. PICK D : /\ Gathers(s, k, f[2], D) /\ Cardinality(D) < sent[k].size
               /\ new = [lastTID |-> s.lastTID, slot |-> SlotOf(k, D)]
    BY <1>2, <1>3, <1>5 DEF Turn
<1>7. ASSUME NEW o \in 0..(sent[k].size - 1), <<k, o>> \in heard'[p] PROVE o \in D
    <2>1. <<k, o>> \in heard[p] \/ <<k, o>> = f
        BY <1>1, <1>7
    <2>2. <<k, o>> = f => o = f[2]
        BY <1>1
    <2> QED
        BY <1>3, <1>6, <2>1, <2>2 DEF Gathers
<1>8. D \subseteq 0..(sent[k].size - 1)
    BY <1>6 DEF Gathers
<1>9. new.lastTID = s.lastTID /\ new.slot = SlotOf(k, D)
    BY <1>6
<1> QED
    BY <1>2, <1>3, <1>6, <1>7, <1>8, <1>9

LEMMA GatheredCollected ==
    ASSUME NEW p, NEW q, NEW k, NEW n, NEW D, UNCHANGED sent, n = sent[k].from,
           n \in DOMAIN q.sessions, TidGreater(sent[k].tid, q.sessions[n].lastTID),
           q.sessions[n].slot = SlotOf(k, D),
           \A o \in 0..(sent[k].size - 1) : <<k, o>> \in heard'[p] => o \in D
    PROVE  Collected(p, q, k)'
<1>1. PICK s : s = q.sessions[n] /\ s.slot = SlotOf(k, D)
    OBVIOUS
<1>2. s.slot.tid = sent[k].tid /\ DOMAIN s.slot.frags = D
    BY <1>1 DEF SlotOf
<1>3. sent'[k] = sent[k]
    OBVIOUS
<1> QED
    BY <1>1, <1>2, <1>3 DEF Collected

\* A frame of a transfer that was passed up before changes nothing.
LEMMA OldFrame ==
    ASSUME Core, NEW p, NEW f, NEW q, NEW out, Takes(p, f, q, out), ports[p].stateful,
           Accepts(ports[p], q, out, f), NEW n, n = sent[f[1]].from,
           Steady(n, ports[p].chan), Progress(p, ports[p], n), PassedUp(p, f[1])
    PROVE  /\ n \in DOMAIN ports[p].sessions /\ n \in DOMAIN q.sessions
           /\ q.sessions[n] = ports[p].sessions[n]
<1>1. PICK j, chan : j = f[1] /\ chan = ports[p].chan
    OBVIOUS
<1>2. /\ Types /\ Unique /\ p \in 1..Len(ports) /\ IsPort(ports[p]) /\ j \in 1..Len(sent)
      /\ j \in Stream(n, chan)
    BY <1>1 DEF Core, Base, Types, Takes, TakesHand, Frame, Stream
<1>3. PICK s : s = Session(ports[p], j)
    OBVIOUS
<1>4. n \in DOMAIN ports[p].sessions
    BY <1>1, <1>2 DEF Progress, NonePassed
<1>5. s = ports[p].sessions[n]
    BY <1>1, <1>3, <1>4 DEF Session
<1>6. Latest(p, s, n, chan) /\ Later(p, s, n, chan)
    BY <1>1, <1>4, <1>5 DEF Progress
<1>7. Stale(s, j)
    <2>1. ~UpTo(p, n, chan, j - 1)
        BY <1>1, <1>2 DEF UpTo
    <2> QED
        BY <1>1, <1>2, <1>6, <2>1, Behind
<1>8. Turn(s, q.sessions[n], out, j, f[2]) /\ n \in DOMAIN q.sessions
    <2>1. Reassembles(ports[p], q, out, j, f[2])
        BY <1>1 DEF Accepts
    <2> QED
        BY <1>1, <1>2, <1>3, <2>1, SessionTaken DEF IsPort
<1> QED
    BY <1>4, <1>5, <1>7, <1>8 DEF Turn

\* What stays awaited was awaited before.
LEMMA ExpectedTaken ==
    ASSUME Core, NEW p, NEW f, NEW q, NEW out, Takes(p, f, q, out),
           NEW k \in 1..Len(sent), Expected(k)'
    PROVE  /\ Expected(k) /\ sent[k].port \in 1..Len(ports)
           /\ ports[sent[k].port].chan = sent[k].chan /\ sent'[k] = sent[k]
           /\ ~PassedUp(sent[k].port, k)'
<1>1. PICK r, n, chan : r = sent[k].port /\ n = sent[k].from /\ chan = sent[k].chan
    OBVIOUS
<1>2. Types /\ Routed /\ UNCHANGED <<sent, crossed>>
    BY DEF Core, Base, Takes, TakesHand
<1>3. /\ k \notin crossed /\ r # None /\ ports'[r].stateful /\ Steady(n, chan)'
      /\ ~PassedUp(r, k)'
    BY <1>1, <1>2 DEF Expected
<1>4. r \in 1..Len(ports) /\ ports[r].chan = chan
    BY <1>1, <1>3 DEF Core, Base, Routed
<1>5. ports[r].stateful
    BY <1>3, <1>4 DEF Takes, TakesPort
<1>6. Steady(n, chan)
    BY <1>2, <1>3 DEF Steady, Stream
<1>7. ~PassedUp(r, k)
    BY <1>2, <1>3, PassedTaken
<1> QED
    BY <1>1, <1>2, <1>3, <1>4, <1>5, <1>6, <1>7 DEF Expected

\* A port that is given a frame keeps what it has collected.
LEMMA CollectedTaken ==
    ASSUME Core, Ordering, NEW p, NEW f, NEW q, NEW out, Takes(p, f, q, out),
           Accepts(ports[p], q, out, f), NEW k \in 1..Len(sent), Expected(k)',
           NEW r, r = sent[k].port, Alone(r, k), Collected(r, ports[r], k)
    PROVE  Collected(r, ports[r], k)'
<1>1. /\ Expected(k) /\ r \in 1..Len(ports) /\ ports[r].chan = sent[k].chan
      /\ sent'[k] = sent[k] /\ ~PassedUp(r, k)'
    BY ExpectedTaken
<1>2. /\ Types /\ UNCHANGED sent /\ p \in 1..Len(ports) /\ f[1] \in 1..Len(sent)
      /\ f = <<f[1], f[2]>> /\ sent[f[1]].chan = ports[p].chan /\ IsPort(ports[p])
    BY DEF Core, Base, Types, Takes, TakesHand, Frame
<1>3. PICK h : h = ports'[r] /\ h = IF r = p THEN q ELSE ports[r]
    BY <1>1 DEF Takes, TakesPort
<1>4. heard'[r] = IF r = p THEN heard[p] \cup {f} ELSE heard[r]
    BY <1>1 DEF Takes, TakesHeard
<1>5. SUFFICES Collected(r, h, k)'
    BY <1>3
<1>6. CASE r # p
    BY <1>2, <1>3, <1>4, <1>6, CollectedSame
<1>7. ASSUME r = p, f[1] # k,
             sent[k].from \in DOMAIN q.sessions <=> sent[k].from \in DOMAIN ports[p].sessions,
             sent[k].from \in DOMAIN ports[p].sessions =>
                q.sessions[sent[k].from] = ports[p].sessions[sent[k].from]
      PROVE  Collected(r, h, k)'
    <2>1. \A o : <<k, o>> \in heard'[p] => <<k, o>> \in heard[p]
        BY <1>2, <1>4, <1>7
    <2>2. Collected(p, q, k)'
        BY <1>2, <1>7, <2>1, CollectedSame
    <2> QED
        BY <1>3, <1>7, <2>2
<1>8. CASE r = p /\ sent[f[1]].from # sent[k].from
    <2>1. ports[p].stateful
        BY <1>1, <1>8 DEF Expected
    <2>2. Reassembles(ports[p], q, out, f[1], f[2])
        BY <2>1 DEF Accepts
    <2>3. /\ DOMAIN q.sessions = DOMAIN ports[p].sessions \cup {sent[f[1]].from}
          /\ \A m \in DOMAIN ports[p].sessions \ {sent[f[1]].from} :
                q.sessions[m] = ports[p].sessions[m]
        BY <1>2, <2>2, SessionTaken DEF IsPort
    <2> QED
        BY <1>7, <1>8, <2>3
<1>9. CASE r = p /\ sent[f[1]].from = sent[k].from /\ f[1] # k
    <2>1. PICK n : n = sent[k].from /\ n \in Nodes
        BY <1>2, SentTyped
    <2>2. f[1] \in Stream(n, sent[k].chan)
        BY <1>1, <1>2, <1>9, <2>1 DEF Stream
    <2>3. PassedUp(p, f[1])
        BY <1>9, <2>1, <2>2 DEF Alone, Stream
    <2>4. ports[p].stateful /\ Steady(n, ports[p].chan) /\ Progress(p, ports[p], n)
        BY <1>1, <1>2, <1>9, <2>1 DEF Expected, Ordering
    <2>5. /\ n \in DOMAIN ports[p].sessions /\ n \in DOMAIN q.sessions
          /\ q.sessions[n] = ports[p].sessions[n]
        BY <1>9, <2>1, <2>3, <2>4, OldFrame
    <2> QED
        BY <1>7, <1>9, <2>1, <2>5
<1>10. CASE r = p /\ f[1] = k
    <2>1. ports[p].stateful
        BY <1>1, <1>10 DEF Expected
    <2>2. PICK n : n = sent[k].from
        OBVIOUS
    <2>3. PICK D : /\ n \in DOMAIN q.sessions
                   /\ TidGreater(sent[k].tid, q.sessions[n].lastTID)
                   /\ q.sessions[n].slot = SlotOf(k, D)
                   /\ \A o \in 0..(sent[k].size - 1) : <<k, o>> \in heard'[p] => o \in D
        BY <1>1, <1>10, <2>1, <2>2, Gathered
    <2>4. Collected(p, q, k)'
        BY <1>2, <2>2, <2>3, GatheredCollected
    <2> QED
        BY <1>3, <1>10, <2>4
<1> QED
    BY <1>6, <1>8, <1>9, <1>10

LEMMA AwaitedTaken ==
    ASSUME Core, Ordering, Awaited, NEW p, NEW f, NEW q, NEW out, Takes(p, f, q, out),
           Accepts(ports[p], q, out, f)
    PROVE  Awaited'
<1>1. Types /\ UNCHANGED sent
    BY DEF Core, Base, Takes, TakesHand
<1>2. ASSUME NEW k \in 1..Len(sent), Expected(k)', NEW r, r = sent[k].port, Fed(r)'
      PROVE  Alone(r, k)' /\ Collected(r, ports[r], k)'
    <2>1. Expected(k) /\ r \in 1..Len(ports)
        BY <1>2, ExpectedTaken
    <2>2. Fed(r)
        BY <1>2, <2>1, FedStep
    <2>3. Alone(r, k) /\ Collected(r, ports[r], k)
        BY <1>2, <2>1, <2>2 DEF Awaited
    <2>4. Collected(r, ports[r], k)'
        BY <1>2, <2>3, CollectedTaken
    <2>5. Alone(r, k)'
        BY <1>1, <2>3, PassedTaken DEF Alone, Stream
    <2> QED
        BY <2>4, <2>5
<1>3. ASSUME NEW k \in 1..Len(sent), Expected(k)', Fed(sent[k].port)'
      PROVE  Alone(sent[k].port, k)' /\ Collected(sent[k].port, ports[sent[k].port], k)'
    <2>1. PICK r : r = sent[k].port /\ r = sent'[k].port
        BY <1>1
    <2>2. Fed(r)'
        BY <1>3, <2>1 DEF Fed
    <2>3. Alone(r, k)' /\ Collected(r, ports[r], k)'
        BY <1>2, <1>3, <2>1, <2>2
    <2> QED
        BY <2>1, <2>3
<1> QED
    BY <1>1, <1>3 DEF Awaited

LEMMA ExpectedCarried ==
    ASSUME Core, Carried, crossed \subseteq crossed', NEW k \in 1..Len(sent), Expected(k)'
    PROVE  /\ Expected(k) /\ sent[k].port \in 1..Len(ports)
           /\ ports[sent[k].port].chan = sent[k].chan /\ sent'[k] = sent[k]
<1>1. PICK r, n, chan : r = sent[k].port /\ n = sent[k].from /\ chan = sent[k].chan
    OBVIOUS
<1>2. Types /\ Routed /\ sent'[k] = sent[k] /\ UNCHANGED log
    BY DEF Core, Base, Carried
<1>3. /\ k \notin crossed /\ r # None /\ ports'[r].stateful /\ Steady(n, chan)'
      /\ ~PassedUp(r, k)'
    BY <1>1, <1>2 DEF Expected
<1>4. r \in 1..Len(ports) /\ ports[r].chan = chan
    BY <1>1, <1>3 DEF Core, Base, Routed
<1>5. ports[r].stateful
    BY <1>3, <1>4 DEF Carried
<1>6. Steady(n, chan)
    BY <1>2, <1>3, SteadyCarried
<1>7. ~PassedUp(r, k)
    BY <1>2, <1>3 DEF PassedUp
<1> QED
    BY <1>1, <1>2, <1>3, <1>4, <1>5, <1>6, <1>7 DEF Expected

LEMMA CollectedCarried ==
    ASSUME Carried, NEW k \in 1..Len(sent), NEW r \in 1..Len(ports),
           Collected(r, ports[r], k)
    PROVE  Collected(r, ports[r], k)'
<1>1. sent'[k] = sent[k] /\ ports'[r] = ports[r] /\ heard'[r] = heard[r]
    BY DEF Carried
<1>2. PICK h : h = ports'[r] /\ h = ports[r]
    BY <1>1
<1>3. Collected(r, h, k)'
    BY <1>1, <1>2, CollectedSame
<1> QED
    BY <1>2, <1>3

\* A step that sends nothing.
LEMMA AwaitedCarried ==
    ASSUME Core, Awaited, Carried, UNCHANGED <<sent, crossed>>,
           \A p \in 1..Len(ports) : Fed(p)' => Fed(p)
    PROVE  Awaited'
<1>1. ASSUME NEW k \in 1..Len(sent), Expected(k)', Fed(sent[k].port)'
      PROVE  Alone(sent[k].port, k)' /\ Collected(sent[k].port, ports[sent[k].port], k)'
    <2>1. PICK r : r = sent[k].port /\ r = sent'[k].port
        OBVIOUS
    <2>2. Expected(k) /\ r \in 1..Len(ports)
        BY <1>1, <2>1, ExpectedCarried
    <2>3. Fed(r)
        BY <1>1, <2>1, <2>2 DEF Fed
    <2>4. Alone(r, k) /\ Collected(r, ports[r], k)
        BY <2>1, <2>2, <2>3 DEF Awaited
    <2>5. Collected(r, ports[r], k)'
        BY <2>2, <2>4, CollectedCarried
    <2>6. Alone(r, k)'
        BY <2>4 DEF Alone, Stream, PassedUp, Carried
    <2> QED
        BY <2>1, <2>5, <2>6
<1> QED
    BY <1>1 DEF Awaited

\* The port of the reader of a channel is the only one that may have passed
\* something up after another one that is still given a frame.
LEMMA NewestPassed ==
    ASSUME Core, NEW chan \in DOMAIN readers, NEW p \in 1..Len(ports), ports[p].chan = chan,
           Fed(p), NEW k, PassedUp(readers[chan], k)
    PROVE  p = readers[chan]
<1>1. /\ Newest /\ Received /\ Len(ports) \in Nat
    BY DEF Core, Base, Types, Listed
<1>2. CASE \E c \in DOMAIN readers : readers[c] = p
    BY <1>1, <1>2 DEF Newest
<1>3. CASE hand # None /\ hand.port = p
    <2>1. PICK i \in 1..Len(log) : log[i].port = readers[chan]
        BY DEF PassedUp
    <2>2. /\ readers[chan] \in 1..Len(ports) /\ ports[readers[chan]].chan = chan
          /\ p <= readers[chan]
        BY <1>1 DEF Newest
    <2>3. readers[chan] <= p
        BY <1>1, <1>3, <2>1, <2>2 DEF Newest
    <2> QED
        BY <1>1, <2>2, <2>3
<1> QED
    BY <1>2, <1>3 DEF Fed

\* A transfer that is sent while an earlier one of its stream is awaited crosses it.
LEMMA Crosses ==
    ASSUME Core, NEW t, Sent(t), NEW k \in Stream(t.from, t.chan), Expected(k),
           Fed(sent[k].port)
    PROVE  k \in crossed'
<1>1. PICK r, chan : r = sent[k].port /\ chan = t.chan
    OBVIOUS
<1>2. k \in 1..Len(sent) /\ sent[k].chan = chan
    BY <1>1 DEF Stream
<1>3. r \in 1..Len(ports) /\ ports[r].chan = chan /\ ~PassedUp(r, k)
    BY <1>1, <1>2 DEF Expected, Core, Base, Routed
<1>4. chan \in DOMAIN readers => ~PassedUp(readers[chan], k)
    BY <1>1, <1>3, NewestPassed
<1>5. k \in Overlapping(t.from, t.chan)
    BY <1>1, <1>4 DEF Overlapping
<1> QED
    BY <1>5 DEF Sent

\* A new transfer that crosses no other finds its predecessors passed up, and
\* the session ready for it.
LEMMA NewAwaited ==
    ASSUME Core, Ordering, NEW t, Sent(t), NEW k, k = Len(sent) + 1, Expected(k)'
    PROVE  Alone(t.port, k)' /\ Collected(t.port, ports[t.port], k)'
<1>1. PICK r, n, chan : r = t.port /\ n = t.from /\ chan = t.chan
    OBVIOUS
<1>2. /\ Types /\ Received /\ Newest /\ Len(sent) \in Nat
      /\ n \in Nodes /\ t.tid \in 0..(TIDs - 1) /\ t.size \in Nat
    <2>1. t \in Transfers
        BY DEF Sent
    <2> QED
        BY <1>1, <2>1, SentGrows DEF Core, Base, Transfers
<1>3. sent'[k] = t /\ UNCHANGED <<readers, ports, hand, log, heard>>
    BY <1>2, SentGrows DEF Sent, rxVars
<1>4. /\ k \notin crossed' /\ r # None /\ ports[r].stateful /\ Steady(n, chan)'
    BY <1>1, <1>3 DEF Expected
<1>5. chan \in DOMAIN readers /\ r = readers[chan]
    BY <1>1, <1>4 DEF Sent
<1>6. \A j \in Stream(n, chan) : PassedUp(r, j)
    <2>1. k \notin Overlapping(n, chan)
        BY <1>1, <1>4 DEF Sent
    <2> QED
        BY <1>5, <2>1 DEF Overlapping
<1>7. /\ \A j \in Stream(n, chan)' : j \in Stream(n, chan) \/ j = k
      /\ \A j \in Stream(n, chan) : /\ j \in Stream(n, chan)' /\ sent'[j] = sent[j]
                                    /\ j \in 1..Len(sent)
      /\ k \in Stream(n, chan)'
    <2>1. k \in 1..Len(sent')
        BY <1>2, SentGrows
    <2>2. k \in Stream(n, chan)'
        BY <1>1, <1>3, <2>1 DEF Stream
    <2> QED
        BY <1>2, <2>2, StreamSent
<1>8. Alone(r, k)'
    <2>1. \A j \in Stream(n, chan)' : j <= k /\ (j < k => PassedUp(r, j)')
        BY <1>2, <1>3, <1>6, <1>7 DEF PassedUp
    <2> QED
        BY <1>1, <1>3, <2>1 DEF Alone
<1>9. r \in 1..Len(ports) /\ ports[r].chan = chan
    BY <1>2, <1>5 DEF Newest
<1>10. Unheard(r, k)'
    <2>1. \A o : <<k, o>> \notin heard[r]
        BY <1>2, <1>9 DEF Received, Frame
    <2> QED
        BY <1>3, <2>1 DEF Unheard
<1>11. Steady(n, chan)
    <2>1. Carried
        BY <1>2, CarriedStep
    <2> QED
        BY <1>2, <1>4, <2>1, SteadyCarried
<1>12. ASSUME n \in DOMAIN ports[r].sessions
       PROVE  /\ TidGreater(t.tid, ports[r].sessions[n].lastTID)
              /\ ports[r].sessions[n].slot = NoSlot
    <2>1. PICK s : s = ports[r].sessions[n]
        OBVIOUS
    <2>2. Latest(r, s, n, chan) /\ Later(r, s, n, chan)
        BY <1>2, <1>4, <1>9, <1>11, <1>12, <2>1 DEF Ordering, Progress
    <2>3. Kept(s, n, chan)
        BY <1>9, <1>12, <2>1 DEF Core, Sessions
    <2>4. PICK m \in Stream(n, chan) : s.lastTID = sent[m].tid
        BY <1>6, <2>2, <2>3 DEF Latest, NonePassed, Kept
    <2>5. Ahead(t.tid, sent[m].tid)
        <3>1. m < k /\ m \in Stream(n, chan)' /\ k \in Stream(n, chan)'
            BY <1>2, <1>7
        <3>2. Ahead(sent'[k].tid, sent'[m].tid)
            BY <1>4, <3>1 DEF Steady
        <3> QED
            BY <1>3, <1>7, <3>2
    <2>6. TidGreater(t.tid, s.lastTID)
        BY <1>2, <1>7, <2>4, <2>5, SentTyped, AheadIsGreater
    <2>7. ASSUME s.slot # NoSlot PROVE FALSE
        <3>1. PICK j \in Stream(n, chan) : Filled(s.slot, j)
            BY <2>3, <2>7 DEF Kept
        <3>2. s.slot.tid = sent[j].tid
            BY <3>1 DEF Filled
        <3>3. UpTo(r, n, chan, j - 1) /\ PassedUp(r, j) /\ j \in Nat
            BY <1>6, <1>7, <2>2, <3>2 DEF Later
        <3> QED
            BY <3>3 DEF UpTo
    <2> QED
        BY <2>1, <2>6, <2>7
<1>13. PICK h : h = ports[r] /\ h = ports'[r]
    BY <1>3
<1>14. Collected(r, h, k)'
    <2>1. IF n \in DOMAIN h.sessions
          THEN /\ TidGreater(t.tid, h.sessions[n].lastTID)
               /\ h.sessions[n].slot = NoSlot /\ Unheard(r, k)'
          ELSE Unheard(r, k)'
        BY <1>10, <1>12, <1>13
    <2>2. sent'[k].from = n /\ sent'[k].tid = t.tid
        BY <1>1, <1>3
    <2> QED
        BY ONLY <2>1, <2>2 DEF Collected
<1> QED
    BY <1>1, <1>8, <1>13, <1>14

LEMMA AwaitedSent ==
    ASSUME Core, Ordering, Awaited, NEW t, Sent(t)
    PROVE  Awaited'
<1>1. PICK K \in Nat : /\ K = Len(sent) /\ Len(sent') = K + 1 /\ sent'[K + 1] = t
                       /\ \A j \in 1..K : sent'[j] = sent[j]
    BY SentGrows DEF Core, Base
<1>2. Types /\ Carried /\ UNCHANGED <<readers, ports, hand, log, heard>>
    BY CarriedStep DEF Core, Base, Sent, rxVars
<1>3. ASSUME NEW k \in 1..K, Expected(k)', Fed(sent[k].port)'
      PROVE  Alone(sent[k].port, k)' /\ Collected(sent[k].port, ports[sent[k].port], k)'
    <2>1. PICK r, n, chan : /\ r = sent[k].port /\ r = sent'[k].port
                            /\ n = sent[k].from /\ n = sent'[k].from
                            /\ chan = sent[k].chan /\ chan = sent'[k].chan
        BY <1>1
    <2>2. crossed \subseteq crossed'
        BY DEF Sent
    <2>3. Expected(k) /\ r \in 1..Len(ports)
        BY <1>1, <1>2, <1>3, <2>1, <2>2, ExpectedCarried
    <2>4. Fed(r)
        BY <1>2, <1>3, <2>1 DEF Fed
    <2>5. Alone(r, k) /\ Collected(r, ports[r], k)
        BY <1>1, <2>1, <2>3, <2>4 DEF Awaited
    <2>6. Collected(r, ports[r], k)'
        BY <1>1, <1>2, <2>3, <2>5, CollectedCarried
    <2>7. k \notin crossed'
        BY <1>3 DEF Expected
    <2>8. ~(n = t.from /\ chan = t.chan)
        <3>1. ASSUME n = t.from, chan = t.chan PROVE FALSE
            <4>1. k \in Stream(t.from, t.chan)
                BY <1>1, <2>1, <3>1 DEF Stream
            <4> QED
                BY <2>1, <2>3, <2>4, <2>7, <4>1, Crosses
        <3> QED
            BY <3>1
    <2>9. Stream(n, chan)' = Stream(n, chan)
        <3>1. /\ Stream(n, chan) \subseteq Stream(n, chan)'
              /\ \A j \in Stream(n, chan)' : j \in Stream(n, chan)
            BY <1>2, <2>8, StreamSent
        <3> QED
            BY <3>1
    <2>10. Alone(r, k)'
        <3>1. \A j \in Stream(n, chan) : j <= k /\ (j < k => PassedUp(r, j)')
            BY <1>2, <2>1, <2>5 DEF Alone, PassedUp
        <3> QED
            BY <2>1, <2>9, <3>1 DEF Alone
    <2> QED
        BY <2>1, <2>6, <2>10
<1>4. ASSUME Expected(K + 1)'
      PROVE  /\ Alone(sent[K + 1].port, K + 1)'
             /\ Collected(sent[K + 1].port, ports[sent[K + 1].port], K + 1)'
    <2>1. PICK r : r = t.port /\ r = sent'[K + 1].port
        BY <1>1
    <2>2. Alone(r, K + 1)' /\ Collected(r, ports[r], K + 1)'
        BY <1>1, <1>4, <2>1, NewAwaited
    <2> QED
        BY <2>1, <2>2
<1>5. ASSUME NEW k \in 1..Len(sent'), Expected(k)', Fed(sent[k].port)'
      PROVE  Alone(sent[k].port, k)' /\ Collected(sent[k].port, ports[sent[k].port], k)'
    <2>1. k \in 1..K \/ k = K + 1
        BY <1>1
    <2> QED
        BY <1>3, <1>4, <1>5, <2>1
<1> QED
    BY <1>5 DEF Awaited

\* Nothing is given to a port.
LEMMA NoneStuckCarried ==
    ASSUME Core, NoneStuck, Carried, crossed \subseteq crossed',
           NEW k \in 1..Len(sent), HeardWhole(k)', Expected(k)'
    PROVE  FALSE
<1>1. Expected(k) /\ sent[k].port \in 1..Len(ports) /\ sent'[k] = sent[k]
    BY ExpectedCarried
<1>2. heard'[sent[k].port] = heard[sent[k].port]
    BY <1>1 DEF Carried
<1>3. HeardWhole(k)
    BY <1>1, <1>2 DEF HeardWhole
<1> QED
    BY <1>1, <1>3 DEF NoneStuck

LEMMA NoneStuckSent ==
    ASSUME Core, NoneStuck, NEW t, Sent(t)
    PROVE  NoneStuck'
<1>1. PICK K \in Nat : K = Len(sent) /\ Len(sent') = K + 1 /\ sent'[K + 1] = t
    BY SentGrows DEF Core, Base
<1>2. Carried /\ crossed \subseteq crossed' /\ UNCHANGED heard
    BY CarriedStep DEF Core, Base, Sent, rxVars
<1>3. ASSUME HeardWhole(K + 1)', Expected(K + 1)' PROVE FALSE
    <2>1. t.port \in 1..Len(ports)
        <3>1. t.port # None
            BY <1>1, <1>3 DEF Expected
        <3> QED
            BY <3>1 DEF Sent, Core, Base, Newest
    <2>2. <<K + 1, 0>> \in heard[t.port]
        <3>1. t.size \in Nat
            BY DEF Sent, Transfers
        <3>2. t.size > 0 /\ \A o \in 0..(t.size - 1) : <<K + 1, o>> \in heard[t.port]
            BY <1>1, <1>2, <1>3 DEF HeardWhole
        <3>3. 0 \in 0..(t.size - 1)
            BY <3>1, <3>2
        <3> QED
            BY <3>2, <3>3
    <2>3. PICK g : g = <<K + 1, 0>>
        OBVIOUS
    <2>4. g[1] \in 1..Len(sent)
        BY <2>1, <2>2, <2>3 DEF Core, Base, Received, Frame
    <2>5. g[1] = K + 1
        BY <2>3
    <2> QED
        BY <1>1, <2>4, <2>5
<1>4. ASSUME NEW k \in 1..Len(sent') PROVE ~(HeardWhole(k)' /\ Expected(k)')
    <2>1. k \in 1..Len(sent) \/ k = K + 1
        BY <1>1
    <2> QED
        BY <1>2, <1>3, <2>1, NoneStuckCarried
<1> QED
    BY <1>4 DEF NoneStuck

LEMMA NoneStuckTaken ==
    ASSUME Core, Ordering, Awaited, NoneStuck, NEW p, NEW f, NEW q, NEW out,
           Takes(p, f, q, out), Accepts(ports[p], q, out, f)
    PROVE  NoneStuck'
<1>1. /\ Types /\ UNCHANGED sent /\ p \in 1..Len(ports) /\ f = <<f[1], f[2]>> /\ Fed(p)
    BY DEF Core, Base, Takes, TakesHand, Frame, Fed
<1>2. ASSUME NEW k \in 1..Len(sent), HeardWhole(k)', Expected(k)' PROVE FALSE
    <2>1. PICK r : r = sent[k].port /\ r = sent'[k].port
        BY <1>1
    <2>2. /\ Expected(k) /\ r \in 1..Len(ports) /\ ports[r].chan = sent[k].chan
          /\ ~PassedUp(r, k)' /\ ports[r].stateful
        BY <1>2, <2>1, ExpectedTaken DEF Expected
    <2>3. PICK size \in Nat : size = sent[k].size /\ size = sent'[k].size
        BY <1>1, SentTyped
    <2>4. r # None /\ size > 0 /\ \A o \in 0..(size - 1) : <<k, o>> \in heard'[r]
        BY <1>2, <2>1, <2>3 DEF HeardWhole
    <2>5. heard'[r] = IF r = p THEN heard[p] \cup {f} ELSE heard[r]
        BY <2>2 DEF Takes, TakesHeard
    <2>6. r = p /\ f[1] = k
        <3>1. PICK o \in 0..(size - 1) : <<k, o>> \notin heard[r]
            BY <2>1, <2>2, <2>3, <2>4 DEF NoneStuck, HeardWhole
        <3>2. r = p /\ f = <<k, o>>
            BY <2>4, <2>5, <3>1
        <3> QED
            BY <1>1, <3>2
    <2>7. Collected(p, ports[p], k)
        BY <1>1, <2>1, <2>2, <2>6 DEF Awaited
    <2>8. PICK D : /\ D \subseteq 0..(size - 1) /\ Cardinality(D) < size
                   /\ \A o \in 0..(size - 1) : <<k, o>> \in heard'[p] => o \in D
        <3>1. PICK n : n = sent[k].from
            OBVIOUS
        <3>2. ports[p].stateful /\ k = f[1] /\ ~PassedUp(p, k)'
            BY <2>2, <2>6
        <3>3. \E D : /\ D \subseteq 0..(sent[k].size - 1) /\ Cardinality(D) < sent[k].size
                     /\ \A o \in 0..(sent[k].size - 1) : <<k, o>> \in heard'[p] => o \in D
            BY <2>7, <3>1, <3>2, Gathered
        <3> QED
            BY <2>3, <3>3
    <2>9. D = 0..(size - 1)
        BY <2>4, <2>6, <2>8
    <2>10. Cardinality(0..(size - 1)) = size
        <3>1. 0 \in Int /\ size - 1 \in Int
            OBVIOUS
        <3>2. Cardinality(0..(size - 1)) = IF 0 > size - 1 THEN 0 ELSE size - 1 - 0 + 1
            BY <3>1, FS_Interval
        <3> QED
            BY <3>2
    <2> QED
        BY <2>8, <2>9, <2>10
<1> QED
    BY <1>1, <1>2 DEF NoneStuck

LEMMA LosslessInit ==
    ASSUME Init
    PROVE  Lossless
<1>1. sent = <<>>
    BY DEF Init
<1>2. Len(sent) = 0
    BY <1>1
<1> QED
    BY <1>2, OrderlyInit DEF Lossless, Awaited, NoneStuck

LEMMA LosslessStep ==
    ASSUME Lossless, [Next]_vars
    PROVE  Lossless'
<1>1. /\ Core /\ Ordering /\ Awaited /\ NoneStuck /\ Orderly'
      /\ Types /\ Counters /\ Routed /\ Newest /\ Unique /\ Sessions
    BY OrderlyStep DEF Lossless, Orderly, Core, Base
<1> SUFFICES Awaited' /\ NoneStuck'
    BY <1>1 DEF Lossless
<1>2. CASE HandleDatagram
    <2>1. PICK p, f, q, out : Takes(p, f, q, out) /\ Accepts(ports[p], q, out, f)
        BY <1>1, <1>2, Handling
    <2> QED
        BY <1>1, <2>1, AwaitedTaken, NoneStuckTaken
<1>3. ASSUME NEW t, Sent(t) PROVE Awaited' /\ NoneStuck'
    BY <1>1, <1>3, AwaitedSent, NoneStuckSent
<1>4. CASE \/ Quiet
           \/ \E chan \in Subjects : NewSubjectReader(chan)
           \/ \E f \in DOMAIN net : RxRead(f)
    <2>1. Carried
        BY <1>1, <1>4, CarriedStep
    <2>2. UNCHANGED <<sent, crossed>>
        BY <1>4 DEF Quiet, NewSubjectReader, RxRead
    <2>3. \A p \in 1..Len(ports) : Fed(p)' => Fed(p)
        BY <1>1, <1>4, FedStep
    <2>4. Awaited'
        BY <1>1, <2>1, <2>2, <2>3, AwaitedCarried
    <2>5. ASSUME NEW k \in 1..Len(sent) PROVE ~(HeardWhole(k)' /\ Expected(k)')
        BY <1>1, <2>1, <2>2, NoneStuckCarried
    <2>6. NoneStuck'
        BY <2>2, <2>5 DEF NoneStuck
    <2> QED
        BY <2>4, <2>6
<1> QED
    BY <1>1, <1>2, <1>3, <1>4, StepClasses

LEMMA ArrivedIsPassedUp ==
    ASSUME Lossless
    PROVE  HeardIsPassedUp
<1>1. Types /\ Routed /\ Stateless /\ NoneStuck
    BY DEF Lossless, Orderly, Core, Base
<1>2. ASSUME NEW k \in 1..Len(sent), HeardWhole(k), k \notin crossed,
             IF ports[sent[k].port].stateful THEN Steady(sent[k].from, sent[k].chan)
             ELSE sent[k].size = 1
      PROVE  PassedUp(sent[k].port, k)
    <2>1. PICK p : p = sent[k].port /\ p # None /\ p \in 1..Len(ports)
        BY <1>1, <1>2 DEF HeardWhole, Routed
    <2>2. CASE ports[p].stateful
        BY <1>1, <1>2, <2>1, <2>2 DEF NoneStuck, Expected
    <2>3. CASE ~ports[p].stateful
        <3>1. sent[k].size = 1 /\ Memory(p, ports[p])
            BY <1>1, <1>2, <2>1, <2>3 DEF Stateless
        <3>2. <<k, 0>> \in heard[p]
            BY <1>2, <2>1, <3>1 DEF HeardWhole
        <3>3. k \in Given(p)
            BY <3>2 DEF Given
        <3> QED
            BY <2>1, <3>1, <3>3 DEF Memory
    <2> QED
        BY <2>2, <2>3
<1> QED
    BY <1>2 DEF HeardIsPassedUp

\* A transfer of a steady stream that overlaps with no other is passed up once
\* the frames given to its port make it whole, in whatever order they came and
\* however often (the slot of its session in acceptStateful collects them; no
\* frame of an older transfer takes it away), also by a reader that was closed
\* while the receive loop held the last of them.
THEOREM UdpHeardIsPassedUp == Spec => []HeardIsPassedUp
<1> QED
    BY LosslessInit, LosslessStep, ArrivedIsPassedUp, PTL DEF Spec

=============================================================================
