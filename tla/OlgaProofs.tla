----------------------------- MODULE OlgaProofs -----------------------------
(***************************************************************************)
(* Proofs about the event scheduler, for any number of tasks, runners and  *)
(* deadlines: the handles of the clients and the nodes of the tree agree,  *)
(* no wakeup of Run is lost, and the scheduler implements TimerQueue.      *)
(*                                                                         *)
(* Cancel deletes by key and looks at nothing else, so what has to be      *)
(* known is that a key, also a stale one of a task that has fired, is      *)
(* never the key of another task's node.                                   *)
(***************************************************************************)
EXTENDS Olga, TLAPS

\* A key that a task has, or had before it fired, is the key of no other task;
\* the key of a cancelled task is Key(0, 0).
KeysDistinct ==
    \A t, u \in DOMAIN task :
        task[t].key = task[u].key /\ task[t].key # Key(0, 0) => t = u

\* No key was made with a sequence number that is still to come.
KeysFresh ==
    \A t \in DOMAIN task : task[t].key.seqno < nextSeqno \/ task[t].key = Key(0, 0)

\* The nodes have deadlines that clients asked for.
NodesAsked == \A n \in tree : n.key.deadline \in 1..maxInt64

\* Run's own spin is under way only while Run is in processTasks.
LoopIdle == run.at # "spin" => spin[Loop] = Idle

SpinsBounded == \A r \in AllRunners : spin[r].limit \in 0..maxInt64

IInv ==
    /\ TypeOK
    /\ HandlesExact
    /\ KeysDistinct
    /\ KeysFresh
    /\ NodesAsked
    /\ LoopIdle
    /\ SpinsBounded
    /\ now \in 0..MaxTime

-----------------------------------------------------------------------------
LEMMA BoundNat == maxInt64 \in Nat /\ MaxTime \in 0..maxInt64
BY OlgaAssumption DEF maxInt64

LEMMA LoopIsRunner == Loop \in AllRunners /\ Runners \subseteq AllRunners
BY DEF AllRunners

LEMMA InitInv == Init => IInv
<1> SUFFICES ASSUME Init PROVE IInv
    OBVIOUS
<1> USE DEF Init
<1>1. TypeOK
    BY OlgaAssumption DEF TypeOK, Idle, RunAt, Keys, Key
<1>2. HandlesExact /\ KeysDistinct /\ KeysFresh /\ NodesAsked
    BY DEF HandlesExact, KeysDistinct, KeysFresh, NodesAsked
<1>3. LoopIdle /\ SpinsBounded /\ now \in 0..MaxTime
    BY OlgaAssumption, BoundNat, LoopIsRunner DEF LoopIdle, SpinsBounded, Idle
<1> QED
    BY <1>1, <1>2, <1>3 DEF IInv

-----------------------------------------------------------------------------
(* Every action preserves the invariant.  First those that change the tree *)
(* or the tasks.                                                           *)

LEMMA NewKeyNew ==
    ASSUME IInv, NEW d \in Deadlines
    PROVE  /\ Key(d, nextSeqno) \in Keys
           /\ Key(d, nextSeqno) # Key(0, 0)
           /\ Key(d, nextSeqno).deadline = d /\ Key(d, nextSeqno).seqno = nextSeqno
           /\ d \in 1..maxInt64
           /\ \A n \in tree : n.key # Key(d, nextSeqno)
           /\ \A t \in DOMAIN task : task[t].key # Key(d, nextSeqno)
<1>1. d \in 1..maxInt64 /\ d \in Nat /\ d # 0 /\ nextSeqno \in Nat
    BY OlgaAssumption, BoundNat DEF IInv, TypeOK
<1>2. /\ Key(d, nextSeqno) \in Keys
      /\ Key(d, nextSeqno).deadline = d /\ Key(d, nextSeqno).seqno = nextSeqno
    BY <1>1 DEF Keys, Key
<1>3. Key(d, nextSeqno) # Key(0, 0)
    BY <1>1 DEF Key
<1>4. \A n \in tree : n.key # Key(d, nextSeqno)
    BY <1>2 DEF IInv, TypeOK, Keys
<1>5. \A t \in DOMAIN task : task[t].key # Key(d, nextSeqno)
    BY <1>2, <1>3 DEF IInv, TypeOK, Keys, KeysFresh
<1> QED
    BY <1>1, <1>2, <1>3, <1>4, <1>5

LEMMA ScheduleInv ==
    ASSUME IInv, NEW t \in Tasks, NEW d \in Deadlines, Schedule(t, d)
    PROVE  IInv'
<1> DEFINE k == Key(d, nextSeqno)
<1>k. /\ k \in Keys /\ k # Key(0, 0) /\ k.deadline = d /\ k.seqno = nextSeqno
      /\ d \in 1..maxInt64
      /\ \A n \in tree : n.key # k
      /\ \A u \in DOMAIN task : task[u].key # k
    BY NewKeyNew
<1> HIDE DEF k
<1>1. /\ t \notin DOMAIN task
      /\ nextSeqno \in Nat /\ nextSeqno' = nextSeqno + 1
      /\ task' = [u \in DOMAIN task \cup {t} |->
                     IF u = t THEN [active |-> TRUE, key |-> k] ELSE task[u]]
      /\ tree' = tree \cup {[key |-> k, task |-> t]}
      /\ wakeup' \in BOOLEAN
      /\ UNCHANGED <<now, spin, run, stop>>
    BY <1>k DEF Schedule, k, TreeInsert, TreeDelete, WakeupIfEarliest, IInv, TypeOK
<1>2. TypeOK'
  <2>1. tree' \subseteq [key : Keys, task : Tasks] /\ \A n \in tree' : n.key.seqno < nextSeqno'
      BY <1>1, <1>k DEF IInv, TypeOK, Keys
  <2>2. /\ DOMAIN task' = DOMAIN task \cup {t} /\ DOMAIN task' \subseteq Tasks
        /\ task' \in [DOMAIN task' -> [active : BOOLEAN, key : Keys]]
      BY <1>1, <1>k DEF IInv, TypeOK
  <2> QED
      BY <1>1, <2>1, <2>2 DEF IInv, TypeOK
<1>3. HandlesExact'
  <2> SUFFICES ASSUME NEW n \in tree'
               PROVE  n.task \in DOMAIN task' /\ task'[n.task] = [active |-> TRUE, key |-> n.key]
      BY DEF HandlesExact
  <2>1. CASE n \in tree
    <3>1. n.task \in DOMAIN task /\ task[n.task] = [active |-> TRUE, key |-> n.key]
        BY <2>1 DEF IInv, HandlesExact
    <3> QED
        BY <1>1, <3>1
  <2>2. CASE n = [key |-> k, task |-> t]
      BY <1>1, <2>2
  <2> QED
      BY <1>1, <2>1, <2>2
<1>4. KeysDistinct'
    BY <1>1, <1>k DEF IInv, KeysDistinct
<1>5. KeysFresh'
    BY <1>1, <1>k DEF IInv, KeysFresh, TypeOK, Keys
<1>6. NodesAsked'
    BY <1>1, <1>k DEF IInv, NodesAsked
<1>7. LoopIdle' /\ SpinsBounded' /\ (now \in 0..MaxTime)'
    BY <1>1 DEF IInv, LoopIdle, SpinsBounded
<1> QED
    BY <1>2, <1>3, <1>4, <1>5, <1>6, <1>7 DEF IInv

LEMMA RescheduleInv ==
    ASSUME IInv, NEW t \in Tasks, NEW d \in Deadlines, Reschedule(t, d)
    PROVE  IInv'
<1> DEFINE k == Key(d, nextSeqno)
<1>k. /\ k \in Keys /\ k # Key(0, 0) /\ k.deadline = d /\ k.seqno = nextSeqno
      /\ d \in 1..maxInt64
      /\ \A n \in tree : n.key # k
      /\ \A u \in DOMAIN task : task[u].key # k
    BY NewKeyNew
<1> HIDE DEF k
<1>1. /\ t \in DOMAIN task /\ task[t].active
      /\ nextSeqno \in Nat /\ nextSeqno' = nextSeqno + 1
      /\ task' = [task EXCEPT ![t].key = k]
      /\ tree' = {n \in tree : n.key # task[t].key} \cup {[key |-> k, task |-> t]}
      /\ wakeup' \in BOOLEAN
      /\ UNCHANGED <<now, spin, run, stop>>
    BY <1>k DEF Reschedule, k, TreeInsert, TreeDelete, WakeupIfEarliest, IInv, TypeOK
<1>t. /\ DOMAIN task' = DOMAIN task
      /\ task'[t] = [active |-> TRUE, key |-> k]
      /\ \A u \in DOMAIN task : u # t => task'[u] = task[u]
      /\ task' \in [DOMAIN task -> [active : BOOLEAN, key : Keys]]
    BY <1>1, <1>k DEF IInv, TypeOK
<1>2. TypeOK'
  <2>1. tree' \subseteq [key : Keys, task : Tasks] /\ \A n \in tree' : n.key.seqno < nextSeqno'
      BY <1>1, <1>k DEF IInv, TypeOK, Keys
  <2> QED
      BY <1>1, <1>t, <2>1 DEF IInv, TypeOK
<1>3. HandlesExact'
  <2> SUFFICES ASSUME NEW n \in tree'
               PROVE  n.task \in DOMAIN task' /\ task'[n.task] = [active |-> TRUE, key |-> n.key]
      BY DEF HandlesExact
  <2>1. CASE n \in tree /\ n.key # task[t].key
    <3>1. n.task \in DOMAIN task /\ task[n.task] = [active |-> TRUE, key |-> n.key]
        BY <2>1 DEF IInv, HandlesExact
    <3>2. n.task # t
        BY <2>1, <3>1
    <3> QED
        BY <1>t, <3>1, <3>2
  <2>2. CASE n = [key |-> k, task |-> t]
      BY <1>1, <1>t, <2>2
  <2> QED
      BY <1>1, <2>1, <2>2
<1>4. KeysDistinct'
    BY <1>1, <1>t, <1>k DEF IInv, KeysDistinct
<1>5. KeysFresh'
    BY <1>1, <1>t, <1>k DEF IInv, KeysFresh, TypeOK, Keys
<1>6. NodesAsked'
    BY <1>1, <1>k DEF IInv, NodesAsked
<1>7. LoopIdle' /\ SpinsBounded' /\ (now \in 0..MaxTime)'
    BY <1>1 DEF IInv, LoopIdle, SpinsBounded
<1> QED
    BY <1>2, <1>3, <1>4, <1>5, <1>6, <1>7 DEF IInv

LEMMA ZeroKey == Key(0, 0) \in Keys
BY DEF Key, Keys

LEMMA CancelInv ==
    ASSUME IInv, NEW t \in Tasks, Cancel(t)
    PROVE  IInv'
<1>1. /\ t \in DOMAIN task
      /\ tree' = {n \in tree : n.key # task[t].key}
      /\ task' = [task EXCEPT ![t] = [active |-> FALSE, key |-> Key(0, 0)]]
      /\ UNCHANGED <<now, nextSeqno, spin, run, wakeup, stop>>
    BY DEF Cancel, TreeDelete
<1>t. /\ DOMAIN task' = DOMAIN task
      /\ task'[t] = [active |-> FALSE, key |-> Key(0, 0)]
      /\ \A u \in DOMAIN task : u # t => task'[u] = task[u]
      /\ task' \in [DOMAIN task -> [active : BOOLEAN, key : Keys]]
    BY <1>1, ZeroKey DEF IInv, TypeOK
<1>2. TypeOK'
    BY <1>1, <1>t DEF IInv, TypeOK
<1>3. HandlesExact'
    BY <1>1, <1>t DEF IInv, HandlesExact
<1>4. KeysDistinct' /\ KeysFresh'
    BY <1>1, <1>t DEF IInv, KeysDistinct, KeysFresh
<1>6. NodesAsked'
    BY <1>1 DEF IInv, NodesAsked
<1>7. LoopIdle' /\ SpinsBounded' /\ (now \in 0..MaxTime)'
    BY <1>1 DEF IInv, LoopIdle, SpinsBounded
<1> QED
    BY <1>2, <1>3, <1>4, <1>6, <1>7 DEF IInv

LEMMA ClearInv ==
    ASSUME IInv, Clear
    PROVE  IInv'
<1>1. /\ tree' = {}
      /\ DOMAIN task' = DOMAIN task
      /\ \A u \in DOMAIN task : task'[u] = task[u] \/ task'[u] = [active |-> FALSE, key |-> Key(0, 0)]
      /\ task' \in [DOMAIN task -> [active : BOOLEAN, key : Keys]]
      /\ UNCHANGED <<now, nextSeqno, spin, run, wakeup, stop>>
    BY ZeroKey DEF Clear, IInv, TypeOK
<1>2. TypeOK'
    BY <1>1 DEF IInv, TypeOK
<1>3. HandlesExact' /\ NodesAsked'
    BY <1>1 DEF IInv, HandlesExact, NodesAsked
<1>4. KeysDistinct' /\ KeysFresh'
    BY <1>1 DEF IInv, KeysDistinct, KeysFresh
<1>7. LoopIdle' /\ SpinsBounded' /\ (now \in 0..MaxTime)'
    BY <1>1 DEF IInv, LoopIdle, SpinsBounded
<1> QED
    BY <1>2, <1>3, <1>4, <1>7 DEF IInv

\* A runner takes the first node; the tree loses nodes and gains none.
LEMMA TakeInv ==
    ASSUME IInv, NEW r \in AllRunners, r = Loop => run.at = "spin",
           NEW t \in Tasks,
           tree' \subseteq tree,
           spin' = [spin EXCEPT ![r].task = t],
           UNCHANGED <<now, nextSeqno, task, run, wakeup, stop>>
    PROVE  IInv'
<1>1. spin' \in [AllRunners -> [on : BOOLEAN, limit : Nat, checkNow : BOOLEAN,
                                task : Tasks \cup {None}]]
    BY DEF IInv, TypeOK
<1>2. TypeOK'
    BY <1>1 DEF IInv, TypeOK
<1>3. HandlesExact' /\ KeysDistinct' /\ KeysFresh' /\ NodesAsked'
    BY DEF IInv, HandlesExact, KeysDistinct, KeysFresh, NodesAsked
<1>4. LoopIdle' /\ SpinsBounded' /\ (now \in 0..MaxTime)'
    BY LoopIsRunner DEF IInv, TypeOK, LoopIdle, SpinsBounded
<1> QED
    BY <1>2, <1>3, <1>4 DEF IInv

\* The node that is taken out is a task of a client.
LEMMA DequeueInv ==
    ASSUME IInv, NEW r \in AllRunners, SpinDequeue(r)
    PROVE  IInv'
<1>1. PICK n \in tree : /\ tree' = TreeDelete(tree, task[n.task].key)
                        /\ spin' = [spin EXCEPT ![r].task = n.task]
    BY DEF SpinDequeue
<1>2. tree' \subseteq tree /\ n.task \in Tasks
    BY <1>1 DEF TreeDelete, IInv, TypeOK
<1>3. r = Loop => run.at = "spin"
    BY DEF SpinDequeue, IInv, LoopIdle, Idle
<1> QED
    BY <1>1, <1>2, <1>3, TakeInv DEF SpinDequeue

LEMMA RunOnceInv ==
    ASSUME IInv, NEW r \in Runners, RunOnce(r)
    PROVE  IInv'
<1>1. PICK n \in tree : /\ tree' = TreeDelete(tree, task[n.task].key)
                        /\ spin' = [spin EXCEPT ![r].task = n.task]
    BY DEF RunOnce
<1>2. tree' \subseteq tree /\ n.task \in Tasks
    BY <1>1 DEF TreeDelete, IInv, TypeOK
<1>3. r # Loop /\ r \in AllRunners
    BY OlgaAssumption, LoopIsRunner
<1> QED
    BY <1>1, <1>2, <1>3, TakeInv DEF RunOnce

\* The steps that leave the tree, the tasks and the clock alone.
LEMMA QuietInv ==
    ASSUME IInv, UNCHANGED <<now, tree, nextSeqno, task>>,
           wakeup' \in BOOLEAN, stop' \in BOOLEAN,
           run' \in [at : {"off", "top", "select", "spin", "done"}, next : Nat, timer : BOOLEAN],
           spin' \in [AllRunners -> [on : BOOLEAN, limit : Nat, checkNow : BOOLEAN,
                                     task : Tasks \cup {None}]],
           LoopIdle', SpinsBounded'
    PROVE  IInv'
<1>1. TypeOK'
    BY DEF IInv, TypeOK
<1>2. HandlesExact' /\ KeysDistinct' /\ KeysFresh' /\ NodesAsked' /\ (now \in 0..MaxTime)'
    BY DEF IInv, HandlesExact, KeysDistinct, KeysFresh, NodesAsked
<1> QED
    BY <1>1, <1>2 DEF IInv

\* A runner other than Run's begins a spin, goes on with it or ends it.
LEMMA SpinInv ==
    ASSUME IInv, NEW r \in AllRunners, r = Loop => run.at = "spin",
           NEW s \in [on : BOOLEAN, limit : 0..maxInt64, checkNow : BOOLEAN,
                      task : Tasks \cup {None}],
           spin' = [spin EXCEPT ![r] = s],
           UNCHANGED <<now, schedVars, run, stop>>
    PROVE  IInv'
<1>1. spin' \in [AllRunners -> [on : BOOLEAN, limit : Nat, checkNow : BOOLEAN,
                                task : Tasks \cup {None}]]
    BY BoundNat DEF IInv, TypeOK
<1>2. LoopIdle' /\ SpinsBounded'
    BY LoopIsRunner DEF IInv, TypeOK, LoopIdle, SpinsBounded
<1> QED
    BY <1>1, <1>2, QuietInv DEF schedVars, IInv, TypeOK

LEMMA IdleType ==
    Idle \in [on : BOOLEAN, limit : 0..maxInt64, checkNow : BOOLEAN, task : Tasks \cup {None}]
BY BoundNat DEF Idle

LEMMA CallInv ==
    ASSUME IInv, NEW r \in Runners, Call(r)
    PROVE  IInv'
<1>r. r # Loop /\ r \in AllRunners
    BY OlgaAssumption, LoopIsRunner
<1>1. ASSUME NEW limit \in 0..maxInt64, NEW c \in BOOLEAN, SpinBegin(r, limit, c)
      PROVE  IInv'
  <2> DEFINE s == [on |-> TRUE, limit |-> limit, checkNow |-> c, task |-> None]
  <2>1. s \in [on : BOOLEAN, limit : 0..maxInt64, checkNow : BOOLEAN, task : Tasks \cup {None}]
      OBVIOUS
  <2>2. spin' = [spin EXCEPT ![r] = s] /\ UNCHANGED <<now, schedVars, run, stop>>
      BY <1>1 DEF SpinBegin
  <2> QED
      BY <1>r, <2>1, <2>2, SpinInv
<1>2. \A d \in Deadlines : d \in 0..maxInt64
    BY OlgaAssumption, BoundNat
<1>3. maxInt64 \in 0..maxInt64
    BY BoundNat
<1>4. CASE RunOnce(r)
    BY <1>4, RunOnceInv
<1>5. CASE \E d \in Deadlines : RunUntil(r, d) \/ SpinUntil(r, d)
    BY <1>1, <1>2, <1>5 DEF RunUntil, SpinUntil
<1>6. CASE Spin(r)
    BY <1>1, <1>3, <1>6 DEF Spin
<1> QED
    BY <1>4, <1>5, <1>6 DEF Call

LEMMA SpinStepInv ==
    ASSUME IInv, NEW r \in AllRunners, SpinStep(r)
    PROVE  IInv'
<1>0. spin[r] \in [on : BOOLEAN, limit : 0..maxInt64, checkNow : BOOLEAN, task : Tasks \cup {None}]
    BY DEF IInv, TypeOK, SpinsBounded
<1>n. None \notin Tasks
    BY OlgaAssumption
<1>l. r = Loop /\ spin[r] # Idle => run.at = "spin"
    BY DEF IInv, LoopIdle
<1>1. CASE SpinDequeue(r)
    BY <1>1, DequeueInv
<1>2. CASE CallbackReturn(r)
  <2> DEFINE s == [spin[r] EXCEPT !.task = None]
  <2>1. s \in [on : BOOLEAN, limit : 0..maxInt64, checkNow : BOOLEAN, task : Tasks \cup {None}]
      BY <1>0
  <2>2. spin' = [spin EXCEPT ![r] = s] /\ UNCHANGED <<now, schedVars, run, stop>> /\ spin[r] # Idle
      BY <1>2 DEF CallbackReturn, Idle
  <2> QED
      BY <1>l, <2>1, <2>2, SpinInv
<1>3. CASE SpinReturn(r)
  <2>1. spin' = [spin EXCEPT ![r] = Idle] /\ UNCHANGED <<now, schedVars, run, stop>> /\ spin[r] # Idle
      BY <1>3 DEF SpinReturn, Idle
  <2> QED
      BY <1>l, <2>1, IdleType, SpinInv
<1>4. CASE RunOnceReturn(r)
  <2>1. spin' = [spin EXCEPT ![r] = Idle] /\ UNCHANGED <<now, schedVars, run, stop>> /\ spin[r] # Idle
      BY <1>4 DEF RunOnceReturn, Idle
  <2> QED
      BY <1>l, <2>1, IdleType, SpinInv
<1> QED
    BY <1>1, <1>2, <1>3, <1>4 DEF SpinStep

\* Run goes from one place to another.
LEMMA RunInv ==
    ASSUME IInv, RunBegin \/ RunStep \/ Stop
    PROVE  IInv'
<1>0. spin \in [AllRunners -> [on : BOOLEAN, limit : Nat, checkNow : BOOLEAN,
                               task : Tasks \cup {None}]] /\ SpinsBounded
    BY DEF IInv, TypeOK
<1>p. \A place \in {"off", "top", "select", "spin", "done"} :
        /\ RunAt(place) \in [at : {"off", "top", "select", "spin", "done"}, next : Nat, timer : BOOLEAN]
        /\ RunAt(place).at = place
    BY DEF RunAt
<1>s. ASSUME UNCHANGED spin PROVE SpinsBounded'
    BY <1>0, <1>s DEF SpinsBounded
<1>1. CASE RunBegin
  <2>1. LoopIdle'
      BY <1>1, <1>p DEF RunBegin, IInv, LoopIdle
  <2> QED
      BY <1>0, <1>1, <1>p, <1>s, <2>1, QuietInv DEF RunBegin, schedVars, IInv, TypeOK
<1>2. CASE RunSample
  <2>1. PICK d \in {n.key.deadline : n \in {m \in tree : IsFirst(tree, m)}}
                     \cup (IF tree = {} THEN {maxInt64} ELSE {}) :
            run' = [at |-> "select", next |-> d, timer |-> d > now]
      BY <1>2 DEF RunSample
  <2>2. d \in Nat /\ (d > now) \in BOOLEAN
      BY BoundNat DEF IInv, TypeOK, Keys
  <2>3. /\ run' \in [at : {"off", "top", "select", "spin", "done"}, next : Nat, timer : BOOLEAN]
        /\ run'.at = "select"
      BY <2>1, <2>2
  <2>4. LoopIdle'
      BY <1>2, <2>3 DEF RunSample, IInv, LoopIdle
  <2> QED
      BY <1>0, <1>2, <1>s, <2>3, <2>4, QuietInv DEF RunSample, schedVars, IInv, TypeOK
<1>3. ASSUME LoopSpin, UNCHANGED <<now, tree, nextSeqno, task, stop>>, wakeup' \in BOOLEAN
      PROVE  IInv'
  <2>1. maxInt64 \in 0..maxInt64
      BY BoundNat
  <2>2. /\ spin' \in [AllRunners -> [on : BOOLEAN, limit : Nat, checkNow : BOOLEAN,
                                     task : Tasks \cup {None}]]
        /\ SpinsBounded'
      BY <1>0, <1>3, <2>1, LoopIsRunner, BoundNat DEF LoopSpin, SpinsBounded
  <2>3. LoopIdle'
      BY <1>3, <1>p DEF LoopSpin, LoopIdle
  <2> QED
      BY <1>3, <1>p, <2>2, <2>3, QuietInv DEF LoopSpin, IInv, TypeOK
<1>4. CASE RunWakeup
    BY <1>3, <1>4 DEF RunWakeup
<1>5. CASE RunTimer
    BY <1>3, <1>5 DEF RunTimer, schedVars, IInv, TypeOK
<1>6. CASE RunStopped
  <2>1. LoopIdle'
      BY <1>6, <1>p DEF RunStopped, IInv, LoopIdle
  <2> QED
      BY <1>0, <1>6, <1>p, <1>s, <2>1, QuietInv DEF RunStopped, schedVars, IInv, TypeOK
<1>7. CASE RunAgain
  <2>1. LoopIdle'
      BY <1>7 DEF RunAgain, LoopIdle
  <2> QED
      BY <1>0, <1>7, <1>p, <1>s, <2>1, QuietInv DEF RunAgain, schedVars, IInv, TypeOK
<1>8. CASE Stop
  <2>1. LoopIdle'
      BY <1>8 DEF Stop, IInv, LoopIdle
  <2> QED
      BY <1>0, <1>8, <1>s, <2>1, QuietInv DEF Stop, schedVars, IInv, TypeOK
<1> QED
    BY <1>1, <1>2, <1>4, <1>5, <1>6, <1>7, <1>8 DEF RunStep

LEMMA TickInv ==
    ASSUME IInv, Tick
    PROVE  IInv'
<1>1. TypeOK' /\ (now \in 0..MaxTime)'
    BY OlgaAssumption DEF Tick, schedVars, IInv, TypeOK
<1>2. HandlesExact' /\ KeysDistinct' /\ KeysFresh' /\ NodesAsked' /\ LoopIdle' /\ SpinsBounded'
    BY DEF Tick, schedVars, IInv, HandlesExact, KeysDistinct, KeysFresh, NodesAsked,
           LoopIdle, SpinsBounded
<1> QED
    BY <1>1, <1>2 DEF IInv

LEMMA StutterInv == IInv /\ UNCHANGED vars => IInv'
BY DEF vars, IInv, TypeOK, HandlesExact, KeysDistinct, KeysFresh, NodesAsked, LoopIdle, SpinsBounded

LEMMA NextInv == IInv /\ [Next]_vars => IInv'
<1> SUFFICES ASSUME IInv, Next PROVE IInv'
    BY StutterInv
<1>1. CASE Client
    BY <1>1, ScheduleInv, RescheduleInv, CancelInv, ClearInv DEF Client
<1>2. CASE \E r \in Runners : Call(r)
    BY <1>2, CallInv
<1>3. CASE \E r \in AllRunners : SpinStep(r)
    BY <1>3, SpinStepInv
<1>4. CASE RunBegin \/ RunStep \/ Stop
    BY <1>4, RunInv
<1>5. CASE Tick
    BY <1>5, TickInv
<1> QED
    BY <1>1, <1>2, <1>3, <1>4, <1>5 DEF Next

\* The invariant of the scheduler, for every behaviour: the handle of a task
\* and its node agree, and no key, current or stale, is shared.
THEOREM OlgaInvariant == Spec => []IInv
BY InitInv, NextInv, PTL DEF Spec

\* HandlesExact: the handle of a pending task always leads back to its node,
\* so that spin, Cancel and Reschedule delete the node they mean.
THEOREM OlgaHandles == Spec => []HandlesExact
<1>1. IInv => HandlesExact
    BY DEF IInv
<1> QED
    BY <1>1, OlgaInvariant, PTL
-----------------------------------------------------------------------------
(* No wakeup is lost.                                                      *)

\* A key that does not become the first of the tree is no earlier than a node
\* that was there before.
LEMMA LaterThanSome ==
    ASSUME IInv, IInv', NEW k \in Keys, NEW t, NEW T, T \subseteq tree,
           tree' = T \cup {[key |-> k, task |-> t]},
           \A n \in T : n.key # k,
           WakeupIfEarliest(tree', k), ~wakeup'
    PROVE  ~wakeup /\ \E m \in tree : m.key.deadline <= k.deadline
<1> DEFINE new == [key |-> k, task |-> t]
<1>1. new \in tree' /\ new.key = k
    OBVIOUS
<1>2. ~wakeup /\ ~IsFirst(tree', new)
    BY <1>1 DEF WakeupIfEarliest, IInv, TypeOK
<1>3. PICK m \in tree' \ {new} : ~KeyLess(k, m.key)
    BY <1>1, <1>2 DEF IsFirst
<1>4. m \in tree /\ m.key \in Keys
    BY <1>3 DEF IInv, TypeOK
<1>5. m.key.deadline <= k.deadline
    BY <1>3, <1>4 DEF KeyLess, Keys
<1> QED
    BY <1>2, <1>4, <1>5

\* A client on another goroutine adds a node while Run waits.
LEMMA AddedNotOverslept ==
    ASSUME IInv, IInv', NoOversleep, NEW t \in Tasks, NEW d \in Deadlines,
           Schedule(t, d) \/ Reschedule(t, d)
    PROVE  NoOversleep'
<1> DEFINE k == Key(d, nextSeqno)
           T == IF Schedule(t, d) THEN tree ELSE {n \in tree : n.key # task[t].key}
<1>k. k \in Keys /\ \A n \in tree : n.key # k
    BY NewKeyNew
<1> HIDE DEF k
<1>1. /\ T \subseteq tree
      /\ tree' = T \cup {[key |-> k, task |-> t]}
      /\ WakeupIfEarliest(tree', k)
      /\ UNCHANGED run
    BY <1>k DEF Schedule, Reschedule, TreeInsert, TreeDelete, k
<1> HIDE DEF T
<1> SUFFICES ASSUME run.at = "select", ~wakeup', NEW n \in tree'
             PROVE  run.next <= n.key.deadline
    BY <1>1 DEF NoOversleep
<1>2. ~wakeup /\ \E m \in tree : m.key.deadline <= k.deadline
    BY <1>1, <1>k, LaterThanSome
<1>3. \A m \in tree : run.next <= m.key.deadline
    BY <1>2 DEF NoOversleep
<1>4. run.next \in Nat /\ \A m \in tree : m.key.deadline \in Nat
    BY DEF IInv, TypeOK, Keys
<1>5. run.next <= k.deadline
    BY <1>2, <1>3, <1>4, <1>k DEF Keys
<1> QED
    BY <1>1, <1>3, <1>5

\* The head of the loop samples the earliest deadline.
LEMMA SampleNotOverslept ==
    ASSUME IInv, RunSample
    PROVE  NoOversleep'
<1>1. PICK d \in {n.key.deadline : n \in {m \in tree : IsFirst(tree, m)}}
                   \cup (IF tree = {} THEN {maxInt64} ELSE {}) :
          run' = [at |-> "select", next |-> d, timer |-> d > now]
    BY DEF RunSample
<1>2. tree' = tree /\ run'.next = d
    BY <1>1 DEF RunSample, schedVars
<1>3. ASSUME NEW m \in tree PROVE d <= m.key.deadline
  <2>1. PICK n \in tree : IsFirst(tree, n) /\ d = n.key.deadline
      OBVIOUS
  <2>2. n.key \in Keys /\ m.key \in Keys
      BY DEF IInv, TypeOK
  <2> QED
      BY <2>1, <2>2 DEF IsFirst, KeyLess, Keys
<1> QED
    BY <1>2, <1>3 DEF NoOversleep

\* NoOversleep: while Run waits and no wakeup is pending, no task is due before
\* the deadline it waits for, whatever was scheduled since it looked.
THEOREM OlgaNoOversleep == Spec => []NoOversleep
<1>1. Init => NoOversleep
    BY DEF Init, NoOversleep
<1>2. ASSUME IInv, IInv', NoOversleep, [Next]_vars
      PROVE  NoOversleep'
  <2>q. ASSUME tree' \subseteq tree,
               run'.at = "select" /\ ~wakeup' => run' = run /\ wakeup' = wakeup
        PROVE  NoOversleep'
      BY <1>2, <2>q DEF NoOversleep
  <2>r. \A place : RunAt(place).at = place
      BY DEF RunAt
  <2>1. CASE \E t \in Tasks, d \in Deadlines : Schedule(t, d) \/ Reschedule(t, d)
      BY <1>2, <2>1, AddedNotOverslept
  <2>2. CASE (\E t \in Tasks : Cancel(t)) \/ Clear
      BY <2>2, <2>q DEF Cancel, Clear, TreeDelete
  <2>3. CASE \E r \in Runners : Call(r)
      BY <2>3, <2>q DEF Call, RunUntil, SpinUntil, Spin, SpinBegin, RunOnce, TreeDelete, schedVars
  <2>4. CASE \E r \in AllRunners : SpinStep(r)
      BY <2>4, <2>q DEF SpinStep, SpinDequeue, CallbackReturn, SpinReturn, RunOnceReturn,
                        TreeDelete, schedVars
  <2>5. CASE RunSample
      BY <1>2, <2>5, SampleNotOverslept
  <2>6. CASE RunBegin \/ RunStopped \/ RunAgain
      BY <2>6, <2>q, <2>r DEF RunBegin, RunStopped, RunAgain, schedVars
  <2>7. CASE RunWakeup \/ RunTimer
      BY <2>7, <2>q, <2>r DEF RunWakeup, RunTimer, LoopSpin, schedVars
  <2>8. CASE Stop \/ Tick \/ UNCHANGED vars
      BY <2>8, <2>q DEF Stop, Tick, schedVars, vars
  <2> QED
      BY <1>2, <2>1, <2>2, <2>3, <2>4, <2>5, <2>6, <2>7, <2>8 DEF Next, Client, RunStep
<1> QED
    BY <1>1, <1>2, OlgaInvariant, PTL DEF Spec
-----------------------------------------------------------------------------
(* The scheduler implements TimerQueue: a step of a client is an Arm or a  *)
(* Disarm of exactly the task it names, a dequeue is a Fire of the task    *)
(* that is due first, and the rest is a Look, a Return, a Pass or nothing. *)

\* The nodes and the tasks that are armed.
LEMMA ArmedFacts ==
    ASSUME IInv
    PROVE  /\ InTree \subseteq DOMAIN task
           /\ InTree \subseteq Tasks
           /\ \A n \in tree : n.task \in InTree /\ task[n.task].key = n.key
           /\ \A u \in InTree : \E n \in tree : n.task = u /\ n.key = task[u].key
           /\ \A u \in DOMAIN task : task[u].key.deadline \in Nat /\ task[u].key.seqno \in Nat
           /\ \A u \in InTree : task[u].key.seqno < nextSeqno /\ task[u].key # Key(0, 0)
<1>1. \A n \in tree : n.task \in InTree /\ n.task \in DOMAIN task /\ task[n.task].key = n.key
  <2> SUFFICES ASSUME NEW n \in tree
               PROVE  n.task \in InTree /\ n.task \in DOMAIN task /\ task[n.task].key = n.key
      OBVIOUS
  <2>1. n.task \in DOMAIN task /\ task[n.task] = [active |-> TRUE, key |-> n.key]
      BY DEF IInv, HandlesExact
  <2>2. n.task \in InTree
      BY DEF InTree
  <2> QED
      BY <2>1, <2>2
<1>2. \A u \in InTree : \E n \in tree : n.task = u /\ n.key = task[u].key
    BY <1>1 DEF InTree
<1>3. \A u \in DOMAIN task : task[u].key.deadline \in Nat /\ task[u].key.seqno \in Nat
    BY DEF IInv, TypeOK, Keys
<1>4. \A n \in tree : n.key.seqno < nextSeqno /\ n.key.deadline # 0
    BY BoundNat DEF IInv, TypeOK, NodesAsked
<1>5. \A u \in InTree : task[u].key.seqno < nextSeqno /\ task[u].key # Key(0, 0)
    BY <1>2, <1>4 DEF Key
<1>6. InTree \subseteq DOMAIN task /\ InTree \subseteq Tasks
    BY <1>1 DEF InTree, IInv, TypeOK
<1> QED
    BY <1>1, <1>2, <1>3, <1>5, <1>6

\* Deleting by the key of a task, current or stale, takes out the node of this
\* task if it has one, and no other.
LEMMA DeleteExact ==
    ASSUME IInv, NEW t \in DOMAIN task
    PROVE  {n.task : n \in TreeDelete(tree, task[t].key)} = InTree \ {t}
<1>1. ASSUME NEW n \in tree PROVE n.key = task[t].key <=> n.task = t
  <2>1. n.task \in DOMAIN task /\ task[n.task].key = n.key /\ n.key # Key(0, 0)
      BY ArmedFacts
  <2> QED
      BY <2>1 DEF IInv, KeysDistinct
<1> QED
    BY <1>1 DEF TreeDelete, InTree

\* Disarming in the mapped state.
LEMMA DisarmMaps ==
    ASSUME IInv, NEW S, InTree' = InTree \ S,
           \A u \in InTree \ S : task'[u].key = task[u].key
    PROVE  /\ [t \in InTree |-> task[t].key.deadline]'
                = [u \in InTree \ S |-> [t \in InTree |-> task[t].key.deadline][u]]
           /\ {p \in InTree \X InTree : task[p[1]].key.seqno < task[p[2]].key.seqno}'
                = {p \in {p \in InTree \X InTree : task[p[1]].key.seqno < task[p[2]].key.seqno} :
                       p[1] \notin S /\ p[2] \notin S}
<1>1. [t \in InTree |-> task[t].key.deadline]'
        = [u \in InTree \ S |-> [t \in InTree |-> task[t].key.deadline][u]]
    OBVIOUS
<1>2. ASSUME NEW p
      PROVE  p \in {p_1 \in InTree \X InTree : task[p_1[1]].key.seqno < task[p_1[2]].key.seqno}'
             <=> p \in {p_1 \in InTree \X InTree : task[p_1[1]].key.seqno < task[p_1[2]].key.seqno}
                 /\ p[1] \notin S /\ p[2] \notin S
    OBVIOUS
<1> QED
    BY <1>1, <1>2

\* A step that leaves the runners alone leaves their mapped state.
LEMMA RunnersMap ==
    ASSUME spin' = spin
    PROVE  /\ [r \in AllRunners |-> IF spin[r].on /\ ~spin[r].checkNow THEN spin[r].limit ELSE 0]'
                = [r \in AllRunners |-> IF spin[r].on /\ ~spin[r].checkNow THEN spin[r].limit ELSE 0]
           /\ [r \in AllRunners |-> spin[r].task]' = [r \in AllRunners |-> spin[r].task]
OBVIOUS

LEMMA TasksWithNode ==
    ASSUME NEW T, NEW k, NEW t
    PROVE  {n.task : n \in T \cup {[key |-> k, task |-> t]}} = {n.task : n \in T} \cup {t}
<1> DEFINE new == [key |-> k, task |-> t]
<1>1. new.task = t
    OBVIOUS
<1> HIDE DEF new
<1>2. {n.task : n \in T \cup {new}} = {n.task : n \in T} \cup {t}
    BY <1>1
<1> QED
    BY <1>2 DEF new

LEMMA ArmStep ==
    ASSUME IInv, NEW t \in Tasks, NEW d \in Deadlines,
           Schedule(t, d) \/ Reschedule(t, d)
    PROVE  TQ!Arm(t, d)
<1> DEFINE k == Key(d, nextSeqno)
           map == [u \in InTree |-> task[u].key.deadline]
           order == {p \in InTree \X InTree : task[p[1]].key.seqno < task[p[2]].key.seqno}
<1>k. /\ k \in Keys /\ k.deadline = d /\ k.seqno = nextSeqno
      /\ \A n \in tree : n.key # k
      /\ \A u \in DOMAIN task : task[u].key # k
    BY NewKeyNew
<1>n. nextSeqno \in Nat
    BY DEF IInv, TypeOK
<1>a. /\ InTree \subseteq DOMAIN task
      /\ \A u \in InTree : task[u].key.seqno < nextSeqno /\ task[u].key.seqno \in Nat
    BY ArmedFacts
<1> HIDE DEF k
<1>1. /\ InTree' = InTree \cup {t}
      /\ task'[t].key = k
      /\ \A u \in InTree \ {t} : task'[u].key = task[u].key
  <2>1. CASE Schedule(t, d)
    <3>1. tree' = tree \cup {[key |-> k, task |-> t]}
        BY <2>1, <1>k DEF Schedule, k, TreeInsert, TreeDelete
    <3>2. task' = [u \in DOMAIN task \cup {t} |->
                      IF u = t THEN [active |-> TRUE, key |-> k] ELSE task[u]]
        BY <2>1 DEF Schedule, k
    <3>3. InTree' = InTree \cup {t}
        BY <3>1, TasksWithNode DEF InTree
    <3> QED
        BY <1>a, <3>2, <3>3
  <2>2. CASE Reschedule(t, d)
    <3>1. t \in DOMAIN task
        BY <2>2 DEF Reschedule
    <3>2. tree' = TreeDelete(tree, task[t].key) \cup {[key |-> k, task |-> t]}
        BY <2>2, <1>k DEF Reschedule, k, TreeInsert, TreeDelete
    <3>3. task' = [task EXCEPT ![t].key = k]
        BY <2>2 DEF Reschedule, k
    <3>4. InTree' = {n.task : n \in TreeDelete(tree, task[t].key)} \cup {t}
        BY <3>2, TasksWithNode DEF InTree
    <3>5. InTree' = InTree \cup {t}
        BY <3>1, <3>4, DeleteExact
    <3>6. /\ task'[t].key = k
          /\ \A u \in InTree \ {t} : task'[u].key = task[u].key
        BY <1>a, <3>1, <3>3 DEF IInv, TypeOK
    <3> QED
        BY <3>5, <3>6
  <2> QED
      BY <2>1, <2>2
<1>2. map' = [u \in InTree \cup {t} |-> IF u = t THEN d ELSE map[u]]
    BY <1>1, <1>k
<1>3. order' = {p \in order : p[1] \notin {t} /\ p[2] \notin {t}} \cup ((InTree \ {t}) \X {t})
  <2> DEFINE new == {p \in order : p[1] \notin {t} /\ p[2] \notin {t}} \cup ((InTree \ {t}) \X {t})
  <2>1. ASSUME NEW a \in InTree', NEW b \in InTree'
        PROVE  <<a, b>> \in order' <=> <<a, b>> \in new
    <3>1. CASE a # t /\ b # t
        BY <1>1, <3>1
    <3>2. CASE a # t /\ b = t
        BY <1>1, <1>k, <1>a, <3>2
    <3>3. CASE a = t
      <4>1. ~(task'[a].key.seqno < task'[b].key.seqno)
          BY <1>1, <1>k, <1>a, <1>n, <3>3
      <4> QED
          BY <3>3, <4>1
    <3> QED
        BY <3>1, <3>2, <3>3
  <2>2. order' \subseteq InTree' \X InTree' /\ new \subseteq InTree' \X InTree'
      BY <1>1
  <2> HIDE DEF order, new
  <2>3. order' = new
      BY <2>1, <2>2
  <2> QED
      BY <2>3 DEF new
<1>4. spin' = spin /\ now' = now
    BY DEF Schedule, Reschedule
<1>5. DOMAIN map = InTree
    OBVIOUS
<1> QED
    BY <1>2, <1>3, <1>4, <1>5, RunnersMap DEF TQ!Arm, TQ!Armed, TQ!OrderWithout

LEMMA DisarmStep ==
    ASSUME IInv, NEW S, InTree' = InTree \ S,
           \A u \in InTree \ S : task'[u].key = task[u].key,
           spin' = spin, now' = now
    PROVE  TQ!Disarm(S)
<1> DEFINE map == [u \in InTree |-> task[u].key.deadline]
<1>1. DOMAIN map = InTree
    OBVIOUS
<1> QED
    BY <1>1, DisarmMaps, RunnersMap DEF TQ!Disarm, TQ!Armed, TQ!Without, TQ!OrderWithout

\* Cancel takes out the task it names.
LEMMA CancelsItsOwn ==
    IInv => \A t \in Tasks : Cancel(t) => InTree' = InTree \ {t}
<1> SUFFICES ASSUME IInv, NEW t \in Tasks, Cancel(t) PROVE InTree' = InTree \ {t}
    OBVIOUS
<1>1. t \in DOMAIN task /\ tree' = TreeDelete(tree, task[t].key)
    BY DEF Cancel
<1>2. InTree' = {n.task : n \in TreeDelete(tree, task[t].key)}
    BY <1>1 DEF InTree
<1> QED
    BY <1>1, <1>2, DeleteExact

LEMMA CancelStep ==
    ASSUME IInv, NEW t \in Tasks, Cancel(t)
    PROVE  TQ!Disarm({t})
<1>1. /\ t \in DOMAIN task
      /\ tree' = TreeDelete(tree, task[t].key)
      /\ task' = [task EXCEPT ![t] = [active |-> FALSE, key |-> Key(0, 0)]]
      /\ spin' = spin /\ now' = now
    BY DEF Cancel
<1>2. InTree' = InTree \ {t}
    BY CancelsItsOwn
<1>3. \A u \in InTree \ {t} : task'[u].key = task[u].key
    BY <1>1, ArmedFacts DEF IInv, TypeOK
<1> QED
    BY <1>1, <1>2, <1>3, DisarmStep

LEMMA ClearStep ==
    ASSUME IInv, Clear
    PROVE  TQ!Disarm(TQ!Armed)
<1> DEFINE map == [u \in InTree |-> task[u].key.deadline]
<1>1. tree' = {} /\ spin' = spin /\ now' = now
    BY DEF Clear
<1>2. InTree' = {}
    BY <1>1 DEF InTree
<1>3. DOMAIN map = InTree
    OBVIOUS
<1>4. PICK S : S = TQ!Armed
    OBVIOUS
<1>5. S = InTree
    BY <1>3, <1>4 DEF TQ!Armed
<1>6. InTree' = InTree \ S /\ \A u \in InTree \ S : task'[u].key = task[u].key
    BY <1>2, <1>5
<1>7. TQ!Disarm(S)
    BY <1>1, <1>6, DisarmStep
<1> QED
    BY <1>4, <1>7 DEF TQ!Disarm

\* The first node is the task that precedes all others.
LEMMA FireStep ==
    ASSUME IInv, NEW r \in AllRunners, NEW n \in tree, IsFirst(tree, n),
           spin[r].task = None,
           n.key.deadline <= now \/ (spin[r].on /\ ~spin[r].checkNow /\ n.key.deadline <= spin[r].limit),
           tree' = TreeDelete(tree, task[n.task].key),
           spin' = [spin EXCEPT ![r].task = n.task],
           UNCHANGED <<now, task>>
    PROVE  TQ!Fire(r, n.task)
<1> DEFINE t == n.task
           map == [u \in InTree |-> task[u].key.deadline]
           order == {p \in InTree \X InTree : task[p[1]].key.seqno < task[p[2]].key.seqno}
           horizonMap == [q \in AllRunners |->
                            IF spin[q].on /\ ~spin[q].checkNow THEN spin[q].limit ELSE 0]
           callMap == [q \in AllRunners |-> spin[q].task]
<1>1. t \in InTree /\ t \in DOMAIN task /\ task[t].key = n.key
    BY ArmedFacts
<1>2. \A u \in InTree \ {t} : map[t] < map[u] \/ (map[t] = map[u] /\ <<t, u>> \in order)
  <2> SUFFICES ASSUME NEW u \in InTree \ {t}
               PROVE  map[t] < map[u] \/ (map[t] = map[u] /\ <<t, u>> \in order)
      OBVIOUS
  <2>1. PICK m \in tree : m.task = u /\ m.key = task[u].key
      BY ArmedFacts
  <2>2. KeyLess(n.key, m.key)
      BY <2>1 DEF IsFirst
  <2> QED
      BY <1>1, <2>1, <2>2 DEF KeyLess
<1>3. map[t] <= now \/ map[t] <= horizonMap[r]
    BY <1>1
<1>4. InTree' = InTree \ {t}
  <2>1. InTree' = {m.task : m \in TreeDelete(tree, task[t].key)}
      BY DEF InTree
  <2> QED
      BY <1>1, <2>1, DeleteExact
<1>5. /\ map' = [u \in InTree \ {t} |-> map[u]]
      /\ order' = {p \in order : p[1] \notin {t} /\ p[2] \notin {t}}
    BY <1>4, DisarmMaps
<1>6. callMap' = [callMap EXCEPT ![r] = t] /\ callMap[r] = None
    BY DEF IInv, TypeOK
<1>7. horizonMap' = horizonMap
    BY DEF IInv, TypeOK
<1>8. DOMAIN map = InTree
    OBVIOUS
<1> QED
    BY <1>1, <1>2, <1>3, <1>5, <1>6, <1>7, <1>8
    DEF TQ!Fire, TQ!Armed, TQ!Precedes, TQ!Without, TQ!OrderWithout

\* A runner between two callbacks begins or ends a spin.
LEMMA LookStep ==
    ASSUME IInv, NEW r \in AllRunners, spin[r].task = None,
           NEW s \in [on : BOOLEAN, limit : 0..maxInt64, checkNow : BOOLEAN,
                      task : Tasks \cup {None}],
           s.task = None,
           spin' = [spin EXCEPT ![r] = s],
           UNCHANGED <<now, tree, task>>
    PROVE  \E h \in 0..maxInt64 : TQ!Look(r, h)
<1> DEFINE h == IF s.on /\ ~s.checkNow THEN s.limit ELSE 0
           horizonMap == [q \in AllRunners |->
                            IF spin[q].on /\ ~spin[q].checkNow THEN spin[q].limit ELSE 0]
           callMap == [q \in AllRunners |-> spin[q].task]
<1>1. h \in 0..maxInt64
    BY BoundNat
<1>2. callMap' = callMap /\ callMap[r] = None
    BY DEF IInv, TypeOK
<1>3. horizonMap' = [horizonMap EXCEPT ![r] = h]
    BY DEF IInv, TypeOK
<1>4. InTree' = InTree
    BY DEF InTree
<1> QED
    BY <1>1, <1>2, <1>3, <1>4 DEF TQ!Look

\* The end of a callback.
LEMMA ReturnStep ==
    ASSUME IInv, NEW r \in AllRunners, spin[r].task # None,
           spin' = [spin EXCEPT ![r].task = None] \/ (~spin[r].on /\ spin' = [spin EXCEPT ![r] = Idle]),
           UNCHANGED <<now, tree, task>>
    PROVE  TQ!Return(r)
<1> DEFINE horizonMap == [q \in AllRunners |->
                            IF spin[q].on /\ ~spin[q].checkNow THEN spin[q].limit ELSE 0]
           callMap == [q \in AllRunners |-> spin[q].task]
<1>0. callMap[r] # None
    OBVIOUS
<1>1. callMap' = [callMap EXCEPT ![r] = None]
  <2>1. CASE spin' = [spin EXCEPT ![r].task = None]
      BY <2>1 DEF IInv, TypeOK
  <2>2. CASE spin' = [spin EXCEPT ![r] = Idle]
    <3>1. \A q \in AllRunners : spin'[q].task = IF q = r THEN None ELSE spin[q].task
        BY <2>2 DEF IInv, TypeOK, Idle
    <3> QED
        BY <3>1
  <2> QED
      BY <2>1, <2>2
<1>2. horizonMap' = horizonMap
    BY DEF IInv, TypeOK, Idle
<1>3. InTree' = InTree
    BY DEF InTree
<1> QED
    BY <1>0, <1>1, <1>2, <1>3 DEF TQ!Return

LEMMA QuietStep ==
    ASSUME UNCHANGED <<now, tree, task, spin>>
    PROVE  UNCHANGED TQ!tqVars
BY DEF TQ!tqVars, InTree

LEMMA CallStep ==
    ASSUME IInv, NEW r \in Runners, Call(r)
    PROVE  \/ \E t \in Tasks : TQ!Fire(r, t)
           \/ \E h \in 0..maxInt64 : TQ!Look(r, h)
<1>r. r \in AllRunners
    BY LoopIsRunner
<1>1. ASSUME NEW limit \in 0..maxInt64, NEW c \in BOOLEAN, SpinBegin(r, limit, c)
      PROVE  \E h \in 0..maxInt64 : TQ!Look(r, h)
  <2> DEFINE s == [on |-> TRUE, limit |-> limit, checkNow |-> c, task |-> None]
  <2>1. s \in [on : BOOLEAN, limit : 0..maxInt64, checkNow : BOOLEAN, task : Tasks \cup {None}]
      OBVIOUS
  <2>2. spin' = [spin EXCEPT ![r] = s] /\ UNCHANGED <<now, tree, task>> /\ spin[r].task = None
      BY <1>1 DEF SpinBegin, schedVars, Idle
  <2> QED
      BY <1>r, <2>1, <2>2, LookStep
<1>2. \A d \in Deadlines : d \in 0..maxInt64
    BY OlgaAssumption, BoundNat
<1>3. maxInt64 \in 0..maxInt64
    BY BoundNat
<1>4. CASE RunOnce(r)
  <2>1. PICK n \in tree : /\ IsFirst(tree, n) /\ n.key.deadline <= now
                          /\ tree' = TreeDelete(tree, task[n.task].key)
                          /\ spin' = [spin EXCEPT ![r].task = n.task]
      BY <1>4 DEF RunOnce
  <2>2. spin[r].task = None /\ UNCHANGED <<now, task>>
      BY <1>4 DEF RunOnce, Idle
  <2>3. n.task \in Tasks
      BY DEF IInv, TypeOK
  <2>4. TQ!Fire(r, n.task)
      BY <1>r, <2>1, <2>2, FireStep
  <2> QED
      BY <2>3, <2>4
<1>5. CASE \E d \in Deadlines : RunUntil(r, d) \/ SpinUntil(r, d)
    BY <1>1, <1>2, <1>5 DEF RunUntil, SpinUntil
<1>6. CASE Spin(r)
    BY <1>1, <1>3, <1>6 DEF Spin
<1> QED
    BY <1>4, <1>5, <1>6 DEF Call

LEMMA SpinStepMaps ==
    ASSUME IInv, NEW r \in AllRunners, SpinStep(r)
    PROVE  \/ \E t \in Tasks : TQ!Fire(r, t)
           \/ TQ!Return(r)
           \/ \E h \in 0..maxInt64 : TQ!Look(r, h)
<1>1. CASE SpinDequeue(r)
  <2>1. PICK n \in tree : /\ IsFirst(tree, n) /\ Due(spin[r], n)
                          /\ tree' = TreeDelete(tree, task[n.task].key)
                          /\ spin' = [spin EXCEPT ![r].task = n.task]
      BY <1>1 DEF SpinDequeue
  <2>2. spin[r].on /\ spin[r].task = None /\ UNCHANGED <<now, task>>
      BY <1>1 DEF SpinDequeue
  <2>3. /\ n.task \in Tasks
        /\ spin[r].checkNow \in BOOLEAN
      BY DEF IInv, TypeOK
  <2>4. n.key.deadline <= now
          \/ (spin[r].on /\ ~spin[r].checkNow /\ n.key.deadline <= spin[r].limit)
      BY <2>1, <2>2, <2>3 DEF Due
  <2>5. TQ!Fire(r, n.task)
      BY <2>1, <2>2, <2>4, FireStep
  <2> QED
      BY <2>3, <2>5
<1>2. CASE CallbackReturn(r)
    BY <1>2, ReturnStep DEF CallbackReturn, schedVars
<1>3. CASE SpinReturn(r)
  <2>1. Idle.task = None
      BY DEF Idle
  <2> QED
      BY <1>3, <2>1, IdleType, LookStep DEF SpinReturn, schedVars
<1>4. CASE RunOnceReturn(r)
    BY <1>4, ReturnStep DEF RunOnceReturn, schedVars
<1> QED
    BY <1>1, <1>2, <1>3, <1>4 DEF SpinStep

\* Run looks at nothing that its clients see, except when it begins to spin.
LEMMA RunStepMaps ==
    ASSUME IInv, RunBegin \/ RunStep \/ Stop
    PROVE  \/ \E h \in 0..maxInt64 : TQ!Look(Loop, h)
           \/ UNCHANGED TQ!tqVars
<1>1. CASE RunBegin \/ RunSample \/ RunStopped \/ RunAgain \/ Stop
    BY <1>1, QuietStep DEF RunBegin, RunSample, RunStopped, RunAgain, Stop, schedVars
<1>2. CASE RunWakeup \/ RunTimer
  <2> DEFINE s == [on |-> TRUE, limit |-> maxInt64, checkNow |-> TRUE, task |-> None]
  <2>1. s \in [on : BOOLEAN, limit : 0..maxInt64, checkNow : BOOLEAN, task : Tasks \cup {None}]
      BY BoundNat
  <2>2. spin' = [spin EXCEPT ![Loop] = s] /\ UNCHANGED <<now, tree, task>>
      BY <1>2 DEF RunWakeup, RunTimer, LoopSpin, schedVars
  <2>3. spin[Loop].task = None
      BY <1>2 DEF RunWakeup, RunTimer, IInv, LoopIdle, Idle
  <2> QED
      BY <2>1, <2>2, <2>3, LoopIsRunner, LookStep
<1> QED
    BY <1>1, <1>2 DEF RunStep

LEMMA NextMaps == IInv /\ [Next]_vars => [TQ!TQNext]_(TQ!tqVars)
<1> SUFFICES ASSUME IInv, [Next]_vars PROVE TQ!TQNext \/ UNCHANGED TQ!tqVars
    OBVIOUS
<1>1. CASE \E t \in Tasks, d \in Deadlines : Schedule(t, d) \/ Reschedule(t, d)
  <2>1. PICK t \in Tasks, d \in Deadlines : Schedule(t, d) \/ Reschedule(t, d)
      BY <1>1
  <2>2. d \in 0..maxInt64
      BY OlgaAssumption, BoundNat
  <2> QED
      BY <2>1, <2>2, ArmStep DEF TQ!TQNext
<1>2. CASE \E t \in Tasks : Cancel(t)
  <2>1. PICK t \in Tasks : Cancel(t)
      BY <1>2
  <2> QED
      BY <2>1, CancelStep DEF TQ!TQNext
<1>3. CASE Clear
    BY <1>3, ClearStep DEF TQ!TQNext
<1>4. CASE \E r \in Runners : Call(r)
    BY <1>4, CallStep, LoopIsRunner DEF TQ!TQNext
<1>5. CASE \E r \in AllRunners : SpinStep(r)
    BY <1>5, SpinStepMaps DEF TQ!TQNext
<1>6. CASE RunBegin \/ RunStep \/ Stop
    BY <1>6, RunStepMaps, LoopIsRunner DEF TQ!TQNext
<1>7. CASE Tick
  <2>1. /\ now' \in 0..maxInt64 /\ now' > now
        /\ UNCHANGED <<tree, task, spin>>
      BY <1>7, OlgaAssumption, BoundNat DEF Tick, schedVars, IInv, TypeOK
  <2>2. InTree' = InTree
      BY <2>1 DEF InTree
  <2>3. TQ!Pass
      BY <2>1, <2>2 DEF TQ!Pass
  <2> QED
      BY <2>3 DEF TQ!TQNext
<1>8. CASE UNCHANGED vars
    BY <1>8, QuietStep DEF vars, schedVars
<1> QED
    BY <1>1, <1>2, <1>3, <1>4, <1>5, <1>6, <1>7, <1>8 DEF Next, Client

\* ImplementsTimerQueue: tasks fire in the order of their deadlines and, among
\* equals, in the order of scheduling, once per arming and not early, whatever
\* clients and callbacks schedule, cancel and reschedule meanwhile; and a
\* cancellation takes out its own task and no other.
THEOREM OlgaImplementsTimerQueue == Spec => ImplementsTimerQueue
<1>1. Init => TQ!TQInit
  <2> SUFFICES ASSUME Init PROVE TQ!TQInit
      OBVIOUS
  <2>1. InTree = {}
      BY DEF Init, InTree
  <2>2. now \in 0..maxInt64
      BY BoundNat DEF Init
  <2>3. /\ [t \in InTree |-> task[t].key.deadline] = [t \in {} |-> 0]
        /\ {p \in InTree \X InTree : task[p[1]].key.seqno < task[p[2]].key.seqno} = {}
      BY <2>1
  <2>4. /\ [r \in AllRunners |-> IF spin[r].on /\ ~spin[r].checkNow THEN spin[r].limit ELSE 0]
             = [r \in AllRunners |-> 0]
        /\ [r \in AllRunners |-> spin[r].task] = [r \in AllRunners |-> None]
      BY DEF Init, Idle
  <2> QED
      BY <2>2, <2>3, <2>4 DEF TQ!TQInit
<1>2. Spec => TQ!TQSpec
    BY <1>1, NextMaps, OlgaInvariant, PTL DEF Spec, TQ!TQSpec
<1>3. Spec => [][\A t \in Tasks : Cancel(t) => InTree' = InTree \ {t}]_vars
    BY CancelsItsOwn, OlgaInvariant, PTL DEF Spec
<1> QED
    BY <1>2, <1>3 DEF ImplementsTimerQueue
=============================================================================
