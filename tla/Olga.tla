-------------------------------- MODULE Olga --------------------------------
(***************************************************************************)
(* The event scheduler of cy/olga/scheduler.go.  Clients schedule, cancel  *)
(* and reschedule tasks from any goroutine, also from a callback; runners  *)
(* (goroutines inside Spin, SpinUntil, RunUntil or RunOnce, and the        *)
(* goroutine of Run) take due tasks out of the tree under the mutex and    *)
(* run their callbacks without it.  An action is one critical section, or  *)
(* one step of a goroutine between two of them.                            *)
(*                                                                         *)
(* A task leaves the tree before its callback runs, but its Active flag    *)
(* and its key stay as they were; Cancel clears both, and the cleared key  *)
(* is a legal key: (0, 0).                                                 *)
(***************************************************************************)
EXTENDS Integers

CONSTANTS
    Tasks,          \* the *Task handles, numbered as Schedule returns them
    Runners,        \* goroutines in Spin, SpinUntil, RunUntil or RunOnce
    Loop,           \* the goroutine in Run
    None,
    Deadlines,      \* the deadlines clients ask for
    MaxTime,        \* bound: the clock
    MaxSeqno        \* bound: insertions

maxInt64 == MaxTime + MaxSeqno + 1      \* later than any instant of the clock

\* Clients ask for instants after the epoch, as the cy library does: the key
\* (0, 0) of a cancelled task is then no other task's.
ASSUME OlgaAssumption ==
    /\ MaxTime \in Nat /\ MaxSeqno \in Nat
    /\ Deadlines \subseteq 1..maxInt64
    /\ Loop \notin Runners
    /\ Tasks \subseteq Nat /\ None \notin Tasks

VARIABLES
    now,            \* nowFunc()
    tree,           \* the nodes: the key and the *Task it holds
    nextSeqno,
    task,           \* Active and key of every Task that exists
    spin,           \* the spin each runner is in, and the callback it runs
    run,            \* where Run is, the deadline it sampled, and its timer
    wakeup,         \* the one-place channel s.wakeup is full
    stop            \* s.stop is closed

schedVars == <<tree, nextSeqno, task, wakeup>>
vars == <<now, tree, nextSeqno, task, spin, run, wakeup, stop>>

AllRunners == Runners \cup {Loop}
Key(d, s) == [deadline |-> d, seqno |-> s]
RunAt(place) == [at |-> place, next |-> 0, timer |-> FALSE]
Idle == [on |-> FALSE, limit |-> 0, checkNow |-> TRUE, task |-> None]
-----------------------------------------------------------------------------
\* Mutant: among equal deadlines the last one scheduled comes first.
KeyLessLIFO(a, b) ==
    \/ a.deadline < b.deadline
    \/ a.deadline = b.deadline /\ a.seqno > b.seqno

\* compareTaskKey(a, b) < 0
KeyLess(a, b) ==
    \/ a.deadline < b.deadline
    \/ a.deadline = b.deadline /\ a.seqno < b.seqno

\* tree.First()
IsFirst(T, n) == n \in T /\ \A m \in T \ {n} : KeyLess(n.key, m.key)

TreeDelete(T, k) == {n \in T : n.key # k}
TreeInsert(T, k, t) == TreeDelete(T, k) \cup {[key |-> k, task |-> t]}

\* Mutant: Run is woken by the first task of an empty tree only.
WakeupIfOnly(T, k) == wakeup' = (wakeup \/ \A n \in T : n.key = k)

\* wakeupIfEarliest(k), after k was inserted: the channel never blocks.
WakeupIfEarliest(T, k) ==
    wakeup' = (wakeup \/ \E n \in T : IsFirst(T, n) /\ n.key = k)

Schedule(t, d) ==
    LET k == Key(d, nextSeqno)
    IN  /\ nextSeqno < MaxSeqno
        /\ t \notin DOMAIN task /\ \A u \in Tasks \ DOMAIN task : t <= u
        /\ nextSeqno' = nextSeqno + 1
        /\ task' = [u \in DOMAIN task \cup {t} |->
                        IF u = t THEN [active |-> TRUE, key |-> k] ELSE task[u]]
        /\ tree' = TreeInsert(tree, k, t)
        /\ WakeupIfEarliest(tree', k)
        /\ UNCHANGED <<now, spin, run, stop>>

\* Cancel looks at nothing but the key.
Cancel(t) ==
    /\ t \in DOMAIN task
    /\ tree' = TreeDelete(tree, task[t].key)
    /\ task' = [task EXCEPT ![t] = [active |-> FALSE, key |-> Key(0, 0)]]
    /\ UNCHANGED <<now, nextSeqno, spin, run, wakeup, stop>>

\* Mutant: the old node stays in the tree.
RescheduleTwice(t, d) ==
    LET k == Key(d, nextSeqno)
    IN  /\ nextSeqno < MaxSeqno
        /\ t \in DOMAIN task /\ task[t].active
        /\ nextSeqno' = nextSeqno + 1
        /\ task' = [task EXCEPT ![t].key = k]
        /\ tree' = TreeInsert(tree, k, t)
        /\ WakeupIfEarliest(tree', k)
        /\ UNCHANGED <<now, spin, run, stop>>

Reschedule(t, d) ==
    LET k == Key(d, nextSeqno)
    IN  /\ nextSeqno < MaxSeqno
        /\ t \in DOMAIN task /\ task[t].active
        /\ nextSeqno' = nextSeqno + 1
        /\ task' = [task EXCEPT ![t].key = k]
        /\ tree' = TreeInsert(TreeDelete(tree, task[t].key), k, t)
        /\ WakeupIfEarliest(tree', k)
        /\ UNCHANGED <<now, spin, run, stop>>

\* Clear cancels the tasks of all nodes.
Clear ==
    /\ tree' = {}
    /\ task' = [t \in DOMAIN task |->
                    IF \E n \in tree : n.task = t
                    THEN [active |-> FALSE, key |-> Key(0, 0)] ELSE task[t]]
    /\ UNCHANGED <<now, nextSeqno, spin, run, wakeup, stop>>
-----------------------------------------------------------------------------
\* RunUntil(deadline) runs up to its bound whatever the clock says, SpinUntil
\* checks both, Spin the clock only.
SpinBegin(r, limit, checkNow) ==
    /\ spin[r] = Idle
    /\ spin' = [spin EXCEPT ![r] =
                    [on |-> TRUE, limit |-> limit, checkNow |-> checkNow, task |-> None]]
    /\ UNCHANGED <<now, schedVars, run, stop>>

RunUntil(r, deadline) == SpinBegin(r, deadline, FALSE)
SpinUntil(r, deadline) == SpinBegin(r, deadline, TRUE)
Spin(r) == SpinBegin(r, maxInt64, TRUE)

\* Mutant: a task is due after its deadline only.
DueAfter(s, n) ==
    /\ s.checkNow => n.key.deadline < now
    /\ n.key.deadline <= s.limit

\* The first task may be run by this spin.
Due(s, n) ==
    /\ s.checkNow => n.key.deadline <= now
    /\ n.key.deadline <= s.limit

\* One round of spin: the first task leaves the tree and its callback begins.
SpinDequeue(r) ==
    /\ spin[r].on /\ spin[r].task = None
    /\ \E n \in tree :
        /\ IsFirst(tree, n) /\ Due(spin[r], n)
        /\ tree' = TreeDelete(tree, task[n.task].key)
        /\ spin' = [spin EXCEPT ![r].task = n.task]
    /\ UNCHANGED <<now, nextSeqno, task, run, wakeup, stop>>

\* The callback returns.  RunOnce ends here, spin goes round again.
CallbackReturn(r) ==
    /\ spin[r].on /\ spin[r].task # None
    /\ spin' = [spin EXCEPT ![r].task = None]
    /\ UNCHANGED <<now, schedVars, run, stop>>

\* Nothing, or nothing more, is due.
SpinReturn(r) ==
    /\ spin[r].on /\ spin[r].task = None
    /\ \A n \in tree : IsFirst(tree, n) => ~Due(spin[r], n)
    /\ spin' = [spin EXCEPT ![r] = Idle]
    /\ UNCHANGED <<now, schedVars, run, stop>>

\* RunOnce: at most one task that is due by the clock.
RunOnce(r) ==
    /\ spin[r] = Idle
    /\ \E n \in tree :
        /\ IsFirst(tree, n) /\ n.key.deadline <= now
        /\ tree' = TreeDelete(tree, task[n.task].key)
        /\ spin' = [spin EXCEPT ![r].task = n.task]
    /\ UNCHANGED <<now, nextSeqno, task, run, wakeup, stop>>

RunOnceReturn(r) ==
    /\ ~spin[r].on /\ spin[r].task # None
    /\ spin' = [spin EXCEPT ![r] = Idle]
    /\ UNCHANGED <<now, schedVars, run, stop>>
-----------------------------------------------------------------------------
\* Run, called once: a second call would close s.stopped again.
RunBegin ==
    /\ run.at = "off"
    /\ run' = RunAt("top")
    /\ UNCHANGED <<now, schedVars, spin, stop>>

\* The head of the loop samples the clock and the earliest deadline.
RunSample ==
    /\ run.at = "top"
    /\ \E d \in {n.key.deadline : n \in {m \in tree : IsFirst(tree, m)}}
                \cup (IF tree = {} THEN {maxInt64} ELSE {}) :
            run' = [at |-> "select", next |-> d, timer |-> d > now]
    /\ UNCHANGED <<now, schedVars, spin, stop>>

\* processTasks
LoopSpin ==
    /\ run' = RunAt("spin")
    /\ spin' = [spin EXCEPT ![Loop] =
                    [on |-> TRUE, limit |-> maxInt64, checkNow |-> TRUE, task |-> None]]

\* A case of the select is ready: the wakeup, ...
RunWakeup ==
    /\ run.at = "select" /\ wakeup
    /\ wakeup' = FALSE
    /\ LoopSpin
    /\ UNCHANGED <<now, tree, nextSeqno, task, stop>>

\* ... the timer, which never fires for a deadline that was already due, ...
RunTimer ==
    /\ run.at = "select"
    /\ run.timer /\ now >= run.next
    /\ LoopSpin
    /\ UNCHANGED <<now, schedVars, stop>>

\* ... or the stop.
RunStopped ==
    /\ run.at = "select" /\ stop
    /\ run' = RunAt("done")
    /\ UNCHANGED <<now, schedVars, spin, stop>>

RunAgain ==
    /\ run.at = "spin" /\ spin[Loop] = Idle
    /\ run' = RunAt("top")
    /\ UNCHANGED <<now, schedVars, spin, stop>>

Stop ==
    /\ run.at \notin {"off", "done"}
    /\ stop' = TRUE
    /\ UNCHANGED <<now, schedVars, spin, run>>

Tick ==
    /\ now < MaxTime
    /\ now' = now + 1
    /\ UNCHANGED <<schedVars, spin, run, stop>>
-----------------------------------------------------------------------------
Init ==
    /\ now = 0
    /\ tree = {}
    /\ nextSeqno = 0
    /\ task = [t \in {} |-> [active |-> FALSE, key |-> Key(0, 0)]]
    /\ spin = [r \in AllRunners |-> Idle]
    /\ run = RunAt("off")
    /\ wakeup = FALSE /\ stop = FALSE

Client ==
    \/ \E t \in Tasks, d \in Deadlines : Schedule(t, d) \/ Reschedule(t, d)
    \/ \E t \in Tasks : Cancel(t)
    \/ Clear

Call(r) ==
    \/ \E d \in Deadlines : RunUntil(r, d) \/ SpinUntil(r, d)
    \/ Spin(r)
    \/ RunOnce(r)

SpinStep(r) == SpinDequeue(r) \/ CallbackReturn(r) \/ SpinReturn(r) \/ RunOnceReturn(r)

RunStep == RunSample \/ RunWakeup \/ RunTimer \/ RunStopped \/ RunAgain

Next ==
    \/ Client
    \/ \E r \in Runners : Call(r)
    \/ \E r \in AllRunners : SpinStep(r)
    \/ RunBegin \/ RunStep \/ Stop
    \/ Tick

Spec == Init /\ [][Next]_vars

\* cy's SpinUntil ends in olga.Spin, and the application calls it again and
\* again, whatever else it calls; callbacks return; time passes.
FairSpec ==
    /\ Spec
    /\ \A r \in Runners : SF_vars(Spin(r)) /\ WF_vars(SpinStep(r))
    /\ WF_vars(SpinStep(Loop))
    /\ WF_vars(Tick)
-----------------------------------------------------------------------------
Keys == [deadline : Nat, seqno : Nat]

TypeOK ==
    /\ now \in Nat /\ nextSeqno \in Nat
    /\ tree \subseteq [key : Keys, task : Tasks]
    /\ \A n \in tree : n.key.seqno < nextSeqno
    /\ DOMAIN task \subseteq Tasks
    /\ task \in [DOMAIN task -> [active : BOOLEAN, key : Keys]]
    /\ spin \in [AllRunners -> [on : BOOLEAN, limit : Nat, checkNow : BOOLEAN,
                               task : Tasks \cup {None}]]
    /\ run \in [at : {"off", "top", "select", "spin", "done"}, next : Nat, timer : BOOLEAN]
    /\ wakeup \in BOOLEAN /\ stop \in BOOLEAN

\* The handle of a pending task leads back to its node: without it the
\* deletion by task.key in spin removes nothing and the loop never ends, or
\* removes another client's task.
HandlesExact ==
    /\ \A n \in tree : n.task \in DOMAIN task
    /\ \A n \in tree : task[n.task] = [active |-> TRUE, key |-> n.key]

\* No wakeup is lost: while Run waits and no wakeup is pending, no task is
\* due before the deadline that Run sampled, however clients on other
\* goroutines schedule and reschedule between the sample and the select.
NoOversleep ==
    run.at = "select" /\ ~wakeup => \A n \in tree : run.next <= n.key.deadline

InTree == {n.task : n \in tree}

\* Every armed task is fired, cancelled or armed anew: none is forgotten.
NoneForgotten == \A t \in Tasks : (t \in InTree) ~> (t \notin InTree)

\* What the scheduler implements, keys and tree left out.
TQ == INSTANCE TimerQueue WITH
        Runners <- AllRunners,
        Times <- 0..maxInt64,
        armed <- [t \in InTree |-> task[t].key.deadline],
        before <- {p \in InTree \X InTree : task[p[1]].key.seqno < task[p[2]].key.seqno},
        horizon <- [r \in AllRunners |->
                        IF spin[r].on /\ ~spin[r].checkNow THEN spin[r].limit ELSE 0],
        calling <- [r \in AllRunners |-> spin[r].task]

\* Tasks fire in the order of their deadlines and, among equals, in the order
\* of scheduling, once per arming and not early; and a cancellation, though it
\* deletes by a key that may be stale, takes out its own task and no other
\* ("Calling it on an already-completed or canceled task is a safe no-op").
ImplementsTimerQueue ==
    /\ TQ!TQSpec
    /\ [][\A t \in Tasks : Cancel(t) => InTree' = InTree \ {t}]_vars
=============================================================================
