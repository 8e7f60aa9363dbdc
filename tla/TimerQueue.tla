----------------------------- MODULE TimerQueue -----------------------------
(***************************************************************************)
(* What an event scheduler promises its clients, without keys, sequence    *)
(* numbers or a tree: a task is armed with a deadline until it is fired,   *)
(* disarmed or armed anew; the task that fires is the one with the         *)
(* earliest deadline and, among equals, the one armed first; it fires once *)
(* per arming and not before its time.                                     *)
(***************************************************************************)
EXTENDS Naturals

CONSTANTS
    Tasks,          \* the handles of the clients
    Runners,        \* the goroutines that run callbacks
    Times,          \* the instants, numbers
    None

VARIABLES
    now,            \* the clock
    armed,          \* the deadline of every armed task
    before,         \* <<t, u>>: t was armed before u
    horizon,        \* how far ahead of the clock a runner may fire
    calling         \* the task whose callback a runner is executing

tqVars == <<now, armed, before, horizon, calling>>

Armed == DOMAIN armed

Without(S) == [u \in Armed \ S |-> armed[u]]
OrderWithout(S) == {p \in before : p[1] \notin S /\ p[2] \notin S}

\* Due before u: the earlier deadline and, among equals, the earlier arming.
Precedes(t, u) ==
    \/ armed[t] < armed[u]
    \/ armed[t] = armed[u] /\ <<t, u>> \in before
-----------------------------------------------------------------------------
TQInit ==
    /\ now \in Times
    /\ armed = [t \in {} |-> 0]
    /\ before = {}
    /\ horizon = [r \in Runners |-> 0]
    /\ calling = [r \in Runners |-> None]

\* Arm a task, or arm it anew: it goes behind all that are armed.
Arm(t, d) ==
    /\ armed' = [u \in Armed \cup {t} |-> IF u = t THEN d ELSE armed[u]]
    /\ before' = OrderWithout({t}) \cup ((Armed \ {t}) \X {t})
    /\ UNCHANGED <<now, horizon, calling>>

\* Disarm these tasks and no other.
Disarm(S) ==
    /\ armed' = Without(S)
    /\ before' = OrderWithout(S)
    /\ UNCHANGED <<now, horizon, calling>>

\* The task that precedes all others is taken out and its callback begins.
Fire(r, t) ==
    /\ calling[r] = None
    /\ t \in Armed
    /\ \A u \in Armed \ {t} : Precedes(t, u)
    /\ armed[t] <= now \/ armed[t] <= horizon[r]
    /\ armed' = Without({t})
    /\ before' = OrderWithout({t})
    /\ calling' = [calling EXCEPT ![r] = t]
    /\ UNCHANGED <<now, horizon>>

Return(r) ==
    /\ calling[r] # None
    /\ calling' = [calling EXCEPT ![r] = None]
    /\ UNCHANGED <<now, armed, before, horizon>>

\* A runner between two callbacks changes how far ahead it looks.
Look(r, h) ==
    /\ calling[r] = None
    /\ horizon' = [horizon EXCEPT ![r] = h]
    /\ UNCHANGED <<now, armed, before, calling>>

Pass ==
    /\ now' \in Times /\ now' > now
    /\ UNCHANGED <<armed, before, horizon, calling>>

TQNext ==
    \/ \E t \in Tasks, d \in Times : Arm(t, d)
    \/ (\E t \in Tasks : Disarm({t})) \/ Disarm(Armed)
    \/ \E r \in Runners, t \in Tasks : Fire(r, t)
    \/ \E r \in Runners : Return(r) \/ \E h \in Times : Look(r, h)
    \/ Pass

TQSpec == TQInit /\ [][TQNext]_tqVars
=============================================================================
