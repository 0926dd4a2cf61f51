------------------------------ MODULE TimerAbs ------------------------------
(***************************************************************************)
(* What the timer facility of services/timer.c promises its callers: a     *)
(* pending call runs once, not before it is due, in the order of the due   *)
(* times and, among calls due together, in the order they were scheduled;  *)
(* a cancelled call never runs.                                            *)
(***************************************************************************)
EXTENDS Integers

CONSTANTS
    Calls,          \* the functions (with their arguments) put on timers
    None            \* no call is running

VARIABLES
    now,            \* time(NULL)
    pending,        \* the scheduled calls that were neither run nor cancelled
    serving,        \* the call that is running
    issued          \* the last timer id handed out

absVars == <<now, pending, serving, issued>>

Pending == [run : Nat, tid : Nat, call : Calls]

TypeOK ==
    /\ now \in Nat
    /\ issued \in Nat
    /\ pending \subseteq Pending
    /\ serving \in Pending \cup {None}

Init ==
    /\ now = 0
    /\ issued \in Nat
    /\ pending \subseteq Pending
    /\ \A x, y \in pending : x.tid = y.tid => x = y
    /\ \A x \in pending : x.tid <= issued
    /\ serving = None

Tick == now' = now + 1 /\ UNCHANGED <<pending, serving, issued>>

\* The caller asks for x; it gets the next id.
Schedule(x) ==
    /\ x \in Pending
    /\ x.run > now
    /\ x.tid = issued + 1
    /\ issued' = x.tid
    /\ pending' = pending \cup {x}
    /\ UNCHANGED <<now, serving>>

Cancel(x) == pending' = pending \ {x} /\ UNCHANGED <<now, serving, issued>>

\* x is served before y.
Before(x, y) == x.run < y.run \/ (x.run = y.run /\ x.tid <= y.tid)

\* One call at a time, and the first of those that are due.
Fire(x) ==
    /\ serving = None
    /\ x.run <= now
    /\ \A y \in pending : Before(x, y)
    /\ serving' = x
    /\ pending' = pending \ {x}
    /\ UNCHANGED <<now, issued>>

Return ==
    /\ serving # None
    /\ serving' = None
    /\ UNCHANGED <<now, pending, issued>>

Next ==
    \/ Tick
    \/ \E x \in pending' \ pending : Schedule(x)
    \/ \E x \in pending : Cancel(x) \/ Fire(x)
    \/ Return

Spec == Init /\ [][Next]_absVars
=============================================================================
