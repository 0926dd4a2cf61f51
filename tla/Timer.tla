------------------------------- MODULE Timer -------------------------------
(***************************************************************************)
(* services/timer.c and the part of services/main.c that drives it.  The   *)
(* list is kept sorted by due time; timeralarm() runs the expired calls    *)
(* from the head and unlinks the head AFTER the call returned, so that the *)
(* list may change under it.  timeralarm() itself runs only when select()  *)
(* saw nothing to do for a second.                                         *)
(***************************************************************************)
EXTENDS Integers, Sequences

CONSTANTS
    Calls,          \* the functions (with their arguments) put on timers
    Maint,          \* timed_advert_maint, armed by main() and by itself
    Queue,          \* timed_akill_queue, armed by main()
    Period,         \* Period[c]: the delay c re-arms itself with, 0 if it does not
    Cancellable,    \* the calls whose timer id a caller keeps and cancels
    Delays,         \* the delays a handler may ask for
    MaintDelay, QueueDelay,     \* the delays of the timers armed by main()
    TidWidth,       \* an int holds TidWidth values
    MaxTime, MaxLines, MaxCalls, MaxIpc, MaxBack    \* bounds of the runs

ASSUME CallAssumption ==
    /\ {Maint, Queue} \subseteq Calls
    /\ Period \in [Calls -> Nat]
    /\ Cancellable \subseteq {c \in Calls : Period[c] = 0}

ASSUME MaintAssumption == Period[Maint] > 0

ASSUME NumberAssumption ==
    /\ Delays \subseteq Nat
    /\ MaintDelay \in Nat /\ QueueDelay \in Nat /\ MaintDelay < QueueDelay
    /\ TidWidth \in Nat /\ TidWidth > 2
    /\ {MaxTime, MaxLines, MaxCalls, MaxIpc, MaxBack} \subseteq Nat

VARIABLES
    now,            \* time(NULL)
    timers,         \* the list at firstTimerItem, head first
    curtid,         \* the last timer id handed out
    overrun,        \* "Timer ID overrun!" has been announced
    phase,          \* where the process is in main()'s loop
    curtime,        \* timeralarm()'s local: the time the alarm started
    running,        \* the timer whose call timeralarm() is running
    lines,          \* lines of the server connection not handled yet
    ipc,            \* open IPC connections
    budget          \* what is left of the bounds

vars == <<now, timers, curtid, overrun, phase, curtime, running, lines, ipc, budget>>

listVars == <<timers, curtid, overrun>>
alarmVars == <<curtime, running>>
loopVars == <<lines, ipc, budget>>

Item == [run : Nat, tid : 0 .. TidWidth - 1, call : Calls]
Phases == {"select", "handle", "alarm", "call", "pop", "crashed"}

NoItem == [run |-> 0, tid |-> 0, call |-> Maint]

TypeOK ==
    /\ now \in Nat
    /\ timers \in Seq(Item)
    /\ curtid \in 0 .. TidWidth - 1
    /\ overrun \in BOOLEAN
    /\ phase \in Phases
    /\ curtime \in Nat
    /\ running \in Item
    /\ lines \in Nat
    /\ ipc \in Nat
    /\ budget \in [line : Nat, call : Nat, back : Nat]
-----------------------------------------------------------------------------
(***************************************************************************)
(* The list operations.                                                    *)
(***************************************************************************)

InsertFirst(s, x) == <<x>> \o s
InsertBeforeEquals(s, x) ==
    [i \in 1 .. Len(s) + 1 |->
        IF i <= Len(s) /\ s[i].run < x.run THEN s[i]
        ELSE IF i = 1 THEN x
        ELSE IF s[i - 1].run < x.run THEN x
        ELSE s[i - 1]]

\* The list with x linked behind every item that is due no later than x.
Insert(s, x) ==
    [i \in 1 .. Len(s) + 1 |->
        IF i <= Len(s) /\ s[i].run <= x.run THEN s[i]
        ELSE IF i = 1 THEN x
        ELSE IF s[i - 1].run <= x.run THEN x
        ELSE s[i - 1]]

\* The list without its item at position p.
Unlink(s, p) == [i \in 1 .. Len(s) - 1 |-> IF i < p THEN s[i] ELSE s[i + 1]]

\* The id timer() hands out after c: ++curtid, and again when that gives 0.
NextTid(c) == IF (c + 1) % TidWidth = 0 THEN 1 ELSE (c + 1) % TidWidth

\* timer(s, c): s seconds from now; with no delay c runs at once, and a call
\* that re-arms itself is then on the list all the same.
Link(s, c) ==
    /\ curtid' = NextTid(curtid)
    /\ overrun' = (overrun \/ NextTid(curtid) = 1)
    /\ timers' = Insert(timers, [run |-> now + s, tid |-> NextTid(curtid), call |-> c])

Arm(s, c) ==
    IF s > 0 THEN Link(s, c)
    ELSE IF Period[c] > 0 THEN Link(Period[c], c)
    ELSE UNCHANGED listVars

\* cancel_timer(t): the first item with that id is unlinked.
CancelTimer(t) ==
    LET found == {i \in 1 .. Len(timers) : timers[i].tid = t} IN
    /\ IF found = {} THEN UNCHANGED timers
       ELSE \E p \in found :
              /\ \A i \in found : p <= i
              /\ timers' = Unlink(timers, p)
    /\ UNCHANGED <<curtid, overrun>>
-----------------------------------------------------------------------------
Init ==
    /\ now = 0
    /\ timers = << [run |-> MaintDelay, tid |-> 2, call |-> Maint],
                   [run |-> QueueDelay, tid |-> 1, call |-> Queue] >>
    /\ curtid = 2
    /\ overrun = FALSE
    /\ phase = "select"
    /\ curtime = 0
    /\ running = NoItem
    /\ lines = 0
    /\ ipc = 0
    /\ budget = [line |-> MaxLines, call |-> MaxCalls, back |-> MaxBack]

Tick ==
    /\ now < MaxTime
    /\ now' = now + 1
    /\ UNCHANGED <<listVars, phase, alarmVars, loopVars>>

\* The system clock is stepped back.
ClockStep ==
    /\ budget.back > 0 /\ now > 0
    /\ now' = now - 1
    /\ budget' = [budget EXCEPT !.back = @ - 1]
    /\ UNCHANGED <<listVars, phase, alarmVars, lines, ipc>>

LineArrives ==
    /\ budget.line > 0
    /\ lines' = lines + 1
    /\ budget' = [budget EXCEPT !.line = @ - 1]
    /\ UNCHANGED <<now, listVars, phase, alarmVars, ipc>>

IpcConnect ==
    /\ phase = "select" /\ ipc < MaxIpc
    /\ ipc' = ipc + 1
    /\ UNCHANGED <<now, listVars, phase, alarmVars, lines, budget>>

IpcClose ==
    /\ phase = "select" /\ ipc > 0
    /\ ipc' = ipc - 1
    /\ UNCHANGED <<now, listVars, phase, alarmVars, lines, budget>>

\* select() found the server connection readable: a line is handled.
BeginLine ==
    /\ phase = "select" /\ lines > 0
    /\ lines' = lines - 1
    /\ phase' = "handle"
    /\ UNCHANGED <<now, listVars, alarmVars, ipc, budget>>

HandlerArm ==
    /\ phase = "handle" /\ budget.call > 0
    /\ \E s \in Delays, c \in Calls \ {Maint} : Arm(s, c)
    /\ budget' = [budget EXCEPT !.call = @ - 1]
    /\ UNCHANGED <<now, phase, alarmVars, lines, ipc>>

\* Only akill.c cancels, with an id timer() gave it, or 0 for an entry that
\* has no timer.
HandlerCancel ==
    /\ phase = "handle"
    /\ \E t \in {0} \cup {timers[i].tid : i \in {j \in 1 .. Len(timers) :
                                        timers[j].call \in Cancellable}} :
            CancelTimer(t)
    /\ UNCHANGED <<now, phase, alarmVars, loopVars>>

EndLine ==
    /\ phase = "handle"
    /\ phase' = "select"
    /\ UNCHANGED <<now, listVars, alarmVars, loopVars>>

\* An open IPC connection sits in select()'s write set and is ready at once.
SelectTimesOut == lines = 0 /\ ipc = 0

\* select() timed out: timeralarm() reads the clock.
Alarm ==
    /\ phase = "select" /\ SelectTimesOut /\ timers # <<>>
    /\ curtime' = now
    /\ phase' = "alarm"
    /\ UNCHANGED <<now, listVars, running, loopVars>>

\* Mutant of AlarmCall: a timer runs only after its time.
AlarmCallLate ==
    /\ phase = "alarm" /\ timers[1].run < curtime
    /\ running' = timers[1]
    /\ phase' = IF Period[timers[1].call] > 0 THEN "call" ELSE "pop"
    /\ UNCHANGED <<now, listVars, curtime, loopVars>>

AlarmCall ==
    /\ phase = "alarm" /\ timers[1].run <= curtime
    /\ running' = timers[1]
    /\ phase' = IF Period[timers[1].call] > 0 THEN "call" ELSE "pop"
    /\ UNCHANGED <<now, listVars, curtime, loopVars>>

\* The running call re-arms itself.
CallRearm ==
    /\ phase = "call"
    /\ Link(Period[running.call], running.call)
    /\ phase' = "pop"
    /\ UNCHANGED <<now, alarmVars, loopVars>>

\* The head is unlinked and freed, and the new head's prev is cleared
\* whether there is a new head or not.
AlarmPop ==
    /\ phase = "pop"
    /\ timers' = Unlink(timers, 1)
    /\ phase' = IF Len(timers) = 1 THEN "crashed" ELSE "alarm"
    /\ running' = NoItem
    /\ UNCHANGED <<now, curtid, overrun, curtime, loopVars>>

AlarmDone ==
    /\ phase = "alarm" /\ timers[1].run > curtime
    /\ phase' = "select"
    /\ curtime' = 0
    /\ UNCHANGED <<now, listVars, running, loopVars>>

Alarms == Alarm \/ AlarmCall \/ CallRearm \/ AlarmPop \/ AlarmDone
Lines == BeginLine \/ HandlerArm \/ HandlerCancel \/ EndLine
Environment == Tick \/ ClockStep \/ LineArrives \/ IpcConnect \/ IpcClose

Next == Environment \/ Lines \/ Alarms

Spec == Init /\ [][Next]_vars

\* The process keeps running: a line that is there is handled to its end, and
\* the alarm is taken when select() times out.
FairSpec == Spec /\ WF_vars(BeginLine) /\ WF_vars(EndLine) /\ WF_vars(Alarms)
-----------------------------------------------------------------------------
(***************************************************************************)
(* Properties.                                                             *)
(***************************************************************************)

\* The list stays sorted by due time, so that timeralarm() may stop at the
\* first item that is not due.
Sorted ==
    \A i \in 1 .. Len(timers) : \A j \in 1 .. Len(timers) :
        i < j => timers[i].run <= timers[j].run

\* Until the id counter has gone round and said so, no two timers on the list
\* share an id: cancelling one cannot take another with it.
UniqueTids ==
    ~overrun => \A i, j \in 1 .. Len(timers) : timers[i].tid = timers[j].tid => i = j

\* timeralarm() never empties the list, where it would write through a null
\* firstTimerItem: timed_advert_maint is always armed again before it is popped,
\* and as long as the ids are unique nobody cancels it.
NeverEmptied == ~overrun => phase # "crashed" /\ timers # <<>>

\* The clock was not stepped back so far.
Steady == budget.back = MaxBack

\* What timeralarm() unlinks is the timer whose call it ran, whatever the call
\* did to the list, as long as the clock is steady.
PopsWhatItRan == Steady /\ phase = "pop" => timers[1] = running

\* Again and again no timer is due, so none is left on the list for ever, as long
\* as select() may time out: with an open IPC connection it never does.
Due == \E i \in 1 .. Len(timers) : timers[i].run <= now

DueFires == []<>(~Due \/ ipc > 0)

\* The same whatever is connected (comment at main.c:580 "if the timer expired,
\* run the timer code").
NeverLate == []<>~Due

\* What the list stands for: what is being popped has already run.
PendingCalls ==
    {timers[i] : i \in {j \in 1 .. Len(timers) : phase \in {"call", "pop"} => j > 1}}

Abstract == INSTANCE TimerAbs
    WITH pending <- PendingCalls, serving <- running, issued <- curtid, None <- NoItem

\* As long as the clock is steady and the ids have not gone round, timer.c keeps
\* what it promises: calls are served once, not before they are due, and in order.
ImplementsTimerAbs ==
    Abstract!Init /\ [][Steady' /\ ~overrun' => Abstract!Next]_(Abstract!absVars)
=============================================================================
