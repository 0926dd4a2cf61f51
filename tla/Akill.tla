------------------------------- MODULE Akill -------------------------------
(***************************************************************************)
(* OperServ's ban list (autokills, autohurts, ignores): services/akill.c,  *)
(* the commands of services/operserv.c that edit it, and when              *)
(* services/server.c, signal.c and main.c load and save it.  The pending   *)
(* autoremoveakill() calls are a set, as module TimerAbs allows.           *)
(***************************************************************************)
EXTENDS Integers, Sequences, SequencesExt

CONSTANTS
    Masks,          \* the nick!user@host patterns
    Opers,          \* the nicks that give OperServ commands
    OperServ,       \* the nick services act under
    Flags,          \* Flags[o]: the access flags of o
    Hours,          \* the durations a command may be given, in hours
    HourLen,        \* the seconds of an hour
    MaxHours,       \* the hours an oper without the list's full flag may ask for
    FloodHours,     \* how long a flooding user is ignored
    IntMax,         \* the largest int
    StampGap,       \* what loadakills() adds to top_akill_stamp
    DupMasks,       \* whether a mask that is on the list may be added again
    EarlyStop,      \* whether the uplink may close the connection before the link
    MaxTime, MaxAdds, MaxStarts     \* bounds of the runs

Types == {"akill", "ahurt", "ignore"}
Access == Types \cup {"rakill", "override"}

ASSUME ConstantAssumption ==
    /\ OperServ \notin Opers
    /\ Flags \in [Opers -> SUBSET Access]
    /\ Hours \subseteq Nat /\ {HourLen, MaxHours, FloodHours, IntMax, StampGap} \subseteq Nat
    /\ {MaxTime, MaxAdds, MaxStarts} \subseteq Nat
    /\ {DupMasks, EarlyStop} \subseteq BOOLEAN

VARIABLES
    now,            \* time(NULL)
    mode,           \* the process: "down", "connecting" to the uplink or "linked"
    bans,           \* the list at firstBanItem
    timers,         \* the pending calls of autoremoveakill()
    tids,           \* how many timer ids were handed out
    stamp,          \* top_akill_stamp
    disk,           \* operserv/akill.db
    freedUse,       \* addakill() went on with an entry that was freed
    totals,         \* the top_akill_stamp last written to services.totals
    budget          \* what is left of the bounds

vars == <<now, mode, bans, timers, tids, stamp, disk, freedUse, totals, budget>>

Ban == [mask : Masks, type : Types, unset : Int, setby : Opers \cup {OperServ},
        id : Nat, tid : Nat]
Saved == [mask : Masks, type : Types, unset : Int, setby : Opers \cup {OperServ}, id : Nat]
Timer == [tid : Nat, run : Nat, mask : Masks]

TypeOK ==
    /\ now \in Nat
    /\ mode \in {"down", "connecting", "linked"}
    /\ bans \in Seq(Ban)
    /\ timers \subseteq Timer
    /\ tids \in Nat
    /\ stamp \in Nat
    /\ disk \in Seq(Saved)
    /\ freedUse \in BOOLEAN
    /\ totals \in Nat
    /\ budget \in [add : Nat, start : Nat]
-----------------------------------------------------------------------------
\* Mutant of Wrap: a narrower int.
WrapShort(n) == LET h == (IntMax + 1) \div 2 IN ((n + h) % (2 * h)) - h

\* An int: what does not fit wraps round.
Wrap(n) == ((n + IntMax + 1) % (2 * (IntMax + 1))) - IntMax - 1

\* The duration os_akill() passes on for so many hours asked by o: atoi() * 3600,
\* and no more than MaxHours, nor for ever, without the list's full flag.
Duration(o, type, h) ==
    LET t == Wrap(h * HourLen) IN
    IF type \in Flags[o] THEN t
    ELSE IF t > MaxHours * HourLen \/ t = 0 THEN MaxHours * HourLen
    ELSE t

\* What saveakills() writes of an entry.
ToSaved(b) == [mask |-> b.mask, type |-> b.type, unset |-> b.unset,
               setby |-> b.setby, id |-> b.id]

\* addakill(): the entry goes to the head of the list; an entry for a time gets
\* a timer.  timer() runs autoremoveakill() at once when the time is negative,
\* and that frees the entry addakill() is still working on.
AddAkill(mask, type, by, length) ==
    LET ban == [mask |-> mask, type |-> type, setby |-> by, id |-> stamp + 1,
                unset |-> IF length = 0 THEN 0 ELSE now + length,
                tid |-> IF length > 0 THEN tids + 1 ELSE 0]
    IN
    /\ budget.add > 0
    /\ budget' = [budget EXCEPT !.add = @ - 1]
    /\ DupMasks \/ \A i \in DOMAIN bans : bans[i].mask # mask
    /\ stamp' = stamp + 1
    /\ bans' = IF length < 0 THEN bans ELSE <<ban>> \o bans
    /\ freedUse' = (freedUse \/ length < 0)
    /\ tids' = IF length > 0 THEN tids + 1 ELSE tids
    /\ timers' = IF length > 0
                 THEN timers \cup {[tid |-> tids + 1, run |-> now + length, mask |-> mask]}
                 ELSE timers
    /\ UNCHANGED <<now, mode, disk, totals>>

\* Who may take b off the list.
MayRemove(from, b) == from \in {OperServ, b.setby} \/ "akill" \in Flags[from]

\* The entry at position i is unlinked; its timer is cancelled unless it is the
\* timer, in OperServ's name, that removes it.
Unlink(from, i) ==
    /\ bans' = RemoveAt(bans, i)
    /\ timers' = IF from = OperServ THEN timers
                 ELSE {t \in timers : t.tid # bans[i].tid}

\* removeAkill(): the first entry with that mask, if the caller may remove it.
RemoveAkill(from, mask) ==
    LET i == SelectInSeq(bans, LAMBDA b : b.mask = mask) IN
    IF i # 0 /\ MayRemove(from, bans[i]) THEN Unlink(from, i)
    ELSE UNCHANGED <<bans, timers>>

\* removeAkillType(): the first such entry that the caller may remove.
RemoveAkillType(from, mask, type) ==
    LET i == SelectInSeq(bans, LAMBDA b : b.mask = mask /\ b.type = type
                                          /\ MayRemove(from, b)) IN
    IF i # 0 THEN Unlink(from, i) ELSE UNCHANGED <<bans, timers>>

\* May o edit the list of that type at all?
MayEdit(o, type) ==
    type \in Flags[o] \/ (type = "akill" /\ "rakill" \in Flags[o])
-----------------------------------------------------------------------------
Init ==
    /\ now = 1
    /\ mode = "down"
    /\ bans = <<>>
    /\ timers = {}
    /\ tids = 0
    /\ stamp = 0
    /\ disk = <<>>
    /\ freedUse = FALSE
    /\ totals = 0
    /\ budget = [add |-> MaxAdds, start |-> MaxStarts]

Tick ==
    /\ now < MaxTime
    /\ now' = now + 1
    /\ UNCHANGED <<mode, bans, timers, tids, stamp, disk, freedUse, totals, budget>>

OperAdd ==
    /\ mode = "linked"
    /\ \E o \in Opers, mask \in Masks, type \in Types, h \in Hours :
          /\ MayEdit(o, type)
          /\ AddAkill(mask, type, o, Duration(o, type, h))

\* os_tempakill(): any oper, for an hour.
TempAkill ==
    /\ mode = "linked"
    /\ \E o \in Opers, mask \in Masks : AddAkill(mask, "akill", o, HourLen)

\* addFlood(): services ignore a user who floods them.
FloodIgnore ==
    /\ mode = "linked"
    /\ \E mask \in Masks : AddAkill(mask, "ignore", OperServ, FloodHours * HourLen)

\* Under OVERRIDE the type of the list that was named does not matter.
OperRemove ==
    /\ mode = "linked"
    /\ \E o \in Opers, mask \in Masks, type \in Types :
          /\ MayEdit(o, type)
          /\ \/ RemoveAkillType(o, mask, type)
             \/ "override" \in Flags[o] /\ RemoveAkill(o, mask)
    /\ UNCHANGED <<now, mode, tids, stamp, disk, freedUse, totals, budget>>

\* Mutant of Expire: the entry is left.
ExpireOnly(t) ==
    /\ mode = "linked" /\ t.run <= now
    /\ timers' = timers \ {t}
    /\ UNCHANGED <<now, mode, bans, tids, stamp, disk, freedUse, totals, budget>>

\* A timer of the list expires: autoremoveakill() knows the mask only.
Expire(t) ==
    /\ mode = "linked" /\ t.run <= now
    /\ \A u \in timers : t.run < u.run \/ (t.run = u.run /\ t.tid <= u.tid)
    /\ LET i == SelectInSeq(bans, LAMBDA b : b.mask = t.mask) IN
       bans' = IF i = 0 THEN bans ELSE RemoveAt(bans, i)
    /\ timers' = timers \ {t}
    /\ UNCHANGED <<now, mode, tids, stamp, disk, freedUse, totals, budget>>

\* saveakills(), from os_sync() and from sshutdown().
SaveAkills ==
    disk' = [i \in DOMAIN bans |-> ToSaved(bans[i])]

WriteTotals == totals' = stamp

Sync ==
    /\ mode = "linked"
    /\ SaveAkills
    /\ WriteTotals
    /\ UNCHANGED <<now, mode, bans, timers, tids, stamp, freedUse, budget>>

\* sync_cfg() writes the totals every half hour, and not the list.
SyncTotals ==
    /\ mode = "linked"
    /\ WriteTotals
    /\ UNCHANGED <<now, mode, bans, timers, tids, stamp, disk, freedUse, budget>>

\* A new process: services.totals has five lines and main() reads six, the last
\* into top_akill_stamp, which stays 0.
Start ==
    /\ mode = "down" /\ budget.start > 0
    /\ budget' = [budget EXCEPT !.start = @ - 1]
    /\ mode' = "connecting"
    /\ stamp' = 0
    /\ UNCHANGED <<now, bans, timers, tids, disk, freedUse, totals>>

\* Mutant of StillOn: a permanent entry counts as one whose time is over.
StillOnForATime(s) == now < s.unset

\* Is a saved entry to be enforced again?
StillOn(s) == s.unset = 0 \/ now < s.unset

\* loadakills() reads an entry: its id counts for the top serial number, and it
\* goes to the head of the list unless its time is over.
Load(list, s) ==
    LET seen == [list EXCEPT !.stamp = IF s.id > @ THEN s.id ELSE @]
        ban(tid) == [mask |-> s.mask, type |-> s.type, unset |-> s.unset,
                     setby |-> s.setby, id |-> s.id, tid |-> tid]
    IN
    IF ~StillOn(s) THEN seen
    ELSE IF s.unset = 0 THEN [seen EXCEPT !.bans = <<ban(0)>> \o @]
    ELSE [seen EXCEPT !.bans = <<ban(list.tids + 1)>> \o @,
                      !.timers = @ \cup {[tid |-> list.tids + 1, run |-> s.unset, mask |-> s.mask]},
                      !.tids = @ + 1]

\* loadakills(), when the uplink announces the link.
LoadAkills ==
    LET list == FoldLeft(Load, [bans |-> bans, timers |-> timers, tids |-> tids, stamp |-> stamp], disk)
    IN
    /\ bans' = list.bans
    /\ timers' = list.timers
    /\ tids' = list.tids
    /\ stamp' = IF list.stamp = 0 THEN 0 ELSE list.stamp + StampGap

LinkUp ==
    /\ mode = "connecting"
    /\ LoadAkills
    /\ mode' = "linked"
    /\ UNCHANGED <<now, disk, freedUse, totals, budget>>

Forget == bans' = <<>> /\ timers' = {} /\ tids' = 0 /\ stamp' = 0 /\ mode' = "down"

\* The uplink has no N-line for services: sshutdown(2) saves nothing.
NoNLine ==
    /\ mode = "connecting"
    /\ Forget
    /\ UNCHANGED <<now, disk, freedUse, totals, budget>>

\* The connection ends, or the process is told to stop: sshutdown(0) saves.
Shutdown ==
    /\ mode \in {"linked", IF EarlyStop THEN "connecting" ELSE "linked"}
    /\ SaveAkills
    /\ WriteTotals
    /\ Forget
    /\ UNCHANGED <<now, freedUse, budget>>

\* The process dies and saves nothing.
Crash ==
    /\ mode # "down"
    /\ Forget
    /\ UNCHANGED <<now, disk, freedUse, totals, budget>>

Commands == OperAdd \/ TempAkill \/ FloodIgnore \/ OperRemove
Syncs == Sync \/ SyncTotals
Process == Start \/ LinkUp \/ NoNLine \/ Shutdown \/ Crash
Expires == \E t \in timers : Expire(t)

Next == Tick \/ Commands \/ Syncs \/ Process \/ Expires

Spec == Init /\ [][Next]_vars

\* The clock runs, and timers that are due are served.
FairSpec == Spec /\ WF_vars(Tick) /\ WF_vars(Expires)
-----------------------------------------------------------------------------
(***************************************************************************)
(* Properties.                                                             *)
(***************************************************************************)

\* The bans services are to enforce: the list, or what is to be loaded.
Listed ==
    IF mode = "linked" THEN {ToSaved(bans[i]) : i \in DOMAIN bans}
    ELSE {disk[i] : i \in DOMAIN disk}

Over(s) == s.unset # 0 /\ s.unset <= now

\* A ban goes only by an operator's command or when its own time is over; a
\* stop and a start lose none, and a crash loses only what was not saved.
BansStay ==
    [][\A s \in Listed \ Listed' : Over(s) \/ OperRemove \/ Crash]_vars

\* Every ban for a time has its own timer, due when the ban is over, and there
\* is no other timer: removing a ban took its timer along.
TimersMatch ==
    mode = "linked" =>
        timers = {[tid |-> bans[i].tid, run |-> bans[i].unset, mask |-> bans[i].mask] :
                    i \in {j \in DOMAIN bans : bans[j].unset # 0}}

\* No two bans on the list have the same id: the id an operator reads in a kill
\* message names one ban.
UniqueIds ==
    \A i, j \in DOMAIN bans : bans[i].id = bans[j].id => i = j

\* A ban for a time does not outlive it for ever while services stay linked.
TempEnds ==
    \A m \in Masks :
        (mode = "linked" /\ \E s \in Listed : s.mask = m /\ Over(s))
            ~> (mode # "linked" \/ ~\E s \in Listed : s.mask = m /\ Over(s))

\* addakill() works on an entry that is on the list until it returns.
NoFreedUse == ~freedUse
-----------------------------------------------------------------------------
(***************************************************************************)
(* What the documentation says and the code does not keep: TLC refutes each *)
(* of these, and README.md names the constants and the steps.              *)
(***************************************************************************)

\* The ids go on from the top serial number that was saved: no command hands
\* out an id that may stand for an earlier ban.
FreshIds == [][Commands /\ stamp' # stamp => stamp' > totals]_vars

\* An operator with the full access flag of a list can take any entry off it.
FullAccessRemoves ==
    \A o \in Opers : \A i \in DOMAIN bans :
        bans[i].type \in Flags[o] => MayRemove(o, bans[i])
=============================================================================
