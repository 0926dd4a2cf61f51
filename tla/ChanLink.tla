------------------------------ MODULE ChanLink ------------------------------
(***************************************************************************)
(* Who is in a channel and who is its operator, at both ends of the link:  *)
(* in the IRC server (ircd/src/channel.c), which knows, and in the         *)
(* services (services/chanserv.c), which follow by the messages they get   *)
(* and meanwhile kick, op and deop.  Both directions are queues, so each   *)
(* end acts on what the other one has already changed.                     *)
(***************************************************************************)
EXTENDS Integers, FiniteSets, FiniteSetsExt, Sequences

CONSTANTS
    Users, Chans,
    Opers,          \* the users with isOper()
    Rules,          \* what a channel's registration may say, see Rule
    Slots,          \* NICKCHANHASHSIZE: the channels services keep of a user
    MaxChans,       \* the channels the server lets a user be in
    Events,         \* what users and operators do in a run
    MaxIn, MaxOut, MaxTimers, MaxChanges    \* bounds of the runs

AllEvents == {"part", "join0", "kick", "mode", "quit", "op", "deop", "mdeop", "mkick"}

\* chanserv.h: the levels of access that the code compares with, and -1 for an autokick.
MAOP == 3
AOP == 5
SOP == 10
MFOUNDER == 13
FOUNDER == 15
Levels == -1 .. FOUNDER

\* The part of RegChanList that these handlers read: whether the channel is
\* registered, OPGUARD, PROTOP, CFORCEXFER, CBANISH or CCLOSE, the level it is
\* restricted to, a locked mode that keeps others out, and everybody's access.
Rule == [reg : BOOLEAN, guard : BOOLEAN, protop : BOOLEAN, xfer : BOOLEAN,
         closed : BOOLEAN, restrict : 0 .. FOUNDER, lock : {"none", "i", "k"},
         access : [Users -> Levels]]

ASSUME ChanLinkAssumption ==
    /\ Opers \subseteq Users /\ IsFiniteSet(Users)
    /\ Rules \subseteq Rule
    /\ {Slots, MaxChans} \subseteq Nat \ {0}
    /\ Events \subseteq AllEvents
    /\ {MaxIn, MaxOut, MaxTimers, MaxChanges} \subseteq Nat

VARIABLES
    online,         \* the server's clients
    net,            \* the server's channels: members, operators, whether ChanServ is in
    in,             \* messages from the server to services
    out,            \* messages from services to the server
    users,          \* UserHash
    chan,           \* ChanHash: members and those with CHANOP
    slot,           \* chan[] of each user
    rules,          \* RegChanHash
    ghosted,        \* the flag CCSJOIN
    timers,         \* how many calls of deleteTimedGhostChannel() are pending
    changes,        \* how often the rules changed
    before,         \* not in the code: who was in, or being opped, at the last change
    orderly         \* not in the code: users wait until nothing is under way

vars == <<online, net, in, out, users, chan, slot, rules, ghosted, timers, changes, before, orderly>>
netVars == <<online, net>>
servVars == <<users, chan, slot, ghosted, timers>>

FromNet == [type : {"join", "part", "kick", "op", "deop"}, chan : Chans, user : Users,
            by : Users \cup {"server"}]
           \cup [type : {"nick", "quit", "join0"}, user : Users]
ToNet == [type : {"kick", "op", "deop"}, chan : Chans, user : Users]
         \cup [type : {"csjoin", "cspart"}, chan : Chans]

TypeOK ==
    /\ online \subseteq Users
    /\ net \in [Chans -> [on : SUBSET Users, ops : SUBSET Users, cs : BOOLEAN]]
    /\ in \in Seq(FromNet)
    /\ out \in Seq(ToNet)
    /\ users \subseteq Users
    /\ chan \in [Chans -> [on : SUBSET Users, ops : SUBSET Users]]
    /\ slot \in [Users -> SUBSET Chans]
    /\ rules \in [Chans -> Rules]
    /\ ghosted \in [Chans -> BOOLEAN]
    /\ timers \in [Chans -> Nat]
    /\ changes \in 0 .. MaxChanges
    /\ before \in [Chans -> SUBSET Users]
    /\ orderly \in BOOLEAN
-----------------------------------------------------------------------------
(* The server.                                                             *)

Msg(t, c, u) == [type |-> t, chan |-> c, user |-> u]
Told(t, c, u, x) == [type |-> t, chan |-> c, user |-> u, by |-> x]

\* remove_user_from_channel()
NetGone(n, u) == [n EXCEPT !.on = @ \ {u}, !.ops = @ \ {u}]

\* Nothing is under way.
Quiet == in = <<>> /\ out = <<>>

\* A bound: what may be under way when a user does something.
Room == Len(in) < MaxIn /\ Len(out) <= MaxOut /\ (orderly => Quiet)

\* A bound: how many ghosts of a channel are pending.
RoomForGhost(c) == timers[c] < MaxTimers

\* m_join(): who is first in a channel is its operator.
NetJoin(c, u) ==
    LET first == net[c].on = {} /\ ~net[c].cs IN
    /\ Room /\ RoomForGhost(c)
    /\ u \in online \ net[c].on
    /\ Cardinality({d \in Chans : u \in net[d].on}) < MaxChans
    /\ net' = [net EXCEPT ![c].on = @ \cup {u}, ![c].ops = IF first THEN @ \cup {u} ELSE @]
    /\ in' = in \o <<Told("join", c, u, u)>>
                \o (IF first THEN <<Told("op", c, u, "server")>> ELSE <<>>)
    /\ UNCHANGED <<online, out>>

\* m_part()
NetPart(c, u) ==
    /\ "part" \in Events /\ Room
    /\ u \in net[c].on
    /\ net' = [net EXCEPT ![c] = NetGone(@, u)]
    /\ in' = Append(in, Told("part", c, u, u))
    /\ UNCHANGED <<online, out>>

\* m_join(), "JOIN 0": one message for all the channels.
NetJoin0(u) ==
    /\ "join0" \in Events /\ Room
    /\ u \in online
    /\ net' = [c \in Chans |-> NetGone(net[c], u)]
    /\ in' = Append(in, [type |-> "join0", user |-> u])
    /\ UNCHANGED <<online, out>>

\* m_kick(): after the KICK the server of the user sends a PART as well.
NetKick(c, x, u) ==
    /\ "kick" \in Events /\ Room
    /\ x \in net[c].ops /\ u \in net[c].on
    /\ net' = [net EXCEPT ![c] = NetGone(@, u)]
    /\ in' = in \o <<Told("kick", c, u, x), Told("part", c, u, u)>>
    /\ UNCHANGED <<online, out>>

\* set_mode(): only what changes is passed on.
NetMode(c, x, u) ==
    /\ "mode" \in Events /\ Room
    /\ x \in net[c].ops /\ u \in net[c].on
    /\ IF u \in net[c].ops
       THEN /\ net' = [net EXCEPT ![c].ops = @ \ {u}]
            /\ in' = Append(in, Told("deop", c, u, x))
       ELSE /\ net' = [net EXCEPT ![c].ops = @ \cup {u}]
            /\ in' = Append(in, Told("op", c, u, x))
    /\ UNCHANGED <<online, out>>

\* A client signs on.
NetSignOn(u) ==
    /\ Room
    /\ u \notin online
    /\ online' = online \cup {u}
    /\ in' = Append(in, [type |-> "nick", user |-> u])
    /\ UNCHANGED <<net, out>>

\* A client goes, and with it its memberships.
NetQuit(u) ==
    /\ "quit" \in Events /\ Room
    /\ u \in online
    /\ online' = online \ {u}
    /\ net' = [c \in Chans |-> NetGone(net[c], u)]
    /\ in' = Append(in, [type |-> "quit", user |-> u])
    /\ UNCHANGED out

\* Mutant of NetKicked: the server removes the user and says nothing.
NetKickedSilently(c, u) ==
    /\ IF u \in net[c].on
       THEN /\ net' = [net EXCEPT ![c] = NetGone(@, u)]
       ELSE UNCHANGED net
    /\ UNCHANGED in

\* m_kick() for a KICK of ChanServ: the PART goes to services too.
NetKicked(c, u) ==
    IF u \in net[c].on
    THEN /\ net' = [net EXCEPT ![c] = NetGone(@, u)]
         /\ in' = Append(in, Told("part", c, u, u))
    ELSE UNCHANGED <<net, in>>

\* The server handles the next message of services.  A user who is not there
\* (any more) is left alone; services are not told of their own modes.
NetReceive ==
    /\ out # <<>>
    /\ out' = Tail(out)
    /\ LET m == Head(out)
           c == m.chan
       IN  \/ m.type = "kick" /\ NetKicked(c, m.user)
           \/ /\ m.type = "op"
              /\ net' = [net EXCEPT ![c].ops = @ \cup ({m.user} \cap net[c].on)]
              /\ UNCHANGED in
           \/ /\ m.type = "deop"
              /\ net' = [net EXCEPT ![c].ops = @ \ {m.user}]
              /\ UNCHANGED in
           \/ /\ m.type \in {"csjoin", "cspart"}
              /\ net' = [net EXCEPT ![c].cs = (m.type = "csjoin")]
              /\ UNCHANGED in
    /\ UNCHANGED online
-----------------------------------------------------------------------------
(* Services.                                                               *)

\* getMiscChanOp(), as far as the rules of the channel decide.
Level(c, u) ==
    LET r == rules[c] IN
    IF u \notin users \/ r.xfer \/ (r.closed /\ u \notin Opers) THEN 0 ELSE r.access[u]

\* addChanUser(), and the first free slot of the user.
Enter(c, u, op) ==
    /\ chan' = [chan EXCEPT ![c].on = @ \cup {u}, ![c].ops = IF op THEN @ \cup {u} ELSE @]
    /\ slot' = IF Cardinality(slot[u]) < Slots
               THEN [slot EXCEPT ![u] = @ \cup {c}] ELSE slot

\* Mutant of Leave: the member's slot is not cleared.
LeaveSlot(c, gone) ==
    /\ chan' = [chan EXCEPT ![c].on = @ \ gone, ![c].ops = @ \ gone]
    /\ UNCHANGED slot

\* delChanUser(): with its last member the channel goes too.
Leave(c, gone) ==
    /\ chan' = [chan EXCEPT ![c].on = @ \ gone, ![c].ops = @ \ gone]
    /\ slot' = [u \in Users |-> IF u \in gone THEN slot[u] \ {c} ELSE slot[u]]

\* createGhostChannel() and the timer that ends it.
Ghost(c) ==
    /\ ghosted' = [ghosted EXCEPT ![c] = rules[c].reg]
    /\ timers' = [timers EXCEPT ![c] = @ + 1]

GhostJoin(c) == [type |-> "csjoin", chan |-> c]

\* Mutant of Refused: the restriction is looked at for a new channel only.
RefusedFirst(c, u, first) ==
    LET r == rules[c]  lev == Level(c, u) IN
    /\ r.reg
    /\ \/ lev = -1
       \/ r.closed /\ u \notin Opers
       \/ first /\ lev < r.restrict /\ lev < MFOUNDER
       \/ first /\ lev = 0 /\ (r.lock = "i" \/ (r.lock = "k" /\ ~ghosted[c]))

\* Whether addUserToChan() kicks the user out again.
Refused(c, u, first) ==
    LET r == rules[c]  lev == Level(c, u) IN
    /\ r.reg
    /\ \/ lev = -1
       \/ r.closed /\ u \notin Opers
       \/ lev < r.restrict /\ (~first \/ lev < MFOUNDER)
       \/ first /\ lev = 0 /\ (r.lock = "i" \/ (r.lock = "k" /\ ~ghosted[c]))

\* addUserToChan().  A channel nobody is left in is held by ChanServ for a while.
OnJoin(c, u) ==
    LET first == chan[c].on = {}
        opped == rules[c].reg /\ Level(c, u) >= AOP
    IN
    IF u \notin users THEN UNCHANGED <<servVars, out>>
    ELSE IF ~Refused(c, u, first)
    THEN /\ Enter(c, u, opped)
         /\ out' = IF opped THEN Append(out, Msg("op", c, u)) ELSE out
         /\ UNCHANGED <<ghosted, timers>>
    ELSE /\ Leave(c, {u})
         /\ IF first
            THEN /\ Ghost(c)
                 /\ out' = out \o <<GhostJoin(c), Msg("kick", c, u)>>
            ELSE /\ out' = Append(out, Msg("kick", c, u))
                 /\ UNCHANGED <<ghosted, timers>>

\* remUserFromChan(), for PART and KICK.
OnPart(c, u) ==
    /\ IF u \in users \cap chan[c].on THEN Leave(c, {u}) ELSE UNCHANGED <<chan, slot>>
    /\ UNCHANGED <<ghosted, timers, out>>

\* remFromAllChans(): what the slots know of.
RemFromAllChans(u) ==
    /\ chan' = [c \in Chans |->
                  IF c \in slot[u]
                  THEN [chan[c] EXCEPT !.on = @ \ {u}, !.ops = @ \ {u}] ELSE chan[c]]
    /\ slot' = [slot EXCEPT ![u] = {}]

\* Mutant of MayHave: OPGUARD is forgotten.
MayHaveUnguarded(c, u) ==
    ~rules[c].reg \/ Level(c, u) >= AOP \/ rules[c].xfer \/ Cardinality(chan[c].on) # 1

\* setChanMode(): whether the user may be an operator.
MayHave(c, u) ==
    LET r == rules[c] IN
    \/ ~r.reg \/ Level(c, u) >= AOP \/ r.xfer
    \/ ~r.guard /\ Cardinality(chan[c].on) # 1

\* setChanMode(), +o
OnOp(c, u) ==
    /\ IF u \notin chan[c].on THEN UNCHANGED <<chan, out>>
       ELSE IF MayHave(c, u)
       THEN /\ chan' = [chan EXCEPT ![c].ops = @ \cup {u}]
            /\ UNCHANGED out
       ELSE /\ out' = Append(out, Msg("deop", c, u))
            /\ UNCHANGED chan
    /\ UNCHANGED <<slot, ghosted, timers>>

\* setChanMode(), -o: a protected operator is opped again.
OnDeop(c, u, x) ==
    LET by == IF x \in Users THEN Level(c, x) ELSE 0 IN
    /\ IF u \notin chan[c].on THEN UNCHANGED <<chan, out>>
       ELSE IF rules[c].reg /\ rules[c].protop
               /\ Level(c, u) > by /\ Level(c, u) >= AOP
       THEN /\ out' = Append(out, Msg("op", c, u))
            /\ UNCHANGED chan
       ELSE /\ chan' = [chan EXCEPT ![c].ops = @ \ {u}]
            /\ UNCHANGED out
    /\ UNCHANGED <<slot, ghosted, timers>>

\* parseLine() with the next message of the server.
Receive ==
    /\ in # <<>>
    /\ in' = Tail(in)
    /\ LET m == Head(in) IN
       \/ m.type = "join" /\ OnJoin(m.chan, m.user) /\ UNCHANGED users
       \/ m.type \in {"part", "kick"} /\ OnPart(m.chan, m.user) /\ UNCHANGED users
       \/ m.type = "op" /\ OnOp(m.chan, m.user) /\ UNCHANGED users
       \/ m.type = "deop" /\ OnDeop(m.chan, m.user, m.by) /\ UNCHANGED users
       \/ /\ m.type = "join0"
          /\ RemFromAllChans(m.user)
          /\ UNCHANGED <<users, ghosted, timers, out>>
       \/ /\ m.type = "nick"
          /\ users' = users \cup {m.user}
          /\ UNCHANGED <<chan, slot, ghosted, timers, out>>
       \/ /\ m.type = "quit"
          /\ users' = users \ {m.user}
          /\ RemFromAllChans(m.user)
          /\ UNCHANGED <<ghosted, timers, out>>
    /\ UNCHANGED <<netVars, rules, changes, before, orderly>>

\* deleteTimedGhostChannel()
EndGhost(c) ==
    /\ timers[c] > 0
    /\ timers' = [timers EXCEPT ![c] = @ - 1]
    /\ ghosted' = [ghosted EXCEPT ![c] = FALSE]
    /\ out' = Append(out, [type |-> "cspart", chan |-> c])
    /\ UNCHANGED <<netVars, in, users, chan, slot, rules, changes, before, orderly>>

\* The commands of a user that services know.
Command(name, x) == name \in Events /\ x \in users /\ Len(out) < MaxOut /\ (orderly => Quiet)

\* cs_op()
Op(c, x, u) ==
    LET mine == Level(c, x)  lev == Level(c, u) IN
    /\ Command("op", x)
    /\ rules[c].reg /\ u \in chan[c].on
    /\ lev # 0 /\ mine >= MAOP
    /\ mine > AOP \/ mine >= lev
    /\ x # u => mine >= AOP
    /\ mine >= AOP /\ lev >= AOP
    /\ out' = Append(out, Msg("op", c, u))
    /\ chan' = [chan EXCEPT ![c].ops = @ \cup {u}]
    /\ UNCHANGED <<netVars, in, users, slot, ghosted, timers, rules, changes, before, orderly>>

\* cs_deop()
Deop(c, x, u) ==
    LET mine == Level(c, x) IN
    /\ Command("deop", x)
    /\ rules[c].reg /\ u \in chan[c].on
    /\ mine >= MAOP /\ Level(c, u) <= mine
    /\ mine > MAOP \/ x = u
    /\ out' = Append(out, Msg("deop", c, u))
    /\ chan' = [chan EXCEPT ![c].ops = @ \ {u}]
    /\ UNCHANGED <<netVars, in, users, slot, ghosted, timers, rules, changes, before, orderly>>

\* One message for each of some users.
Each(t, c, us) == FoldSet(LAMBDA u, q : Append(q, Msg(t, c, u)), <<>>, us)

\* cs_mdeop()
Mdeop(c, x) ==
    LET mine == Level(c, x)
        deopped == {u \in chan[c].on : Level(c, u) < mine}
    IN
    /\ Command("mdeop", x)
    /\ rules[c].reg /\ mine >= MAOP /\ deopped # {}
    /\ out' = out \o Each("deop", c, deopped)
    /\ chan' = [chan EXCEPT ![c].ops = @ \ deopped]
    /\ UNCHANGED <<netVars, in, users, slot, ghosted, timers, rules, changes, before, orderly>>

\* cs_mkick()
Mkick(c, x) ==
    /\ Command("mkick", x) /\ RoomForGhost(c)
    /\ rules[c].reg /\ chan[c].on # {}
    /\ Level(c, x) >= SOP \/ x \in Opers
    /\ Ghost(c)
    /\ Leave(c, chan[c].on)
    /\ out' = Append(out, GhostJoin(c)) \o Each("kick", c, chan[c].on)
    /\ UNCHANGED <<netVars, in, users, rules, changes, before, orderly>>

\* The other commands change what the registration says; a new one has no flags.
Change(c) ==
    /\ changes < MaxChanges /\ (orderly => Quiet)
    /\ changes' = changes + 1
    /\ \E r \in Rules \ {rules[c]} : rules' = [rules EXCEPT ![c] = r]
    /\ ghosted' = [ghosted EXCEPT ![c] = @ /\ rules'[c].reg]
    /\ before' = [before EXCEPT ![c] = net[c].on \cup
                    {u \in Users : \E i \in DOMAIN out : out[i] = Msg("op", c, u)}]
    /\ UNCHANGED <<online, net, in, out, users, chan, slot, timers, orderly>>
-----------------------------------------------------------------------------
Init ==
    /\ online = {} /\ users = {}
    /\ net = [c \in Chans |-> [on |-> {}, ops |-> {}, cs |-> FALSE]]
    /\ in = <<>> /\ out = <<>>
    /\ chan = [c \in Chans |-> [on |-> {}, ops |-> {}]]
    /\ slot = [u \in Users |-> {}]
    /\ rules \in [Chans -> Rules]
    /\ ghosted = [c \in Chans |-> FALSE]
    /\ timers = [c \in Chans |-> 0]
    /\ changes = 0
    /\ before = [c \in Chans |-> {}]
    /\ orderly \in BOOLEAN

NetUser ==
    \/ \E u \in Users : NetSignOn(u) \/ NetQuit(u) \/ NetJoin0(u)
    \/ \E c \in Chans, u \in Users :
          \/ NetJoin(c, u) \/ NetPart(c, u)
          \/ \E x \in Users : NetKick(c, x, u) \/ NetMode(c, x, u)

Commands ==
    \E c \in Chans, x \in Users :
        \/ Mdeop(c, x) \/ Mkick(c, x)
        \/ \E u \in Users : Op(c, x, u) \/ Deop(c, x, u)

Next ==
    \/ (NetUser \/ NetReceive) /\ UNCHANGED <<servVars, rules, changes, before, orderly>>
    \/ Receive
    \/ Commands
    \/ \E c \in Chans : EndGhost(c) \/ Change(c)

\* Both ends read what arrives, and a due timer is served.
Fairness ==
    /\ WF_vars(NetReceive /\ UNCHANGED <<servVars, rules, changes, before, orderly>>)
    /\ WF_vars(Receive)
    /\ \A c \in Chans : WF_vars(EndGhost(c))

Spec == Init /\ [][Next]_vars /\ Fairness
-----------------------------------------------------------------------------
\* Once nothing is under way, services know exactly who is in a channel, however
\* kicks, parts, joins and quits crossed: it takes the PART that m_kick() sends
\* after a KICK, and remUserFromChan() ignoring one it does not expect.
MembersAgree == Quiet => \A c \in Chans : chan[c].on = net[c].on

\* They know exactly who is an operator as long as nobody acts while something
\* is under way.  (If modes cross they may not: setChanMode() and the commands
\* set CHANOP as if their own MODE had come last.)
OpsAgree == Quiet /\ orderly => \A c \in Chans : chan[c].ops = net[c].ops

\* remFromAllChans() leaves no freed user behind: the channels in a user's slots
\* are those it is a member of, and every member is online.
PointersLive ==
    \A c \in Chans :
        /\ chan[c].on \subseteq users
        /\ \A u \in Users : c \in slot[u] <=> u \in chan[c].on

\* OPGUARD (chanserv.h:77): once nothing is under way, the operators of a guarded
\* channel have the access for it, whoever opped them and whatever crossed.
Guarded ==
    Quiet => \A c \in Chans :
        rules[c].reg /\ rules[c].guard /\ ~rules[c].xfer =>
            \A u \in net[c].ops \ before[c] : Level(c, u) >= AOP

\* Whom addUserToChan() does not let in is not in the channel once nothing is
\* under way, on whichever of its two paths the join came.
KeptOut ==
    Quiet => \A c \in Chans : \A u \in net[c].on \ before[c] :
        rules[c].reg =>
            /\ Level(c, u) # -1
            /\ ~rules[c].closed \/ u \in Opers
            /\ Level(c, u) >= rules[c].restrict \/ Level(c, u) >= MFOUNDER

\* A channel that ChanServ holds, or that has the flag CCSJOIN, is one that a
\* pending call of deleteTimedGhostChannel() or a PART under way frees.
GhostTimed ==
    \A c \in Chans :
        net[c].cs \/ ghosted[c] =>
            timers[c] > 0 \/ \E i \in DOMAIN out : out[i] = [type |-> "cspart", chan |-> c]

\* ChanServ leaves every channel it holds.
GhostLeaves == \A c \in Chans : net[c].cs ~> ~net[c].cs
=============================================================================
