------------------------------ MODULE NickServ ------------------------------
(***************************************************************************)
(* services/nickserv.c: who is online, which nicks are registered, who     *)
(* counts as their owner, the enforcement of a nick against a thief        *)
(* (killide, CNICK, the enforcer or "ghost" that holds the nick), expiry   *)
(* and the operators' DELETE and BANISH.  The uplink's messages are        *)
(* handled one at a time, as main() does; a CNICK that services sent is    *)
(* answered later, by the NICK message of whoever then has the nick.       *)
(***************************************************************************)
EXTENDS Integers, FiniteSets

CONSTANTS
    Nicks,          \* nicks that may be registered
    Guests,         \* nicks services hand out (cnick_prefixes)
    Hosts,          \* the users' hosts
    NoHost,         \* a host no user has
    NoUser, NoReg, NoId,    \* null pointers
    Akilled,        \* the <<nick, host>> pairs an autokill matches
    CloneKills,     \* whether addClone() may reject a new user
    IdTime,         \* DEF_NDELAY: the time a thief has to leave
    Warn,           \* NICKWARNINT: the time between two warnings
    EnforceTime, AkillTime, RejectTime,     \* how long an enforcer stays
    BanTime,        \* the time a user has to leave a banished nick
    DropTime,       \* NICKDROPTIME
    Cmds,           \* the commands and events that happen in a run
    MaxLate,        \* how late a due timer may be served
    MaxTime, MaxReg, MaxUsers   \* bounds of the runs

Names == Nicks \cup Guests
AllCmds == {"identify", "register", "drop", "mask", "vacation", "logoff", "ghost",
            "recover", "release", "kill", "badident", "delete", "banish", "expire", "case"}

ASSUME NickServAssumption ==
    /\ Nicks \cap Guests = {}
    /\ NoHost \notin Hosts
    /\ Akilled \subseteq Names \X Hosts
    /\ CloneKills \in BOOLEAN
    /\ {IdTime, Warn, EnforceTime, AkillTime, RejectTime, BanTime, DropTime} \subseteq Nat \ {0}
    /\ {MaxLate, MaxTime, MaxReg, MaxUsers} \subseteq Nat
    /\ Cmds \subseteq AllCmds

VARIABLES
    now,            \* time(NULL)
    users,          \* UserHash: the online user with each nick
    regs,           \* RegNickHash: the registration of each nick
    top,            \* top_regnick_idnum
    ghosts,         \* the enforcers at firstGhost
    timers,         \* the pending calls of killide() and delTimedGhost()
    sent,           \* the nicks a CNICK is under way for
    aborted         \* addRegNick() called abort()

vars == <<now, users, regs, top, ghosts, timers, sent, aborted>>

\* caccess; MD5 authentication gives more, which no code tells apart.
Offline == 0
NotRecognized == 1
Recognized == 2
IdentifiedAcc == 3

Id == [nick : Names, ts : Nat, num : Nat]

\* reg is the pointer to the registration, by its number, 0 when null.  Not in
\* the code: the deadline annoyNickThief() announced, and the registrations the
\* session has given the password of.
User == [host : Hosts, reg : Nat, acc : Offline .. IdentifiedAcc, id : Id \cup {NoId},
         cnick : BOOLEAN, deadline : Nat, proved : SUBSET Nat]

Reg == [num : Nat, timereg : Nat, seen : Nat, ban : BOOLEAN, vac : BOOLEAN,
        acl : SUBSET Hosts, host : Hosts \cup {NoHost}]

Timer == [kind : {"killide", "ghost"}, nick : Names, host : Hosts \cup {NoHost},
          left : Nat, due : Nat]

TypeOK ==
    /\ now \in Nat
    /\ users \in [Names -> User \cup {NoUser}]
    /\ regs \in [Names -> Reg \cup {NoReg}]
    /\ top \in Nat
    /\ ghosts \subseteq Names
    /\ timers \subseteq Timer
    /\ sent \subseteq Names
    /\ aborted \in BOOLEAN
-----------------------------------------------------------------------------
Online(n) == users[n] # NoUser
Registered(n) == regs[n] # NoReg

\* Mutant of isGhost: no nick is held.
NoGhost(n) == FALSE

isGhost(n) == n \in ghosts

\* The user's pointer leads to the registration of the nick.
Live(n) == Online(n) /\ (users[n].reg = 0 \/ (Registered(n) /\ regs[n].num = users[n].reg))

\* Mutant of Identified: a remote identification is looked at by its nick alone.
IdentifiedByNick(n, m) ==
    /\ Online(n) /\ Registered(m) /\ ~regs[m].vac
    /\ IF users[n].reg # regs[m].num /\ users[n].id # NoId
       THEN users[n].id.nick = m
       ELSE users[n].reg = regs[m].num /\ users[n].acc > Recognized

\* isIdentified(user n, registration m).  The user's timestamp never passes the
\* one of the remote identification, so it is left out.
Identified(n, m) ==
    /\ Online(n) /\ Registered(m) /\ ~regs[m].vac
    /\ IF users[n].reg # regs[m].num /\ users[n].id # NoId
       THEN LET id == users[n].id IN
            regs[m].timereg < id.ts /\ regs[m].num = id.num /\ id.nick = m
       ELSE users[n].reg = regs[m].num /\ users[n].acc > Recognized

CheckAccess(host, m) == host \in regs[m].acl

\* NickSeeUser(): the owner was seen, and is back from vacation.
SeeUser(r, host) == [r EXCEPT !.seen = now, !.vac = FALSE, !.host = host]

GhostTimer(n, time) ==
    [kind |-> "ghost", nick |-> n, host |-> NoHost, left |-> 0, due |-> now + time]

KillTimer(n, host, left, delay) ==
    [kind |-> "killide", nick |-> n, host |-> host, left |-> left, due |-> now + delay]

\* annoyNickThief(): the timer that starts the warnings; a banished nick has no NKILL.
Annoy(n, host) ==
    IF regs[n].ban THEN {}
    ELSE IF IdTime > Warn THEN {KillTimer(n, host, IdTime, Warn)}
    ELSE {KillTimer(n, host, 0, IdTime)}

\* The time a user of the registered nick n is told to be gone by.
Deadline(n) == now + (IF regs[n].ban THEN BanTime ELSE IdTime)

\* enforce_nickname(): a CNICK is sent.
Enforce(n) ==
    /\ users' = [users EXCEPT ![n].cnick = TRUE]
    /\ sent' = sent \cup {n}

\* remUser(): an identified owner was seen until now.
RemUser(n) ==
    /\ users' = [users EXCEPT ![n] = NoUser]
    /\ regs' = IF Identified(n, n) THEN [regs EXCEPT ![n].seen = now] ELSE regs
-----------------------------------------------------------------------------
Init ==
    /\ now = 1
    /\ users = [n \in Names |-> NoUser]
    /\ regs = [n \in Names |-> NoReg]
    /\ top = 0
    /\ ghosts = {}
    /\ timers = {}
    /\ sent = {}
    /\ aborted = FALSE

Tick ==
    /\ now < MaxTime
    /\ \A t \in timers : now < t.due + MaxLate
    /\ now' = now + 1
    /\ UNCHANGED <<users, regs, top, ghosts, timers, sent, aborted>>

\* addNewUser(), for a nick that is held, akilled or banished: a KILL, and an
\* enforcer for a while.
RejectUser(n, h) ==
    /\ IF isGhost(n) THEN UNCHANGED <<ghosts, timers>>
       ELSE /\ <<n, h>> \in Akilled \/ (Registered(n) /\ regs[n].ban)
            /\ ghosts' = ghosts \cup {n}
            /\ timers' = timers \cup
                 {GhostTimer(n, IF <<n, h>> \in Akilled THEN AkillTime ELSE RejectTime)}
    /\ UNCHANGED <<users, regs, sent>>

\* addNewUser(), for any other user.  The clone check comes last.
AcceptUser(n, h, clone) ==
    LET known == Registered(n) /\ CheckAccess(h, n)
        thief == Registered(n) /\ ~known
    IN
    /\ ~isGhost(n) /\ <<n, h>> \notin Akilled /\ ~(Registered(n) /\ regs[n].ban)
    /\ regs' = IF known THEN [regs EXCEPT ![n] = SeeUser(@, h)] ELSE regs
    /\ timers' = IF thief THEN timers \cup Annoy(n, h) ELSE timers
    /\ users' = IF clone THEN users ELSE
         [users EXCEPT ![n] =
            [host |-> h, id |-> NoId, cnick |-> FALSE, proved |-> {},
             reg |-> IF Registered(n) THEN regs[n].num ELSE 0,
             acc |-> IF known THEN Recognized ELSE IF thief THEN NotRecognized ELSE Offline,
             deadline |-> IF thief THEN Deadline(n) ELSE 0]]
    /\ UNCHANGED <<ghosts, sent>>

NewUser ==
    /\ Cardinality({n \in Names : Online(n)}) < MaxUsers
    /\ \E n \in Names, h \in Hosts :
          /\ ~Online(n)
          /\ \/ RejectUser(n, h)
             \/ \E clone \in {FALSE, CloneKills} : AcceptUser(n, h, clone)
    /\ UNCHANGED <<now, top, aborted>>

\* A NICK message whose user name has a character of a mask in it.
BadIdent ==
    /\ "badident" \in Cmds
    /\ \E n \in Names :
          /\ ~Online(n)
          /\ ghosts' = ghosts \cup {n}
          /\ timers' = timers \cup {GhostTimer(n, RejectTime)}
    /\ UNCHANGED <<now, users, regs, top, sent, aborted>>

\* What changeNick() keeps of a remote identification.
CarryId(id) ==
    IF id # NoId /\ Registered(id.nick) /\ regs[id.nick].timereg < id.ts
    THEN [id EXCEPT !.ts = now] ELSE NoId

\* Has the user given, under another nick, the password of m?
IdMatches(id, m) ==
    id # NoId /\ id.nick = m /\ id.num = regs[m].num /\ id.ts > regs[m].timereg

\* The access a user gets at the registered nick m.  The old record is freed
\* when its nick and access are read for a change of case: what is read may be
\* gone.
NewAccess(n, m, intact) ==
    IF IdMatches(CarryId(users[n].id), m) THEN IdentifiedAcc
    ELSE IF n = m /\ intact THEN users[n].acc
    ELSE IF CheckAccess(users[n].host, m) THEN Recognized
    ELSE Offline

\* A banished nick gets a call of killide() that has no host in it.
BanTimer(m) == IF regs[m].ban THEN {KillTimer(m, NoHost, 0, BanTime)} ELSE {}

\* changeNick(): user n is a new record under the nick m.
ChangeNick(n, m, intact) ==
    LET u == users[n]
        id == CarryId(u.id)
        asked == IF u.cnick THEN {n} ELSE {}
        held == IF u.cnick THEN timers \cup {GhostTimer(n, EnforceTime)} ELSE timers
        seen == IF Identified(n, n) THEN [regs EXCEPT ![n].seen = now] ELSE regs
        gone == [users EXCEPT ![n] = NoUser]
        acc == NewAccess(n, m, intact)
        matched == IdMatches(id, m)
        kept == n = m /\ intact
        thief == ~matched /\ ~kept /\ ~CheckAccess(u.host, m)
        greeted == matched \/ (~kept /\ ~thief)
        new == [host |-> u.host, id |-> IF matched THEN NoId ELSE id, cnick |-> FALSE,
                proved |-> u.proved, reg |-> regs[m].num, acc |-> acc,
                deadline |-> IF thief \/ regs[m].ban THEN Deadline(m)
                             ELSE IF kept /\ ~matched THEN u.deadline ELSE 0]
        plain == [host |-> u.host, id |-> id, cnick |-> FALSE, proved |-> u.proved,
                  reg |-> 0, acc |-> Offline, deadline |-> 0]
    IN
    IF <<m, u.host>> \in Akilled \/ isGhost(m) \/ m \in asked THEN
        /\ users' = gone
        /\ ghosts' = ghosts \cup asked \cup {m}
        /\ timers' = held
        /\ regs' = seen
    ELSE
        /\ ghosts' = ghosts \cup asked
        /\ users' = [gone EXCEPT ![m] = IF Registered(m) THEN new ELSE plain]
        /\ timers' = IF Registered(m)
                     THEN held \cup BanTimer(m) \cup IF thief THEN Annoy(m, u.host) ELSE {}
                     ELSE held
        /\ regs' = IF Registered(m) /\ greeted
                   THEN [seen EXCEPT ![m] = SeeUser(@, u.host)] ELSE seen

\* A user changes nick, or the case of the nick.
Nick ==
    /\ \E n \in Names, m \in Names, intact \in BOOLEAN :
          /\ Live(n) /\ (~Online(m) \/ (n = m /\ "case" \in Cmds))
          /\ n = m \/ intact
          /\ ChangeNick(n, m, intact)
    /\ UNCHANGED <<now, top, sent, aborted>>

\* The uplink handles a CNICK: whoever has the nick gets a guest's.
Cnick ==
    /\ \E n \in sent :
          /\ sent' = sent \ {n}
          /\ IF Online(n) THEN Live(n) /\ \E g \in Guests : ~Online(g) /\ ChangeNick(n, g, TRUE)
             ELSE UNCHANGED <<users, regs, ghosts, timers>>
    /\ UNCHANGED <<now, top, aborted>>

\* A QUIT, a KILL, or addFlood()'s KILL.
Quit ==
    /\ \E n \in Names : Live(n) /\ Online(n) /\ RemUser(n)
    /\ UNCHANGED <<now, top, ghosts, timers, sent, aborted>>

\* An oper kills an enforcer.
KillGhost ==
    /\ "kill" \in Cmds
    /\ \E n \in ghosts : ghosts' = ghosts \ {n}
    /\ UNCHANGED <<now, users, regs, top, timers, sent, aborted>>
-----------------------------------------------------------------------------
(***************************************************************************)
(* The users' commands.                                                    *)
(***************************************************************************)

\* ns_identify(), with the password of m or with another word.
Identify ==
    /\ "identify" \in Cmds
    /\ \E n \in Names, m \in Nicks, valid \in BOOLEAN :
          /\ Live(n) /\ Registered(m) /\ ~regs[m].ban
          /\ LET local == users[n].reg = regs[m].num IN
             IF valid THEN
                /\ users' = [users EXCEPT
                     ![n].acc = IF local THEN IdentifiedAcc ELSE @,
                     ![n].deadline = IF local THEN 0 ELSE @,
                     ![n].id = IF local THEN @
                               ELSE [nick |-> m, ts |-> now, num |-> regs[m].num],
                     ![n].proved = @ \cup {regs[m].num}]
                /\ regs' = [regs EXCEPT ![m] = SeeUser(@, users[n].host)]
             ELSE
                /\ local
                /\ users' = [users EXCEPT ![n].acc = NotRecognized]
                /\ UNCHANGED regs
    /\ UNCHANGED <<now, top, ghosts, timers, sent, aborted>>

\* ns_register(): only the user's own pointer says whether the nick is taken;
\* addRegNick() aborts when it was.
Register ==
    /\ "register" \in Cmds /\ top < MaxReg
    /\ \E n \in Nicks :
          /\ Online(n) /\ users[n].reg = 0
          /\ aborted' = Registered(n)
          /\ IF Registered(n) THEN UNCHANGED <<users, regs>>
             ELSE /\ users' = [users EXCEPT ![n].reg = top + 1, ![n].acc = IdentifiedAcc,
                                            ![n].proved = @ \cup {top + 1}]
                  /\ regs' = [regs EXCEPT ![n] =
                        [num |-> top + 1, timereg |-> now, seen |-> now, ban |-> FALSE,
                         vac |-> FALSE, acl |-> {}, host |-> users[n].host]]
    /\ top' = top + 1
    /\ UNCHANGED <<now, ghosts, timers, sent>>

\* ns_drop(): the access of the user is left as it was.
Drop ==
    /\ "drop" \in Cmds
    /\ \E n \in Nicks :
          /\ Live(n) /\ users[n].reg # 0 /\ ~regs[n].ban /\ Identified(n, n)
          /\ regs' = [regs EXCEPT ![n] = NoReg]
          /\ users' = [users EXCEPT ![n].reg = 0]
    /\ UNCHANGED <<now, top, ghosts, timers, sent, aborted>>

\* ADDMASK and ACCESS DEL.
Masks ==
    /\ "mask" \in Cmds
    /\ \E n \in Nicks, h \in Hosts :
          /\ Live(n) /\ users[n].reg # 0 /\ Identified(n, n)
          /\ \E acl \in {regs[n].acl \cup {h}, regs[n].acl \ {h}} :
                regs' = [regs EXCEPT ![n].acl = acl]
    /\ UNCHANGED <<now, users, top, ghosts, timers, sent, aborted>>

Vacation ==
    /\ "vacation" \in Cmds
    /\ \E n \in Nicks :
          /\ Live(n) /\ users[n].reg # 0 /\ Identified(n, n)
          /\ now - regs[n].timereg >= DropTime
          /\ regs' = [regs EXCEPT ![n].vac = TRUE]
    /\ UNCHANGED <<now, users, top, ghosts, timers, sent, aborted>>

Logoff ==
    /\ "logoff" \in Cmds
    /\ \E n \in Names :
          /\ Live(n)
          /\ users' = [users EXCEPT ![n].id = NoId,
                                    ![n].acc = IF @ > Recognized THEN Recognized ELSE @]
    /\ UNCHANGED <<now, regs, top, ghosts, timers, sent, aborted>>

\* May user n ghost m without a password?  The code matches the last host of m
\* with the access list of the user's own nick.
GhostAccess(n, m) == users[n].reg # 0 /\ CheckAccess(regs[m].host, n)

\* ns_ghost(): an enforcer is dismissed, or the user of the nick killed.
Ghost(n, m, password) ==
    /\ Live(n) /\ Registered(m) /\ n # m
    /\ IF password THEN ~regs[m].ban ELSE GhostAccess(n, m)
    /\ IF isGhost(m) THEN ghosts' = ghosts \ {m} /\ UNCHANGED <<users, regs>>
       ELSE Live(m) /\ RemUser(m) /\ UNCHANGED ghosts
    /\ UNCHANGED <<now, top, timers, sent, aborted>>

GhostCommand ==
    /\ "ghost" \in Cmds
    /\ \E n \in Names, m \in Nicks, password \in BOOLEAN : Ghost(n, m, password)

\* ns_recover(), with the password of m.
Recover ==
    /\ "recover" \in Cmds
    /\ \E n \in Names, m \in Nicks :
          /\ Live(n) /\ Registered(m) /\ ~regs[m].ban /\ n # m
          /\ ~isGhost(m) /\ Online(m)
          /\ Enforce(m)
    /\ UNCHANGED <<now, regs, top, ghosts, timers, aborted>>

\* ns_release(): it returns before the access list is looked at, so only the
\* password helps.
Release ==
    /\ "release" \in Cmds
    /\ \E n \in Names, m \in Nicks :
          /\ Live(n) /\ Registered(m) /\ ~regs[m].ban /\ isGhost(m)
          /\ ghosts' = ghosts \ {m}
    /\ UNCHANGED <<now, users, regs, top, timers, sent, aborted>>
-----------------------------------------------------------------------------
(***************************************************************************)
(* Operators, expiry and timers.                                           *)
(***************************************************************************)

\* ns_delete(): a user of the nick keeps the pointer.
OperDelete ==
    /\ "delete" \in Cmds
    /\ \E m \in Nicks : Registered(m) /\ regs' = [regs EXCEPT ![m] = NoReg]
    /\ UNCHANGED <<now, users, top, ghosts, timers, sent, aborted>>

\* ns_banish(): a registration with no owner, under the number the nick had or
\* a new one.  A user of the nick is left alone.
OperBanish ==
    /\ "banish" \in Cmds
    /\ \E m \in Nicks :
          LET num == IF Registered(m) THEN regs[m].num ELSE top + 1 IN
          /\ Registered(m) \/ top < MaxReg
          /\ top' = IF Registered(m) THEN top ELSE num
          /\ regs' = [regs EXCEPT ![m] =
                [num |-> num, timereg |-> 0, seen |-> 0, ban |-> TRUE, vac |-> FALSE,
                 acl |-> {}, host |-> NoHost]]
    /\ UNCHANGED <<now, users, ghosts, timers, sent, aborted>>

\* Has the registration r run out, when it was last used at seen?
RunOut(r, seen) ==
    ~r.ban /\ now - seen >= (IF r.vac THEN 3 * DropTime ELSE DropTime)

\* expireNicks(): a recognized user counts as the owner having been seen, and
\* an identified one keeps the registration.
Expire ==
    /\ "expire" \in Cmds
    /\ regs' = [n \in Names |->
          IF ~Registered(n) THEN NoReg
          ELSE LET seen == IF Online(n) /\ users[n].acc >= Recognized THEN now
                           ELSE regs[n].seen
               IN IF ~Identified(n, n) /\ RunOut(regs[n], seen) THEN NoReg
                  ELSE [regs[n] EXCEPT !.seen = seen]]
    /\ UNCHANGED <<now, users, top, ghosts, timers, sent, aborted>>

\* delTimedGhost() knows the nick only.
GhostExpires(t) ==
    /\ t.kind = "ghost"
    /\ ghosts' = ghosts \ {t.nick}
    /\ timers' = timers \ {t}
    /\ UNCHANGED <<users, sent>>

\* killide() finds somebody to enforce the nick against: a user who is not
\* identified, from the host of the one it was started for.
Found(t) ==
    Online(t.nick) /\ ~Identified(t.nick, t.nick) /\ users[t.nick].host = t.host

\* Mutant of Left: off by one at the last warning.
LeftOver(left) == IF left > Warn THEN left - Warn ELSE Warn

\* The time left after a warning.
Left(left) == IF left >= Warn THEN left - Warn ELSE Warn

\* killide(): warn and wait, or enforce; a wait of no time ends at once.
KillId(t) ==
    LET left == Left(t.left) IN
    /\ t.kind = "killide"
    /\ UNCHANGED ghosts
    /\ \/ /\ ~Found(t)
          /\ timers' = timers \ {t}
          /\ UNCHANGED <<users, sent>>
       \/ /\ Found(t) /\ (t.left = 0 \/ left = 0)
          /\ Enforce(t.nick)
          /\ timers' = timers \ {t}
       \/ /\ Found(t) /\ t.left # 0 /\ left # 0
          /\ timers' = (timers \ {t}) \cup
               {IF left >= Warn THEN KillTimer(t.nick, t.host, left, Warn)
                ELSE KillTimer(t.nick, t.host, 0, left)}
          /\ UNCHANGED <<users, sent>>

TimerRuns ==
    /\ \E t \in timers : t.due <= now /\ (GhostExpires(t) \/ KillId(t))
    /\ UNCHANGED <<now, regs, top, aborted>>

Signons == NewUser \/ BadIdent \/ Nick \/ Cnick \/ Quit \/ KillGhost
Commands == Identify \/ Register \/ Drop \/ Masks \/ Vacation \/ Logoff
            \/ GhostCommand \/ Recover \/ Release
Upkeep == OperDelete \/ OperBanish \/ Expire \/ TimerRuns

Next == ~aborted /\ (Tick \/ Signons \/ Commands \/ Upkeep)

Spec == Init /\ [][Next]_vars

\* The clock runs, and due timers are served.
FairSpec == Spec /\ WF_vars(~aborted /\ Tick) /\ WF_vars(~aborted /\ TimerRuns)
-----------------------------------------------------------------------------
(***************************************************************************)
(* Properties.                                                             *)
(***************************************************************************)

\* isIdentified() says yes only of a session that gave the password of that very
\* registration: not through a change of nick, nor after the nick was dropped,
\* expired or deleted and registered by somebody else.
IdentifiedMeansProved ==
    \A n \in Names : \A m \in Names :
        Identified(n, m) => regs[m].num \in users[n].proved

\* The pointer of an online user leads to the registration of the user's nick
\* or is null (_userlist.reg in services/struct.h).
PointerLive == \A n \in Names : Online(n) => Live(n)

\* An enforcer never stands where a user is (\pre of addGhost()), and will go: a
\* call of delTimedGhost() is pending for it.
GhostsTimed ==
    \A n \in ghosts : ~Online(n) /\ \E t \in timers : t.kind = "ghost" /\ t.nick = n

\* A user who was told to leave a nick by some time, because it is somebody
\* else's or banished, has left, has identified or is being renamed in the end.
Thief(n) ==
    Online(n) /\ users[n].deadline \in 1 .. MaxTime /\ ~users[n].cnick /\ ~Identified(n, n)

ThiefLeaves == \A n \in Nicks : Thief(n) ~> ~Thief(n)
-----------------------------------------------------------------------------
(***************************************************************************)
(* What the documentation says and the code does not keep: TLC refutes each *)
(* of these, and README.md names the constants and the steps.              *)
(***************************************************************************)

\* killide() renames nobody before the time that user was told.
EnforceNotEarly ==
    [][\A n \in Nicks : (TimerRuns /\ n \in sent' \ sent) => now >= users[n].deadline]_vars

\* killide() leaves a user alone who is recognized by the access list.
AccessSpared ==
    [][\A n \in Nicks : (TimerRuns /\ n \in sent' \ sent)
          => users[n].acc < Recognized]_vars

\* REGISTER never meets a nick that is registered (\pre of addRegNick()).
NoAbort == ~aborted

\* GHOST without a password takes a host on the access list of the nick.
GhostNeedsAccess ==
    [][\A n \in Names, m \in Nicks :
          Ghost(n, m, FALSE) => CheckAccess(users[n].host, m)]_vars
=============================================================================
