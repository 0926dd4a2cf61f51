----------------------------- MODULE ChanAccess -----------------------------
(* Registrations of channels: who is founder, who is on the access list, and *)
(* which commands change what (chanserv.c, chantrig.c).  ChanLink has the    *)
(* members and modes of the channels; here a channel that is in use is its   *)
(* pointer to the registration, and the users are their sessions.            *)
EXTENDS Integers, FiniteSets, FiniteSetsExt, Functions, SequencesExt

CONSTANTS
    Users,          \* users of the network
    Opers,          \* those with user mode +o
    Nicks,          \* nicknames
    Chans,          \* channel names
    MayUse,         \* the nicks a user goes by
    Registry,       \* the regnums the nicks have at the start
    OpFlags,        \* opflags of a nick
    Masks,          \* the registered nicks whose access list has the user's address
    ModeR,          \* users the server vouches for with +r
    Reserved,       \* is_sn_chan()
    Levels,         \* levels named in commands, -1 where none is
    Locks,          \* arguments of SET MLOCK
    Focuses,        \* BOUND: the groups of commands one behaviour may use
    ChanLimit,      \* channels one nick may register
    OpLimit,        \* default of TRIGGER MaxOps
    MaxSession,     \* BOUND: signons
    MaxId,          \* BOUND: registrations of nicks
    MaxReg,         \* BOUND: registrations of channels
    MaxPass,        \* BOUND: passwords of channels
    MaxKey,         \* BOUND: password change keys
    Aliases,        \* commands for operators: the level of AOP, SOP, ..., 0 for CHANOP
    AkickLimit,     \* default of TRIGGER MaxAkicks
    NoAddOp         \* nicks set not to be added to access lists

Groups == {"founder", "nicks", "keys", "ops", "locks", "rules", "opers", "use"}
Flags == {"root", "servop", "dmod", "cbandel", "grp", "oacc"}

ASSUME ConstantsAssumption ==
    /\ IsFiniteSet(Users) /\ IsFiniteSet(Chans) /\ IsFiniteSet(Nicks) /\ Nicks # {}
    /\ Opers \subseteq Users /\ ModeR \subseteq Users /\ Reserved \subseteq Chans
    /\ MayUse \in [Users -> SUBSET Nicks] /\ Masks \in [Users -> SUBSET Nicks]
    /\ OpFlags \in [Nicks -> SUBSET Flags] /\ Registry \in [Nicks -> 1 .. Cardinality(Nicks)]
    /\ IsInjective(Registry)
    /\ Levels \subseteq -1 .. 15 /\ Focuses \subseteq SUBSET Groups
    /\ {ChanLimit, OpLimit, MaxSession, MaxId, MaxReg, MaxPass, MaxKey, AkickLimit} \subseteq Nat
    /\ Cardinality(Users) <= MaxSession /\ Cardinality(Nicks) <= MaxId
    /\ MaxReg > 0 /\ MaxPass > 0
    /\ Aliases \subseteq 0 .. 15 /\ NoAddOp \subseteq Nicks
    /\ Locks \subseteq Seq({"=", "+", "-", "n", "t", "k", "H"})

VARIABLES
    users,          \* the session of each user
    ident,          \* regnum of the nick, 0 when it is not registered
    chans,          \* the channels the nick with a regnum counts
    reg,            \* RegChanHash
    ptr,            \* ChanList.reg: -1 when nobody is in the channel, 0 when null
    trig,           \* ChanTrigHash: limits of a channel, 0 for the default
    keys,           \* password change keys that left the program
    top,            \* top_user_idnum, top_regnick_idnum, registrations, passwords, keys
    moved,          \* DMOD FOUNDER was used, or a registered channel was registered
    focus           \* BOUND: the groups of commands in use

vars == <<users, ident, chans, reg, ptr, trig, keys, top, moved, focus>>

MAOP == 3
AOP == 5
MSOP == 8
SOP == 10
MFOUNDER == 13
FOUNDER == 15

Off == [nick |-> "", num |-> 0, acc |-> 0, remote |-> 0]
NoIdent == [nick |-> "", num |-> 0, fresh |-> FALSE, pass |-> 0]
NoReg == [rid |-> 0]

\* RegChanList.  chpw_key is key; timestamp is old when CHANDROPTIME has passed;
\* timereg is rid.  Not in the code: the password an identification was made
\* with (id.pass), and whether SETREALPASS came after it (real).
Reg == [rid : 1 .. MaxReg, founder : 0 .. MaxId, ops : [0 .. MaxId -> 0 .. 15],
        akicks : SUBSET Users, pass : 0 .. MaxPass, key : 0 .. MaxKey,
        flags : SUBSET {"ident", "hold", "banish", "close", "mark", "xfer", "encrypt"},
        facc : BOOLEAN, restrict : 0 .. 15, tlock : 0 .. 15, memo : 0 .. 15,
        plus : SUBSET {"n", "t", "k", "H"}, minus : SUBSET {"n", "t", "k", "H"},
        old : BOOLEAN, topic : Users \cup {"none"}, real : BOOLEAN,
        id : [nick : Nicks \cup {""}, num : 0 .. MaxSession, fresh : BOOLEAN, pass : 0 .. MaxPass]]

TypeOK ==
    /\ users \in [Users -> [nick : Nicks \cup {""}, num : 0 .. MaxSession, acc : 0 .. 3, remote : 0 .. MaxId]]
    /\ ident \in [Nicks -> 0 .. MaxId]
    /\ chans \in [0 .. MaxId -> Int]
    /\ reg \in [Chans -> Reg \cup {NoReg}]
    /\ ptr \in [Chans -> -1 .. MaxReg]
    /\ trig \in [Chans -> [ops : 0 .. OpLimit + 1, aks : 0 .. AkickLimit + 1]]
-----------------------------------------------------------------------------
Online(u) == users[u].num # 0
Registered(c) == reg[c] # NoReg
Has(c, fl) == fl \in reg[c].flags
Own(u) == ident[users[u].nick]
IsReg(u) == Online(u) /\ Own(u) # 0
Identified(u) == IsReg(u) /\ users[u].acc = 3
IsOper(u) == u \in Opers

\* A remote identification to a nick, which ends when the nick is dropped.
Remote(u) == IF \E n \in Nicks : ident[n] = users[u].remote THEN users[u].remote ELSE 0

Recognized(u) == IsReg(u) /\ (users[u].nick \in Masks[u] \/ users[u].acc > 1)

\* OPFLAG_ROOT: a root has every flag but the ones given by name.
FlagsOf(n) == IF "root" \in OpFlags[n] THEN (Flags \ {"oacc"}) \cup OpFlags[n] ELSE OpFlags[n]

\* opFlagged(): all of them.  ov: the command came through OperServ OVERRIDE.
opFlagged(u, ov, need) ==
    /\ "oacc" \in need => ov
    /\ "oper" \in need => IsOper(u)
    /\ IsReg(u)
    /\ need \ {"oper"} # {} => Identified(u) /\ need \ {"oper"} \subseteq FlagsOf(users[u].nick)

isRoot(u) == IsOper(u) /\ opFlagged(u, FALSE, {"root"})
isServop(u) == IsOper(u) /\ opFlagged(u, FALSE, {"servop"})
DirectMod(u, ov) == opFlagged(u, ov, {"oper", "dmod", "oacc"})

\* The identification by password of isFounder(): nick, session and no nick
\* change since (user's timestamp < id.timestamp).
IdHolds(r, u) ==
    /\ r.id # NoIdent /\ r.id.fresh
    /\ users[u].nick = r.id.nick /\ users[u].num = r.id.num

Shut(r, u, ov) == "xfer" \in r.flags /\ ~opFlagged(u, ov, {"oacc"})

\* isFounder(), and Looked: the stale identification it clears on the way.
isFounder(r, u, ov) ==
    /\ ~Shut(r, u, ov)
    /\ IdHolds(r, u) \/ (IsReg(u) /\ r.founder = Own(u) /\ Recognized(u) /\ r.facc)

Looked(r, u, ov) ==
    IF /\ r.id # NoIdent /\ ~Shut(r, u, ov) /\ ~IdHolds(r, u)
       /\ users[u].nick = r.id.nick \/ \A v \in Users : users[v].nick # r.id.nick
    THEN [r EXCEPT !.id = NoIdent] ELSE r

Top(S) == Max(S \cup {0})
Lesser(i, j) == IF i < j THEN i ELSE j

\* The entries getMiscChanOp() looks at when access needs an identification.
ById(r, u) ==
    (IF Identified(u) THEN {r.ops[Own(u)]}
     ELSE IF IsReg(u) /\ u \in ModeR THEN {Lesser(AOP, r.ops[Own(u)])} ELSE {})
    \cup (IF Remote(u) # 0 THEN {r.ops[Remote(u)]} ELSE {})

\* ... and when the address will do.
ByMask(r, u) ==
    (IF Remote(u) # 0 THEN {r.ops[Remote(u)]} ELSE {})
    \cup (IF Recognized(u) /\ r.ops[Own(u)] > 0 THEN {r.ops[Own(u)]}
          ELSE IF IsReg(u) /\ u \in ModeR /\ r.ops[Own(u)] > 0 THEN {Lesser(AOP, r.ops[Own(u)])}
          ELSE {r.ops[ident[n]] : n \in {m \in Masks[u] : ident[m] # 0}})

\* getMiscChanOp(); -1 for an autokick.
Access(r, u, ov, byId) ==
    IF ~Online(u) \/ (r.flags \cap {"banish", "close"} # {} /\ ~IsOper(u)) THEN 0
    ELSE IF isFounder(r, u, ov) THEN FOUNDER
    ELSE IF Shut(r, u, ov) THEN 0
    ELSE LET highest == Top(IF byId THEN ById(r, u) ELSE ByMask(r, u)) IN
         IF highest = 0 /\ u \in r.akicks THEN -1 ELSE highest

getChanOp(r, u, ov) == Access(r, u, ov, "ident" \in r.flags)
getChanOpId(r, u, ov) == Access(r, u, ov, TRUE)
-----------------------------------------------------------------------------
(* The network and NickServ around ChanServ.                                 *)

\* A password identification dies with a nick change: the user's timestamp passes it.
Aged(num) ==
    [c \in Chans |-> IF Registered(c) /\ reg[c].id.num = num
                     THEN [reg[c] EXCEPT !.id.fresh = FALSE] ELSE reg[c]]

NickTaken(n) == \E u \in Users : users[u].nick = n

SeenAs(u, n) == IF ident[n] = 0 THEN 0 ELSE IF n \in Masks[u] \/ u \in ModeR THEN 2 ELSE 1

SignOn(u, n) ==
    /\ ~Online(u) /\ n \in MayUse[u] /\ ~NickTaken(n)
    /\ top.session < (IF "founder" \in focus THEN MaxSession ELSE Cardinality(Users))
    /\ top' = [top EXCEPT !.session = @ + 1]
    /\ users' = [users EXCEPT ![u] = [nick |-> n, num |-> top.session + 1, acc |-> SeenAs(u, n), remote |-> 0]]
    /\ UNCHANGED <<ident, chans, reg, ptr, trig, keys, moved, focus>>

SignOff(u) ==
    /\ Online(u) /\ {"founder", "nicks", "keys", "locks", "opers"} \cap focus # {}
    /\ users' = [users EXCEPT ![u] = Off]
    /\ UNCHANGED <<ident, chans, reg, ptr, trig, keys, top, moved, focus>>

NickChange(u, n) ==
    /\ Online(u) /\ n \in MayUse[u] /\ ~NickTaken(n) /\ "founder" \in focus
    /\ users' = [users EXCEPT ![u].nick = n, ![u].acc = SeenAs(u, n)]
    /\ reg' = Aged(users[u].num)
    /\ UNCHANGED <<ident, chans, ptr, trig, keys, top, moved, focus>>

\* NickServ IDENTIFY, for the nick in use or for another.
NickIdentify(u, n) ==
    /\ Online(u) /\ ident[n] # 0 /\ n \in MayUse[u]
    /\ n = users[u].nick \/ "ops" \in focus
    /\ users' = IF n = users[u].nick THEN [users EXCEPT ![u].acc = 3]
                ELSE [users EXCEPT ![u].remote = ident[n]]
    /\ UNCHANGED <<ident, chans, reg, ptr, trig, keys, top, moved, focus>>

NickRegister(u) ==
    /\ Online(u) /\ Own(u) = 0 /\ top.id < MaxId
    /\ top' = [top EXCEPT !.id = @ + 1]
    /\ ident' = [ident EXCEPT ![users[u].nick] = top.id + 1]
    /\ chans' = [chans EXCEPT ![top.id + 1] = 0]
    /\ users' = [users EXCEPT ![u].acc = 3]
    /\ UNCHANGED <<reg, ptr, trig, keys, moved, focus>>

\* DROP, DELETE or expiry of a nick: entries and founders that name it stay behind.
NickDrop(n) ==
    /\ ident[n] # 0 /\ top.id < MaxId /\ "nicks" \in focus
    /\ ident' = [ident EXCEPT ![n] = 0]
    /\ UNCHANGED <<users, chans, reg, ptr, trig, keys, top, moved, focus>>

\* addUserToChan() makes the channel when the first user comes, delChan() frees
\* it when the last one has gone.
Appear(c) ==
    /\ ptr[c] = -1 /\ "use" \in focus
    /\ ptr' = [ptr EXCEPT ![c] = reg[c].rid]
    /\ UNCHANGED <<users, ident, chans, reg, trig, keys, top, moved, focus>>

Vanish(c) ==
    /\ ptr[c] # -1 /\ "use" \in focus
    /\ ptr' = [ptr EXCEPT ![c] = -1]
    /\ UNCHANGED <<users, ident, chans, reg, trig, keys, top, moved, focus>>

\* CHANDROPTIME passes without a use.
Age(c) ==
    /\ Registered(c) /\ ~reg[c].old /\ {"opers", "use"} \cap focus # {}
    /\ reg' = [reg EXCEPT ![c].old = TRUE]
    /\ UNCHANGED <<users, ident, chans, ptr, trig, keys, top, moved, focus>>
-----------------------------------------------------------------------------
(* The commands.  Each is judged on the registration as isFounder() leaves   *)
(* it, and clears a stale identification even where it then refuses.         *)

\* OperServ OVERRIDE runs the command of an operator; +a counts once he has identified.
Overrides(u, ov) == ov => IsOper(u) /\ Identified(u) /\ "oacc" \in FlagsOf(users[u].nick)

Ask(g, u, ov, c) ==
    /\ g \cap focus # {} /\ IsReg(u) /\ Registered(c)
    /\ Overrides(u, ov)

Put(c, r) == reg' = [reg EXCEPT ![c] = r]
Only == UNCHANGED <<users, ident, chans, ptr, trig, keys, top, moved, focus>>

\* A command that changes no more than the registration.
Edit(c, r) == Put(c, r) /\ Only

\* Any command or event that asks for someone's access and changes nothing else:
\* INFO, ACCESS, INVITE, a join, a refused command.
Look(u, c) ==
    /\ Online(u) /\ Registered(c) /\ Looked(reg[c], u, FALSE) # reg[c]
    /\ Edit(c, Looked(reg[c], u, FALSE))

\* BadPwChan(): the flood count may have the user killed.
BadPw(u, c) ==
    /\ "founder" \in focus /\ IsReg(u) /\ Registered(c)
    /\ users' = [users EXCEPT ![u] = Off]
    /\ reg' = [reg EXCEPT ![c] = Looked(@, u, FALSE)]
    /\ UNCHANGED <<ident, chans, ptr, trig, keys, top, moved, focus>>

NewReg(rid, founder, pass, flags, plus, minus) ==
    [rid |-> rid, founder |-> founder, ops |-> [i \in 0 .. MaxId |-> IF i = founder /\ i # 0 THEN FOUNDER ELSE 0],
     akicks |-> {}, pass |-> pass, key |-> 0, flags |-> flags, facc |-> founder # 0, restrict |-> 0,
     tlock |-> 0, memo |-> 3, plus |-> plus, minus |-> minus, old |-> FALSE, topic |-> "none",
     real |-> FALSE, id |-> NoIdent]

\* What REGISTER asks for; op: the user is operator in the channel (or has voice).
MayRegister(u, ov, c, op) ==
    /\ Identified(u) /\ ptr[c] <= 0
    /\ c \in Reserved => opFlagged(u, ov, {"oper", "oacc"})
    /\ chans[Own(u)] < ChanLimit \/ opFlagged(u, ov, {"oacc"}) \/ "root" \in OpFlags[users[u].nick]
    /\ \/ ptr[c] # -1 /\ op
       \/ opFlagged(u, ov, {"oacc", "servop"}) \/ opFlagged(u, ov, {"oacc", "dmod"})

\* addRegChan() frees the new record when the name is listed already, which only
\* an override of an empty channel can reach.
Register(u, ov, c, op) ==
    /\ {"founder", "nicks", "use"} \cap focus # {} /\ Overrides(u, ov) /\ MayRegister(u, ov, c, op)
    /\ top.reg < MaxReg /\ top.pass < MaxPass
    /\ chans' = [chans EXCEPT ![Own(u)] = @ + 1]
    /\ reg' = IF Registered(c) THEN reg
              ELSE [reg EXCEPT ![c] = NewReg(top.reg + 1, Own(u), top.pass + 1, {"encrypt", "ident"}, {"n", "t"}, {"k", "H"})]
    /\ ptr' = IF ptr[c] = -1 THEN ptr ELSE [ptr EXCEPT ![c] = top.reg + 1]
    /\ top' = [top EXCEPT !.reg = @ + 1, !.pass = @ + 1]
    /\ moved' = (moved \/ Registered(c))
    /\ UNCHANGED <<users, ident, trig, keys, focus>>

Identify(u, c) ==
    LET r == reg[c]
        own == r.founder = Own(u) IN
    /\ Ask({"founder", "keys"}, u, FALSE, c)
    /\ r.flags \cap {"banish", "close"} = {} \/ isRoot(u)
    /\ "xfer" \notin r.flags
    /\ Edit(c, IF own
               THEN [r EXCEPT !.facc = TRUE, !.old = FALSE, !.key = 0,
                              !.ops[Own(u)] = IF users[u].acc > 1 THEN FOUNDER ELSE @]
               ELSE [r EXCEPT !.facc = FALSE, !.old = FALSE, !.real = FALSE,
                              !.id = [nick |-> users[u].nick, num |-> users[u].num,
                                      fresh |-> TRUE, pass |-> r.pass]])

\* delRegChan(): the founder's nick counts one channel less, if it still exists.
Discount(c, counts) ==
    IF \E n \in Nicks : ident[n] = reg[c].founder /\ reg[c].founder # 0
    THEN [counts EXCEPT ![reg[c].founder] = @ - 1] ELSE counts

Drops(C) == [c \in Chans |-> IF c \in C THEN NoReg ELSE reg[c]]
Unlinks(C) == [c \in Chans |-> IF c \in C /\ ptr[c] # -1 THEN 0 ELSE ptr[c]]

\* Mutant of Unregister: the channel in use keeps the pointer.
UnregisterOnly(c) == chans' = Discount(c, chans) /\ reg' = Drops({c}) /\ UNCHANGED ptr

Unregister(c) == chans' = Discount(c, chans) /\ reg' = Drops({c}) /\ ptr' = Unlinks({c})

Drop(u, c) ==
    /\ Ask({"founder", "nicks", "use"}, u, FALSE, c)
    /\ reg[c].flags \cap {"banish", "close", "mark", "hold"} = {} \/ isRoot(u)
    /\ isFounder(reg[c], u, FALSE)
    /\ Unregister(c)
    /\ UNCHANGED <<users, ident, trig, keys, top, moved, focus>>

Delete(u, ov, c) ==
    /\ Ask({"opers", "use"}, u, ov, c)
    /\ isServop(u) \/ opFlagged(u, ov, {"oper", "cbandel"})
    /\ c \in Reserved => opFlagged(u, ov, {"oper", "servop", "oacc"})
    /\ reg[c].flags \cap {"hold", "mark"} = {} \/ opFlagged(u, ov, {"root"})
    /\ Unregister(c)
    /\ UNCHANGED <<users, ident, trig, keys, top, moved, focus>>

\* Mutant of Expiring: a held channel is spared only if it is banished as well.
ExpiringHeld(c) == Registered(c) /\ reg[c].old /\ ~({"hold", "banish"} \subseteq reg[c].flags)

Expiring(c) == Registered(c) /\ reg[c].old /\ reg[c].flags \cap {"hold", "banish"} = {}

\* expireChans() goes through all of them.
ExpireChans ==
    LET C == {c \in Chans : Expiring(c)} IN
    /\ {"opers", "use"} \cap focus # {} /\ C # {}
    /\ chans' = FoldSet(Discount, chans, C)
    /\ reg' = Drops(C) /\ ptr' = Unlinks(C)
    /\ UNCHANGED <<users, ident, trig, keys, top, moved, focus>>
-----------------------------------------------------------------------------
(* SET.                                                                      *)

\* cs_set(): its table asks for a level, or for the founder (16).
MaySet(g, u, ov, c, level) ==
    /\ Ask(g, u, ov, c)
    /\ IsOper(u) \/ "xfer" \notin reg[c].flags
    /\ \/ DirectMod(u, ov)
       \/ IF level > FOUNDER THEN isFounder(reg[c], u, ov) ELSE level <= getChanOpId(reg[c], u, ov)

\* cs_set() also repairs the pointer of a channel in use.
Set(u, ov, c, r) ==
    /\ Put(c, r)
    /\ ptr' = IF ptr[c] = -1 THEN ptr ELSE [ptr EXCEPT ![c] = reg[c].rid]
    /\ UNCHANGED <<users, ident, trig, keys, moved, focus>>

NewPass == top.pass < MaxPass /\ top' = [top EXCEPT !.pass = @ + 1]

\* Mutant of SetPasswd: who has identified stays founder.
SetPasswdKept(u, ov, c) ==
    /\ MaySet({"founder", "keys"}, u, ov, c, FOUNDER + 1) /\ isFounder(reg[c], u, ov) /\ NewPass
    /\ Set(u, ov, c, [Looked(reg[c], u, ov) EXCEPT !.pass = top.pass + 1])
    /\ UNCHANGED chans

SetPasswd(u, ov, c) ==
    /\ MaySet({"founder", "keys"}, u, ov, c, FOUNDER + 1) /\ isFounder(reg[c], u, ov) /\ NewPass
    /\ Set(u, ov, c, [reg[c] EXCEPT !.pass = top.pass + 1, !.id = NoIdent])
    /\ UNCHANGED chans

\* Whoever knows the password takes the channel over; facc stays as it is.
SetFounder(u, ov, c) ==
    /\ MaySet({"founder", "nicks"}, u, ov, c, 0)
    /\ chans' = [Discount(c, chans) EXCEPT ![Own(u)] = @ + 1]
    /\ Set(u, ov, c, [Looked(reg[c], u, ov) EXCEPT !.founder = Own(u)])
    /\ UNCHANGED top

SetEncrypt(u, ov, c, on) ==
    /\ MaySet({"rules"}, u, ov, c, 0)
    /\ Set(u, ov, c, [Looked(reg[c], u, ov) EXCEPT
                         !.flags = IF on THEN @ \cup {"encrypt"} ELSE @ \ {"encrypt"}])
    /\ UNCHANGED <<chans, top>>

SetIdent(u, ov, c, on) ==
    /\ MaySet({"ops"}, u, ov, c, FOUNDER)
    /\ Set(u, ov, c, [Looked(reg[c], u, ov) EXCEPT
                         !.flags = IF on THEN @ \cup {"ident"} ELSE @ \ {"ident"}])
    /\ UNCHANGED <<chans, top>>

\* SET RESTRICT and SET TOPICLOCK: nobody locks out those of his own level.
MayLock(u, ov, c, level) ==
    /\ MaySet({"locks"}, u, ov, c, MFOUNDER)
    /\ getChanOp(reg[c], u, ov) >= MFOUNDER /\ level \in 0 .. getChanOp(reg[c], u, ov)

SetRestrict(u, ov, c, level) ==
    /\ MayLock(u, ov, c, level)
    /\ Set(u, ov, c, [Looked(reg[c], u, ov) EXCEPT !.restrict = level])
    /\ UNCHANGED <<chans, top>>

SetTopiclock(u, ov, c, level) ==
    /\ MayLock(u, ov, c, level)
    /\ Set(u, ov, c, [Looked(reg[c], u, ov) EXCEPT !.tlock = level])
    /\ UNCHANGED <<chans, top>>

SetMemolevel(u, ov, c, level) ==
    /\ MaySet({"locks"}, u, ov, c, FOUNDER) /\ level \in MAOP .. FOUNDER
    /\ Set(u, ov, c, [Looked(reg[c], u, ov) EXCEPT !.memo = level])
    /\ UNCHANGED <<chans, top>>

\* One character of the argument of SET MLOCK; a second "=" counts as "+".
LockChar(lock, ch) ==
    IF ch = "=" /\ ~lock.reset THEN [lock EXCEPT !.plus = {}, !.minus = {}, !.reset = TRUE]
    ELSE IF ch \in {"=", "+", "-"} THEN [lock EXCEPT !.on = ch # "-"]
    ELSE IF lock.on THEN [lock EXCEPT !.plus = @ \cup {ch}, !.minus = @ \ {ch}]
    ELSE [lock EXCEPT !.minus = @ \cup {ch}, !.plus = @ \ {ch}]

SetMlock(u, ov, c, arg) ==
    LET lock == FoldLeft(LockChar, [plus |-> reg[c].plus, minus |-> reg[c].minus,
                                    on |-> TRUE, reset |-> FALSE], arg) IN
    /\ MaySet({"rules"}, u, ov, c, FOUNDER)
    /\ getChanOp(reg[c], u, ov) >= MFOUNDER
    /\ Set(u, ov, c, [Looked(reg[c], u, ov) EXCEPT !.plus = lock.plus, !.minus = lock.minus])
    /\ UNCHANGED <<chans, top>>
-----------------------------------------------------------------------------
(* Lost passwords.                                                           *)

\* What GetAuthChKey() makes the key from.
KeyOf(r) == [rid |-> r.rid, xfer |-> "xfer" \in r.flags, pass |-> r.pass, key |-> r.key]

\* GETPASS [-new] [-resend] [-transfer]: option is "", "new" or "resend".
Getpass(u, ov, c, option, transfer) ==
    LET r == reg[c]
        xfer == transfer \/ "xfer" \in r.flags
        fresh == r.key = 0 \/ option # "resend"
        s == [r EXCEPT !.key = IF fresh THEN top.key + 1 ELSE @,
                       !.flags = IF xfer THEN @ \cup {"xfer"} ELSE @,
                       !.id = IF xfer THEN NoIdent ELSE @] IN
    /\ Ask({"keys"}, u, ov, c) /\ IsOper(u)
    /\ "mark" \in r.flags => opFlagged(u, ov, {"oacc"})
    /\ \E n \in Nicks : ident[n] = r.founder
    /\ transfer => opFlagged(u, ov, {"grp"}) /\ c \notin Reserved
    /\ r.key = 0 \/ option # ""
    /\ fresh => top.key < MaxKey
    /\ top' = [top EXCEPT !.key = IF fresh THEN @ + 1 ELSE @]
    /\ Put(c, s) /\ keys' = keys \cup {KeyOf(s)}
    /\ UNCHANGED <<users, ident, chans, ptr, trig, moved, focus>>

\* Whoever has the key, with whatever access.
Setpass(u, c, key) ==
    /\ Ask({"keys"}, u, FALSE, c) /\ reg[c].key # 0 /\ key = KeyOf(reg[c])
    /\ \E n \in Nicks : ident[n] = reg[c].founder
    /\ NewPass
    /\ Put(c, [reg[c] EXCEPT !.pass = top.pass + 1, !.key = 0, !.id = NoIdent,
                             !.flags = (@ \cup {"encrypt"}) \ {"xfer"}])
    /\ UNCHANGED <<users, ident, chans, ptr, trig, keys, moved, focus>>

\* Marked unfinished in the code: who has identified stays founder.
Setrealpass(u, ov, c) ==
    /\ Ask({"keys"}, u, ov, c) /\ opFlagged(u, ov, {"oper", "grp"}) /\ NewPass
    /\ c \in Reserved => isRoot(u) /\ opFlagged(u, ov, {"oacc"})
    /\ Put(c, [reg[c] EXCEPT !.pass = top.pass + 1, !.real = reg[c].id # NoIdent])
    /\ UNCHANGED <<users, ident, chans, ptr, trig, keys, moved, focus>>
-----------------------------------------------------------------------------
(* The access list and the autokicks.                                        *)

\* cs_chanop(): AOP, SOP and the like take only the levels near their own; -1
\* when the level is refused, 0 when none was given to CHANOP.
CommandLevel(alias, level) ==
    LET named == IF level \in 1 .. FOUNDER THEN level ELSE -1 IN
    IF level = -1 THEN (IF alias = 0 THEN 0 ELSE alias)
    ELSE IF alias = 0 THEN (IF named = -1 THEN 0 ELSE named)
    ELSE IF \/ named > alias \/ named < MAOP - 1
            \/ (named <= AOP /\ alias = MSOP)
            \/ (named < MSOP /\ alias = SOP)
            \/ (named <= SOP /\ alias = MFOUNDER)
         THEN -1 ELSE named

\* Mutant of MaxEdit: from SOP on, one may edit one's own level.
MaxEditOwn(level, low) ==
    IF level <= low THEN 0 ELSE IF level < MSOP THEN 1
    ELSE IF level < SOP THEN MAOP ELSE level

\* The highest level one may hand out or take away; low: the last that may nothing.
MaxEdit(level, low) ==
    IF level <= low THEN 0 ELSE IF level < MSOP THEN 1
    ELSE IF level < SOP THEN MAOP ELSE IF level < FOUNDER THEN level - 1 ELSE level

Limit(default, t) == IF t = 0 THEN default ELSE t
OpsOf(r) == {i \in 1 .. MaxId : r.ops[i] > 0}

\* do_chanop(): with or without an identification, one has to be AOP.
MayEditOps(u, ov, c) ==
    LET r == reg[c] IN
    /\ Ask({"ops"}, u, ov, c)
    /\ getChanOp(r, u, ov) >= AOP \/ isFounder(r, u, ov) \/ opFlagged(u, ov, {"oper", "oacc"})
    /\ opFlagged(u, ov, {"oacc", "dmod", "oper"}) \/ getChanOpId(r, u, ov) >= AOP

\* do_chanop_add(), which also changes the level of an entry.
AddOp(u, ov, c, n, level) ==
    LET r == reg[c]
        i == ident[n]
        mod == opFlagged(u, ov, {"dmod", "oacc"})
        my == IF IsOper(u) /\ mod /\ getChanOp(r, u, ov) < FOUNDER THEN FOUNDER + 1
              ELSE getChanOp(r, u, ov)
        free == mod \/ isFounder(r, u, ov) \/ my = FOUNDER
        most == IF free THEN MaxEdit(my, AOP) ELSE Lesser(MaxEdit(my, AOP), FOUNDER - 1)
        new == IF level = 0 THEN MAOP ELSE level IN
    /\ i # 0 /\ level # -1 /\ MayEditOps(u, ov, c)
    /\ Cardinality(OpsOf(r)) < Limit(OpLimit, trig[c].ops) \/ opFlagged(u, ov, {"oacc"})
    /\ IF r.ops[i] > 0
       THEN level # 0 /\ (free \/ (level < my /\ level <= most /\ r.ops[i] < my /\ r.ops[i] <= most))
       ELSE /\ new <= most
            /\ n \in NoAddOp => IsOper(u) /\ (mod \/ opFlagged(u, ov, {"oacc", "servop"}))
    /\ Edit(c, [Looked(r, u, ov) EXCEPT !.ops[i] = new])

\* do_chanop_del(): one may always take oneself off.  i: an entry, by nick or by
\* index, also of a nick that is no longer registered.
DelOp(u, ov, c, i) ==
    LET r == reg[c]
        my == IF DirectMod(u, ov) THEN FOUNDER ELSE getChanOp(r, u, ov) IN
    /\ Registered(c) /\ r.ops[i] > 0 /\ MayEditOps(u, ov, c)
    /\ r.ops[i] <= MaxEdit(my, AOP - 1) \/ i = Own(u)
    /\ Edit(c, [Looked(r, u, ov) EXCEPT !.ops[i] = 0])

\* cleanChopList(): entries of nicks that are gone.
Clean(u, ov, c) ==
    /\ Ask({"ops", "rules"}, u, ov, c) /\ (getChanOp(reg[c], u, ov) >= MSOP \/ IsOper(u))
    /\ Edit(c, [Looked(reg[c], u, ov) EXCEPT
                   !.ops = [i \in DOMAIN @ |-> IF \E n \in Nicks : ident[n] = i THEN @[i] ELSE 0]])

WipeOp(u, ov, c) ==
    /\ Ask({"ops", "rules"}, u, ov, c) /\ opFlagged(u, ov, {"oacc", "dmod"})
    /\ Edit(c, [reg[c] EXCEPT !.ops = [i \in DOMAIN @ |-> 0]])

AddAkick(u, ov, c, v) ==
    /\ Ask({"rules"}, u, ov, c)
    /\ getChanOp(reg[c], u, ov) >= MSOP \/ DirectMod(u, ov)
    /\ Cardinality(reg[c].akicks) < Limit(AkickLimit, trig[c].aks) \/ opFlagged(u, ov, {"oacc"})
    /\ Edit(c, [Looked(reg[c], u, ov) EXCEPT !.akicks = @ \cup {v}])

DelAkicks(u, ov, c, all) ==
    /\ Ask({"rules"}, u, ov, c)
    /\ opFlagged(u, ov, {"oacc", "dmod"}) \/ getChanOp(reg[c], u, ov) >= (IF all THEN MFOUNDER ELSE MSOP)
    /\ \E S \in SUBSET reg[c].akicks :
        /\ IF all THEN S = {} ELSE Cardinality(S) + 1 = Cardinality(reg[c].akicks)
        /\ Edit(c, [Looked(reg[c], u, ov) EXCEPT !.akicks = S])

\* setChanTopic(): a topic by someone below TOPICLOCK is set back.
Topic(u, c) ==
    /\ "locks" \in focus /\ Online(u) /\ Registered(c)
    /\ Edit(c, [Looked(reg[c], u, FALSE) EXCEPT
                   !.topic = IF getChanOp(reg[c], u, FALSE) < reg[c].tlock THEN @ ELSE u])
-----------------------------------------------------------------------------
(* Services operators.                                                       *)

MayBanish(u, ov) == isServop(u) \/ opFlagged(u, ov, {"oper", "cbandel"})

\* BANISH of a name nobody registered makes a registration without a founder.
BanishNew(u, c) ==
    /\ {"opers", "use"} \cap focus # {} /\ IsReg(u) /\ ~Registered(c) /\ top.reg < MaxReg
    /\ MayBanish(u, FALSE) /\ (c \in Reserved => isRoot(u))
    /\ reg' = [reg EXCEPT ![c] = NewReg(top.reg + 1, 0, 0, {"banish", "encrypt"}, {"n", "t"}, {"k"})]
    /\ ptr' = IF ptr[c] = -1 THEN ptr ELSE [ptr EXCEPT ![c] = top.reg + 1]
    /\ top' = [top EXCEPT !.reg = @ + 1]
    /\ UNCHANGED <<users, ident, chans, trig, keys, moved, focus>>

Turn(c, flag, on) ==
    Edit(c, [reg[c] EXCEPT !.flags = IF on THEN @ \cup {flag} ELSE @ \ {flag}])

Banish(u, ov, c, on) ==
    /\ Ask({"opers"}, u, ov, c) /\ MayBanish(u, ov) /\ (c \in Reserved => isRoot(u))
    /\ Turn(c, "banish", on)

Close(u, ov, c, on) == Ask({"opers"}, u, ov, c) /\ MayBanish(u, ov) /\ Turn(c, "close", on)

Hold(u, ov, c, on) == Ask({"opers"}, u, ov, c) /\ isRoot(u) /\ Turn(c, "hold", on)

Mark(u, ov, c, on) == Ask({"opers"}, u, ov, c) /\ isServop(u) /\ Turn(c, "mark", on)

MayDmod(u, ov, c) ==
    /\ Ask({"opers"}, u, ov, c) /\ IsOper(u) /\ opFlagged(u, ov, {"dmod"})
    /\ c \in Reserved => opFlagged(u, ov, {"oper", "root", "oacc"})
    /\ isRoot(u) \/ reg[c].flags \cap {"hold", "mark"} = {}

\* DMOD -founder leaves facc, the access list and both counts of channels alone.
DmodFounder(u, ov, c, n) ==
    /\ MayDmod(u, ov, c) /\ ident[n] # 0
    /\ Put(c, [reg[c] EXCEPT !.founder = ident[n]])
    /\ moved' = TRUE
    /\ UNCHANGED <<users, ident, chans, ptr, trig, keys, top, focus>>

DmodTopic(u, ov, c) == MayDmod(u, ov, c) /\ Edit(c, [reg[c] EXCEPT !.topic = u])

\* TRIGGER MaxOps, MaxAkicks and DEFAULTS; the limit outlives the registration.
Trigger(u, c, limits) ==
    /\ Ask({"rules"}, u, FALSE, c) /\ isRoot(u)
    /\ trig' = [trig EXCEPT ![c] = limits]
    /\ UNCHANGED <<users, ident, chans, reg, ptr, keys, top, moved, focus>>
-----------------------------------------------------------------------------
Limits == {[ops |-> 0, aks |-> 0], [ops |-> OpLimit + 1, aks |-> AkickLimit + 1]}

\* The program has loaded its databases: the nicks are registered, and the
\* channels may be, all by the first founder.
Init ==
    /\ users = [u \in Users |-> Off]
    /\ ident = Registry
    /\ trig = [c \in Chans |-> [ops |-> 0, aks |-> 0]]
    /\ ptr = [c \in Chans |-> -1]
    /\ keys = {}
    /\ moved = FALSE
    /\ focus \in Focuses
    /\ \E known \in BOOLEAN :
        /\ known \/ {"founder", "nicks"} \cap focus # {}
        /\ top = [session |-> 0, id |-> Cardinality(Nicks), reg |-> IF known THEN 1 ELSE 0,
                  pass |-> IF known THEN 1 ELSE 0, key |-> 0]
        /\ chans = [i \in 0 .. MaxId |-> IF known /\ i = 1 THEN Cardinality(Chans) ELSE 0]
        /\ reg = [c \in Chans |-> IF known
                    THEN NewReg(1, 1, 1, {"encrypt", "ident"}, {"n", "t"}, {"k", "H"}) ELSE NoReg]

OpsCommand(u, ov, c) ==
    \/ \E n \in Nicks, level \in {CommandLevel(a, l) : a \in Aliases, l \in Levels} :
        AddOp(u, ov, c, n, level)
    \/ \E i \in 1 .. MaxId : DelOp(u, ov, c, i)

FounderCommand(u, ov, c) ==
    \/ \E op \in BOOLEAN : Register(u, ov, c, op)
    \/ Identify(u, c) \/ Drop(u, c)
    \/ SetPasswd(u, ov, c) \/ SetFounder(u, ov, c)
    \/ BadPw(u, c)

KeyCommand(u, ov, c) ==
    \/ \E o \in {"", "new", "resend"}, transfer \in BOOLEAN : Getpass(u, ov, c, o, transfer)
    \/ \E key \in keys : Setpass(u, c, key)
    \/ Setrealpass(u, ov, c)

RuleCommand(u, ov, c) ==
    \/ \E level \in Levels :
        SetRestrict(u, ov, c, level) \/ SetTopiclock(u, ov, c, level) \/ SetMemolevel(u, ov, c, level)
    \/ \E arg \in Locks : SetMlock(u, ov, c, arg)
    \/ \E on \in BOOLEAN : SetEncrypt(u, ov, c, on) \/ SetIdent(u, ov, c, on) \/ DelAkicks(u, ov, c, on)
    \/ \E v \in Users : AddAkick(u, ov, c, v)
    \/ Topic(u, c)
    \/ Clean(u, ov, c) \/ WipeOp(u, ov, c)
    \/ \E t \in Limits : Trigger(u, c, t)

OperCommand(u, ov, c) ==
    \/ BanishNew(u, c) \/ Delete(u, ov, c)
    \/ \E on \in BOOLEAN : Banish(u, ov, c, on) \/ Close(u, ov, c, on) \/ Hold(u, ov, c, on) \/ Mark(u, ov, c, on)
    \/ \E n \in Nicks : DmodFounder(u, ov, c, n)
    \/ DmodTopic(u, ov, c)

Network ==
    \/ \E u \in Users, n \in Nicks : SignOn(u, n) \/ NickChange(u, n) \/ NickIdentify(u, n)
    \/ \E u \in Users : SignOff(u) \/ NickRegister(u)
    \/ \E n \in Nicks : NickDrop(n)
    \/ \E c \in Chans : Appear(c) \/ Vanish(c) \/ Age(c)

Next ==
    \/ Network \/ ExpireChans
    \/ \E u \in Users, c \in Chans : Look(u, c)
    \/ \E u \in Users, ov \in BOOLEAN, c \in Chans :
        \/ FounderCommand(u, ov, c) \/ KeyCommand(u, ov, c) \/ OpsCommand(u, ov, c)
        \/ RuleCommand(u, ov, c) \/ OperCommand(u, ov, c)

Spec == Init /\ [][Next]_vars
-----------------------------------------------------------------------------
PointersAgree == \A c \in Chans : ptr[c] # -1 => ptr[c] = reg[c].rid
LocksExclusive == \A c \in Chans : Registered(c) => reg[c].plus \cap reg[c].minus = {}
ChansCounted ==
    moved \/ \A n \in Nicks : ident[n] # 0 =>
        chans[ident[n]] = Cardinality({c \in Chans : Registered(c) /\ reg[c].founder = ident[n]})

\* A channel in use knows its registration and never one that was freed,
\* whatever REGISTER, DROP, DELETE, BANISH and expiry do in between; each nick
\* counts the channels it founded (until DMOD FOUNDER moves one); no mode is
\* locked both on and off (cs_register, delRegChan, cs_set_founder, cs_set_mlock).
Consistent == TypeOK /\ PointersAgree /\ ChansCounted /\ LocksExclusive

\* Who is founder by password has given the password the channel has now: a
\* change of password by SET PASSWORD or SETPASS ends older identifications, and
\* neither a nick change nor another user of the nick inherits one (isFounder,
\* clearChanIdent).
FounderProved ==
    \A u \in Users, c \in Chans :
        /\ Registered(c) /\ Online(u) /\ isFounder(reg[c], u, FALSE) /\ ~reg[c].real
        /\ users[u].nick = reg[c].id.nick /\ ~(reg[c].facc /\ reg[c].founder = Own(u))
        => reg[c].id.pass = reg[c].pass /\ reg[c].id.num = users[u].num

\* Without an override, nobody below founder gives, changes or takes an entry
\* that is not below his own level, his own being taken off apart (do_chanop_add,
\* do_chanop_del).
LevelsBounded ==
    [][\A c \in Chans : Registered(c) /\ reg'[c] # NoReg /\ reg'[c].ops # reg[c].ops =>
        \A u \in Users, i \in 1 .. MaxId :
            LET old == reg[c].ops[i]
                new == reg'[c].ops[i]
                my == getChanOp(reg[c], u, FALSE) IN
            /\ old # new /\ my < FOUNDER
            /\ \/ \E n \in Nicks, level \in {0, new} : ident[n] = i /\ AddOp(u, FALSE, c, n, level)
               \/ DelOp(u, FALSE, c, i)
            => (old < my /\ new < my) \/ (i = Own(u) /\ new = 0)]_vars

\* While a channel is being transferred, and no operator is there, only the key
\* changes it; and a held channel is not lost while no services root is there
\* (CFORCEXFER in cs_getpass, cs_set and getMiscChanOp; CHOLD in cs_drop,
\* cs_delete and expireChans).
Protected ==
    [][\A c \in Chans : Registered(c) =>
        /\ /\ "xfer" \in reg[c].flags /\ \A u \in Opers : ~Online(u)
           /\ reg'[c] # NoReg /\ reg'[c].pass = reg[c].pass
           => [reg'[c] EXCEPT !.old = FALSE, !.topic = "none"] = [reg[c] EXCEPT !.old = FALSE, !.topic = "none"]
        /\ "hold" \in reg[c].flags /\ reg'[c] = NoReg => \E u \in Users : isRoot(u)]_vars
=============================================================================
