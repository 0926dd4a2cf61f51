-------------------------------- MODULE Ipc --------------------------------
(* The main loop of services and its IPC connections (main.c, sipc.cc): web    *)
(* tools log in by challenge and answer, query and alter registrations, set    *)
(* passwords with a key NickServ or ChanServ sent, and log.  One turn of the   *)
(* loop serves every connection that select() found ready, then the uplink     *)
(* (module LineBuffer); an open connection is always ready for writing.        *)
(*                                                                             *)
(* Operators named for a function of the code take the world w and return the  *)
(* world it leaves; p is a connection.                                         *)
EXTENDS LineBuffer, FiniteSets, Functions, TLC

CONSTANTS
    Conns,          \* BOUND: the connections there may be
    Nicks, Channels,    \* names that may be registered
    Founder,        \* the nick of each channel's founder
    Online,         \* nicks in use
    Focuses         \* BOUND: what happens together in a run, see Focus

ASSUME IpcAssumption ==
    /\ Founder \in [Channels -> Nicks] /\ Online \subseteq Nicks /\ "" \notin Nicks \cup Channels
    /\ \A f \in Focuses : /\ f.names \subseteq Nicks \cup Channels /\ f.freed \in Nicks \cup Channels \cup {""}
                         /\ f.conns \subseteq Conns /\ f.events \in Nat

VARIABLES
    con,            \* the connections, NoCon when there is none
    links,          \* those that are served, newest first
    reg,            \* the registrations, NoReg for a name without
    cookies,        \* how many random numbers were drawn
    said,           \* the commands each client sent, first one first
    read,           \* how many halves of them were read
    gone,           \* clients that closed their end
    left,           \* BOUND: what is left to happen
    mail,           \* not in the code: the last key sent for each name
    live,           \* not in the code: names whose last key may still be used
    stale,          \* not in the code: a key was taken that may not be used any more
    done,           \* not in the code: what became of the commands of each
    cut             \* not in the code: commands whose text a read cut in two

ipcVars == <<con, links, reg, cookies, said, read, gone, left, mail, live, stale, done, cut>>
vars == <<lineVars, ipcVars>>

Names == Nicks \cup Channels
LoginRight(o) == IF o \in Nicks THEN "RNICK_LOGIN" ELSE "RCHAN_LOGIN"

NoCon == [open |-> FALSE]
NewCon == [open |-> TRUE, user |-> "", pass |-> FALSE, gpriv |-> {}, opriv |-> {}, cookie |-> 0,
           objName |-> "", greeted |-> FALSE]

NoReg == [pass |-> ""]
NewReg(pass) == [pass |-> pass, set |-> {}, force |-> FALSE, chpw_key |-> 0]

World == [con |-> con, links |-> links, reg |-> reg, cookies |-> cookies, read |-> read,
          live |-> live, stale |-> stale, done |-> done, cut |-> cut]
Becomes(v) ==
    \E w \in {v} :
        /\ con' = w.con /\ links' = w.links /\ reg' = w.reg /\ cookies' = w.cookies /\ read' = w.read
        /\ live' = w.live /\ stale' = w.stale /\ done' = w.done /\ cut' = w.cut
-----------------------------------------------------------------------------
(* Who may do what *)

\* getServicesSysUser(): the privileges of the tools, whose password is the same.
Privs == "WWW/ahurt" :> {"QUERY_NICK_ISREG", "LOGW"} @@
         "WWW/setpass" :> {"ALTER_RNICK_GEN", "RCHAN_LOGIN", "RNICK_LOGIN"} @@
         "mysid/test" :> {"QUERY_NICK_ISREG", "QUERY_NICK_PUBLIC", "QUERY_NICK_PRIVATE",
                          "QUERY_AKILL_LIST", "QUERY_CHAN_PUBLIC", "LOGW"}
SysPassword == "test"

\* The fields of rnickQueryTable and rchanQueryTable, and the privileges to query
\* and to alter each; nobody has UNDEF.
Field(query, alter) == [query |-> query, alter |-> alter]
rnickQueryTable ==
    "URL" :> Field({}, {}) @@
    "EMAIL" :> Field({"QUERY_NICK_PRIVATE"}, {"ALTER_RNICK_2"}) @@
    "LAST-HOST-UNMASK" :> Field({"QUERY_NICK_UNMASK"}, {"UNDEF"}) @@
    "FLAGS" :> Field({"QUERY_NICK_PUBLIC"}, {"ALTER_RNICK_3"}) @@
    "OPFLAGS" :> Field({"QUERY_NICK_PRIVATE"}, {"UNDEF"}) @@
    "BADPWS" :> Field({"QUERY_NICK_PUBLIC"}, {"ALTER_RNICK_GEN"}) @@
    "TIMEREG" :> Field({"QUERY_NICK_PUBLIC"}, {"ALTER_RNICK_3"}) @@
    "NUM-MASKS" :> Field({"QUERY_NICK_PRIVATE"}, {"UNDEF"}) @@
    "IS-READTIME" :> Field({"QUERY_NICK_PRIVATE"}, {"ALTER_RNICK_GEN"})
rchanQueryTable ==
    "DESC" :> Field({"QUERY_CHAN_PUBLIC"}, {"ALTER_RCHAN_2"}) @@
    "TIMEREG" :> Field({"QUERY_CHAN_PUBLIC"}, {"ALTER_RNICK_3"})

\* What queryRegNickMessage() computes, and what it and ALTER do not know.
Computed == {"LAST-TIME", "REG-TIME", "ACC", "MARK", "LAST-HOST", "ACCESS-*"}

\* The privileges a query takes, queryRegNickMessage() and queryRegChanMessage().
QueryNeeds(o, f) ==
    CASE f = "ISREG" -> {}
      [] f # "ISREG" /\ o \in Nicks -> {"QUERY_NICK_PUBLIC"} \cup (IF f \in Computed THEN {} ELSE rnickQueryTable[f].query)
      [] f # "ISREG" /\ o \in Channels -> {"QUERY_CHAN_PUBLIC"} \cup rchanQueryTable[f].query

\* Challenge and answer: an answer is made for a cookie from the password, which
\* may be sent in advance or late.
Answer(cookie, pass) == <<cookie, pass>>

\* GetAuthChKey(): made of the mail address, the password, the time of
\* registration and chpw_key.
KeyOf(r) == [key |-> r.chpw_key, pass |-> r.pass, force |-> r.force,
             mail |-> "EMAIL" \in r.set, time |-> "TIMEREG" \in r.set]
Registered(w, o) == o # "" /\ w.reg[o] # NoReg
-----------------------------------------------------------------------------
(* Commands.  Each tells in done what it was about and whether it was granted. *)

Note(w, p, i, ok) == [w EXCEPT !.done[p] = Append(@, [at |-> i, ok |-> ok, cookie |-> w.con[p].cookie])]
Draw(w, p) == [w EXCEPT !.cookies = @ + 1, !.con[p].cookie = w.cookies + 1]

\* MUTANT of authSysLogin(): the privileges of the login before stay.
authSysLoginKeeps(w, p, user) ==
    LET known == [w EXCEPT !.con[p].user = user, !.con[p].opriv = {}]
    IN Draw(IF user \in DOMAIN Privs THEN known ELSE w, p)

\* AUTH SYSTEM LOGIN: a name that is not known is told nothing of it.
authSysLogin(w, p, user) ==
    LET known == [w EXCEPT !.con[p].user = user, !.con[p].gpriv = {}, !.con[p].opriv = {}]
    IN Draw(IF user \in DOMAIN Privs THEN known ELSE w, p)

\* AUTH SYSTEM PASS: a wrong answer forgets the name, and nothing else.
SysAnswered(w, p, answer) == w.con[p].user # "" /\ answer = Answer(w.con[p].cookie, SysPassword)
authSysPass(w, p, answer) ==
    IF SysAnswered(w, p, answer)
    THEN [w EXCEPT !.con[p].pass = TRUE, !.con[p].gpriv = Privs[w.con[p].user],
               !.con[p].opriv = {}]
    ELSE [w EXCEPT !.con[p].user = ""]

\* AUTH OBJECT LOGIN: opriv goes whenever there is such an object.  Without the
\* privilege the name is freed, and the pointer to it stays.
authObjLogin(w, p, o) ==
    LET may == LoginRight(o) \in w.con[p].gpriv
        there == [w EXCEPT !.con[p].opriv = {},
                           !.con[p].objName = IF may THEN o ELSE IF @ = "" THEN "" ELSE left.focus.freed]
    IN Draw(IF Registered(w, o) THEN there ELSE w, p)

\* AUTH OBJECT CHPASSKEY: for a channel there must be a founder.
KeyFits(w, p, key) ==
    LET o == w.con[p].objName
    IN /\ Registered(w, o) /\ (o \in Channels => Registered(w, Founder[o]))
       /\ w.reg[o].chpw_key # 0 /\ KeyOf(w.reg[o]) = key
authObjKey(w, p, key) ==
    IF KeyFits(w, p, key)
    THEN [w EXCEPT !.con[p].opriv = {"SETPASS"}, !.stale = @ \/ w.con[p].objName \notin w.live]
    ELSE [w EXCEPT !.con[p].objName = ""]

\* AUTH OBJECT PASS
ObjAnswered(w, p, answer) ==
    LET o == w.con[p].objName
    IN Registered(w, o) /\ answer = Answer(w.con[p].cookie, w.reg[o].pass)
authObjPass(w, p, answer) ==
    IF ObjAnswered(w, p, answer) THEN [w EXCEPT !.con[p].opriv = {"OWNER"}]
    ELSE [w EXCEPT !.con[p].objName = ""]

\* alterRegNickMessage(): who owns some object or may alter all; the object that
\* is altered need not be the one of AUTH OBJECT.
MayAlter(w, p, o, f) ==
    /\ Registered(w, o)
    /\ o \in Nicks => "OWNER" \in w.con[p].opriv \/ "ALTER_RNICK_GEN" \in w.con[p].gpriv
    /\ IF f = "PASS" THEN "SETPASS" \in w.con[p].opriv
       ELSE o \in Nicks /\ f \in DOMAIN rnickQueryTable /\ rnickQueryTable[f].alter \subseteq w.con[p].gpriv

\* A new password ends the forced transfer and the key.
SetPassword(w, o, pass) ==
    [w EXCEPT !.reg[o].pass = pass, !.reg[o].force = FALSE, !.reg[o].chpw_key = 0, !.live = @ \ {o}]
\* The functions of rnickQueryTable that set a field.
alterRnick(w, o, f) == [w EXCEPT !.reg[o].set = @ \cup {f}]
alterObj(w, p, o, f) ==
    IF ~MayAlter(w, p, o, f) THEN w
    ELSE IF f = "PASS" THEN SetPassword(w, o, "new") ELSE alterRnick(w, o, f)

\* makeMessage(): any name that is logged in may register a nick, with a password
\* that is drawn; a nick in use only by force.
MayMake(w, o, force) == o \in Nicks /\ ~Registered(w, o) /\ (force \/ o \notin Online)
makeMessage(w, o, force) ==
    IF ~MayMake(w, o, force) THEN w
    ELSE [w EXCEPT !.cookies = @ + 1, !.reg[o] = NewReg("made"), !.live = @ \ {o}]

\* QUIT closes the connection, but the commands that were read with it are done.
Quit(w, p) == [w EXCEPT !.con[p].open = FALSE]

\* What each command asks for, and whether it is granted.
Granted(w, p, c) ==
    CASE c.kind \in {"SYSTEM LOGIN", "QUIT", "HELP"} -> TRUE
      [] c.kind = "SYSTEM PASS" -> SysAnswered(w, p, c.answer)
      [] c.kind = "OBJECT LOGIN" -> Registered(w, c.name) /\ LoginRight(c.name) \in w.con[p].gpriv
      [] c.kind = "CHPASSKEY" -> KeyFits(w, p, c.key)
      [] c.kind = "OBJECT PASS" -> ObjAnswered(w, p, c.answer)
      [] c.kind = "QUERY" -> Registered(w, c.name) /\ QueryNeeds(c.name, c.field) \subseteq w.con[p].gpriv
      [] c.kind = "QUERY AKILL" -> "QUERY_AKILL_LIST" \in w.con[p].gpriv
      [] c.kind = "ALTER" -> MayAlter(w, p, c.name, c.field)
      [] c.kind = "LOG" -> "LOGW" \in w.con[p].gpriv
      [] c.kind = "MAKE" -> MayMake(w, c.name, c.force)

Perform(w, p, c) ==
    CASE c.kind = "SYSTEM LOGIN" -> authSysLogin(w, p, c.user)
      [] c.kind = "SYSTEM PASS" -> authSysPass(w, p, c.answer)
      [] c.kind = "OBJECT LOGIN" -> authObjLogin(w, p, c.name)
      [] c.kind = "CHPASSKEY" -> authObjKey(w, p, c.key)
      [] c.kind = "OBJECT PASS" -> authObjPass(w, p, c.answer)
      [] c.kind = "ALTER" -> alterObj(w, p, c.name, c.field)
      [] c.kind = "MAKE" -> makeMessage(w, c.name, c.force)
      [] c.kind = "QUIT" -> Quit(w, p)
      [] c.kind \in {"HELP", "QUERY", "QUERY AKILL", "LOG"} -> w

\* One command of pollAndHandle(): AUTH, QUIT and HELP are for everyone, the rest
\* takes a login that was answered at some time.
Open == {"SYSTEM LOGIN", "SYSTEM PASS", "OBJECT LOGIN", "CHPASSKEY", "OBJECT PASS", "QUIT", "HELP"}
Handle(w, p, i) ==
    LET c == said[p][i]
        heard == c.kind \in Open \/ (w.con[p].user # "" /\ w.con[p].pass)
    IN IF heard THEN Note(Perform(w, p, c), p, i, Granted(w, p, c)) ELSE Note(w, p, i, FALSE)
-----------------------------------------------------------------------------
(* Connections *)

addCon(w, p) == [w EXCEPT !.con[p] = NewCon, !.links = <<p>> \o @]
delCon(w, p) == [w EXCEPT !.con[p] = NoCon, !.links = RemoveFirst(@, p)]

\* The commands of which something was read, and those a read cut: half a command
\* at the end is thrown away, and its other half is a command nobody knows; when
\* more comes during the call, at seam, what was left of the buffer is put in
\* front of it.
Touched(p, r) == {i \in DOMAIN said[p] : read[p] < 2 * i /\ 2 * i - 1 <= read[p] + r.halves}
Split(p, r) ==
    {i \in Touched(p, r) : \/ 2 * i - 1 <= read[p] \/ read[p] + r.halves < 2 * i
                           \/ r.seam > 0 /\ i = ((read[p] + r.seam) \div 2) + 1}

\* MUTANT of Whole(): one command of what was read is done.
WholeFirst(p, r) ==
    LET all == Touched(p, r) \ Split(p, r)
    IN {i \in all : \A j \in all : i <= j}

\* ReadPackets() and shove(): the commands that were read whole.
Whole(p, r) == Touched(p, r) \ Split(p, r)

\* What a turn may read of p: some halves, or the end of the stream; and a client
\* that closed before it was greeted may break the connection.
NoRead == [halves |-> 0, seam |-> 0, eof |-> FALSE, broken |-> FALSE]
End(p) == [NoRead EXCEPT !.halves = 2 * Len(said[p]) - read[p], !.eof = TRUE]
Reads(p) ==
    LET rest == 2 * Len(said[p]) - read[p]
        some == {h \in 1 .. rest : "cut" \in left.focus.ways \/ h % 2 = 0}
        seams(h) == IF "cut" \in left.focus.ways THEN 0 .. h - 1 ELSE {0}
    IN (UNION {{[NoRead EXCEPT !.halves = h, !.seam = s] : s \in seams(h)} : h \in some})
       \cup (IF gone[p] THEN {End(p)} ELSE {})
       \cup (IF gone[p] /\ ~con[p].greeted THEN {[NoRead EXCEPT !.broken = TRUE]} ELSE {})

\* The greeting is sent once; when that fails the connection is closed, but stays.
Greet(w, p, r) ==
    IF w.con[p].greeted THEN w
    ELSE [w EXCEPT !.con[p].greeted = TRUE, !.con[p].open = ~r.broken]

Handled(w, p, r) ==
    LET command(v, i) == IF i \in Whole(p, r) THEN Handle(v, p, i) ELSE v
    IN FoldLeftDomain(command, w, said[p])

\* pollAndHandle() for one connection: at the end of the stream even the commands
\* that were read with it are thrown away.
Serve(w, p, r) ==
    LET after == [Handled(w, p, r) EXCEPT !.read[p] = @ + r.halves, !.cut[p] = @ \cup Split(p, r)]
    IN IF r.eof THEN delCon([w EXCEPT !.read[p] = @ + r.halves], p)
       ELSE IF ~after.con[p].open THEN delCon(after, p)
       ELSE Greet(after, p, r)

\* pollAndHandle(): accepts a connection, new, and serves the others in order; p
\* is the one that reads.
pollAndHandle(w, new, p, r) ==
    LET accepted == IF new = {} THEN w ELSE addCon(w, CHOOSE x \in new : TRUE)
        next(v, x) == IF w.con[x].open THEN Serve(v, x, IF x = p THEN r ELSE NoRead) ELSE v
    IN FoldLeft(next, accepted, w.links)
-----------------------------------------------------------------------------
(* Clients and accounts *)

\* BOUND: the kinds of each command a client sends, the users and names they are
\* about, the fields, the connections, whether reads cut commands, clients send
\* ahead of the answers and close, what a freed name reads as, the messages of
\* the uplink and the events of accounts.
Focus(kinds, users, names, fields, conns, ways, freed, messages, events) ==
    [kinds |-> kinds, users |-> users, names |-> names, fields |-> fields, conns |-> conns,
     ways |-> ways, freed |-> freed, messages |-> messages, events |-> events]

\* The commands a client may send now; it answers the cookie it saw last.
Commands(p) ==
    LET f == left.focus
        answers == {Answer(con[p].cookie, pass) : pass \in {SysPassword, "wrong"}}
        objAnswers == {Answer(con[p].cookie, reg[o].pass) : o \in f.names}
    IN {c \in [kind : {"SYSTEM LOGIN"}, user : f.users] \cup
              [kind : {"SYSTEM PASS"}, answer : answers] \cup
              [kind : {"OBJECT LOGIN"}, name : f.names] \cup
              [kind : {"OBJECT PASS"}, answer : objAnswers] \cup
              [kind : {"CHPASSKEY"}, key : {mail[o] : o \in f.names}] \cup
              [kind : {"QUERY", "ALTER"}, name : f.names, field : f.fields] \cup
              [kind : {"MAKE"}, name : f.names, force : BOOLEAN] \cup
              [kind : {"QUIT", "HELP", "LOG", "QUERY AKILL"}] : c.kind \in f.kinds[Len(said[p]) + 1]}

Init ==
    /\ LineInit /\ cookies = 0 /\ links = <<>> /\ stale = FALSE /\ live = {}
    /\ con = [p \in Conns |-> NoCon] /\ reg = [o \in Names |-> NewReg("old")]
    /\ said = [p \in Conns |-> <<>>] /\ read = [p \in Conns |-> 0] /\ gone = [p \in Conns |-> FALSE]
    /\ mail = [o \in Names |-> KeyOf(NewReg(""))]
    /\ done = [p \in Conns |-> <<>>] /\ cut = [p \in Conns |-> {}]
    /\ \E f \in Focuses : left = [focus |-> f, conns |-> f.conns, events |-> f.events]

UplinkSends ==
    /\ Len(sent) < left.focus.messages /\ Send /\ UNCHANGED ipcVars

Say(p) ==
    /\ p \in Range(links) /\ ~gone[p] /\ Len(said[p]) < Len(left.focus.kinds)
    /\ "ahead" \in left.focus.ways \/ read[p] = 2 * Len(said[p])
    /\ \E c \in Commands(p) : said' = [said EXCEPT ![p] = Append(@, c)]
    /\ UNCHANGED <<lineVars, con, links, reg, cookies, read, gone, left, mail, live, stale, done, cut>>

Close(p) ==
    /\ "close" \in left.focus.ways /\ p \in Range(links) /\ ~gone[p] /\ gone' = [gone EXCEPT ![p] = TRUE]
    /\ UNCHANGED <<lineVars, con, links, reg, cookies, said, read, left, mail, live, stale, done, cut>>

\* A turn of main(): select() finds a client that wants in, an open connection or
\* bytes of the uplink.  A turn in which two connections read is as two of one.
Turn(n, new, p, r) ==
    /\ n > 0 \/ new # {} \/ \E x \in Range(links) : con[x].open
    /\ Becomes(pollAndHandle(World, new, p, r))
    /\ Read(n)
    /\ left' = [left EXCEPT !.conns = @ \ new]
    /\ UNCHANGED <<said, gone, mail>>

Served(p) == p \in Range(links) /\ con[p].open
Wanting == {{}} \cup {{p} : p \in left.conns}
Wakes == {[p |-> CHOOSE p \in Conns : TRUE, r |-> NoRead]} \cup
         UNION {[p : {p}, r : Reads(p)] : p \in {x \in Conns : Served(x)}}
Bytes == 0 .. (IF Len(wire) < MaxRead THEN Len(wire) ELSE MaxRead)

Account(o) == left.events > 0 /\ left' = [left EXCEPT !.events = @ - 1] /\ reg[o] # NoReg
Outside == <<lineVars, con, links, cookies, said, read, gone, done, cut>>

\* ns_getpass(), cs_getpass(): a key is drawn and sent; force is for a transfer,
\* and then a nick's key is sent again when there is one.
GetPass(o, force) ==
    LET again == o \in Nicks /\ reg[o].force /\ reg[o].chpw_key # 0
        r == [reg[o] EXCEPT !.chpw_key = IF again THEN @ ELSE cookies + 1, !.force = @ \/ force]
    IN /\ Account(o) /\ reg' = [reg EXCEPT ![o] = r] /\ mail' = [mail EXCEPT ![o] = KeyOf(r)]
       /\ live' = live \cup {o} /\ cookies' = cookies + 1
       /\ UNCHANGED <<lineVars, con, links, said, read, gone, stale, done, cut>>

\* MUTANT of Identify(): the key is left as it was.
IdentifyKeeps(o) ==
    /\ Account(o) /\ ~reg[o].force
    /\ live' = live \ {o} /\ UNCHANGED <<Outside, mail, stale, reg>>

\* ns_identify(), and cs_identify() by the founder: whoever knows the password
\* needs no key, and it is not good any more; not during a transfer.
Identify(o) ==
    /\ Account(o) /\ ~reg[o].force
    /\ reg' = [reg EXCEPT ![o].chpw_key = 0]
    /\ live' = live \ {o} /\ UNCHANGED <<Outside, mail, stale>>

\* ns_setpass(), cs_setpass(): with the last key that was sent, on IRC.
SetPass(o) ==
    /\ Account(o) /\ reg[o].chpw_key # 0 /\ KeyOf(reg[o]) = mail[o]
    /\ o \in Channels => reg[Founder[o]] # NoReg
    /\ stale' = (stale \/ o \notin live)
    /\ \E pass \in {"old", "new"} : reg' = SetPassword(World, o, pass).reg
    /\ live' = live \ {o} /\ UNCHANGED <<Outside, mail>>

\* ns_drop(), and whatever else ends a registration.
Drop(o) ==
    /\ Account(o) /\ reg' = [reg EXCEPT ![o] = NoReg] /\ live' = live \ {o}
    /\ UNCHANGED <<Outside, mail, stale>>

Next ==
    \/ UplinkSends
    \/ \E p \in Conns : Say(p) \/ Close(p)
    \/ \E n \in Bytes, new \in Wanting, wake \in Wakes : Turn(n, new, wake.p, wake.r)
    \/ \E o \in left.focus.names : \/ Identify(o) \/ SetPass(o) \/ Drop(o)
                                   \/ \E force \in BOOLEAN : GetPass(o, force)

Spec == Init /\ [][Next]_vars
-----------------------------------------------------------------------------
(* Types *)

Passwords == {"", "old", "new", "made"}
Reg == [pass : Passwords, set : SUBSET DOMAIN rnickQueryTable, force : BOOLEAN, chpw_key : Nat]
Key == [key : Nat, pass : Passwords, force : BOOLEAN, mail : BOOLEAN, time : BOOLEAN]
Con == [open : BOOLEAN, user : {""} \cup DOMAIN Privs, pass : BOOLEAN, gpriv : {{}} \cup Range(Privs),
        opriv : {{}, {"OWNER"}, {"SETPASS"}}, cookie : Nat, objName : Names \cup {""}, greeted : BOOLEAN]
Entry == [at : Nat, ok : BOOLEAN, cookie : Nat]

Users == UNION {f.users : f \in Focuses}
Fields == UNION {f.fields : f \in Focuses}
Command ==
    [kind : {"SYSTEM LOGIN"}, user : Users] \cup
    [kind : {"SYSTEM PASS", "OBJECT PASS"}, answer : Nat \X (Passwords \cup {SysPassword, "wrong"})] \cup
    [kind : {"OBJECT LOGIN"}, name : Names] \cup [kind : {"CHPASSKEY"}, key : Key] \cup
    [kind : {"QUERY", "ALTER"}, name : Names, field : Fields] \cup
    [kind : {"MAKE"}, name : Names, force : BOOLEAN] \cup [kind : {"QUIT", "HELP", "LOG", "QUERY AKILL"}]

\* Of the connections and registrations; module LineBuffer has the uplink.
TypeOK ==
    /\ con \in [Conns -> {NoCon} \cup Con] /\ links \in Seq(Conns)
    /\ reg \in [Names -> {NoReg} \cup Reg] /\ mail \in [Names -> Key] /\ live \subseteq Names
    /\ cookies \in Nat /\ stale \in BOOLEAN
    /\ said \in [Conns -> Seq(Command)] /\ read \in [Conns -> Nat] /\ gone \in [Conns -> BOOLEAN]
    /\ done \in [Conns -> Seq(Entry)] /\ cut \in [Conns -> SUBSET Nat]
    /\ left \in [focus : Focuses, conns : SUBSET Conns, events : Nat]
-----------------------------------------------------------------------------
(* Properties *)

\* Which privileges of the tools a command uses.
Needs(c) ==
    CASE c.kind = "QUERY" -> QueryNeeds(c.name, c.field)
      [] c.kind = "ALTER" /\ c.field # "PASS" -> rnickQueryTable[c.field].alter
      [] c.kind = "OBJECT LOGIN" -> {LoginRight(c.name)}
      [] c.kind = "QUERY AKILL" -> {"QUERY_AKILL_LIST"}
      [] c.kind = "LOG" -> {"LOGW"}
      [] OTHER -> {}

\* Whatever is granted was proved by the same connection: since the last login
\* of a name with the privilege it was answered, to the cookie of that login or a
\* later one, with the password; and before a password is set, a key was shown
\* after the last login (CheckPriv(), authSysMessage(), authObjMessage()).
RightsProved ==
    \A p \in Conns : \A i \in DOMAIN done[p] :
        LET Cmd(k) == said[p][done[p][k].at]
            Login(k) == Cmd(k).kind = "SYSTEM LOGIN" /\ Cmd(k).user \in DOMAIN Privs
            Answered(k) == Cmd(k).kind = "SYSTEM PASS" /\ Cmd(k).answer = Answer(done[p][k].cookie, SysPassword)
            Shown(k) == Cmd(k).kind = "CHPASSKEY" /\ done[p][k].ok
        IN done[p][i].ok =>
             /\ Needs(Cmd(i)) # {} => \E k, j \in 1 .. i - 1 :
                   /\ k < j /\ Login(k) /\ Answered(j) /\ Needs(Cmd(i)) \subseteq Privs[Cmd(k).user]
                   /\ \A m \in k + 1 .. i - 1 : ~Login(m)
             /\ Cmd(i).kind = "ALTER" /\ Cmd(i).field = "PASS" => \E k \in 1 .. i - 1 :
                   /\ Shown(k) /\ \A m \in k + 1 .. i - 1 : ~Login(m)

\* A key that is taken, over IPC or on IRC, is the last one sent for the name, and
\* since then its owner has not identified, nor was a password set or the name
\* registered anew (chpw_key of both databases).
KeyLive == ~stale

\* Every command that was read is done once and in the order it was sent, but for
\* those a read cut or put behind what was left of one before (the post-condition
\* of shove()); several may be read, and done, in one turn.
CommandsDone ==
    \A p \in Range(links) :
        LET at == [k \in DOMAIN done[p] |-> done[p][k].at]
        IN /\ \A k \in 2 .. Len(at) : at[k - 1] < at[k]
           /\ \A i \in DOMAIN said[p] : 2 * i <= read[p] => i \in Range(at) \cup cut[p]
=============================================================================
