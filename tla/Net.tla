-------------------------------- MODULE Net --------------------------------
(* The network of IRC servers: how nicks are taken, changed, killed and given *)
(* up on every server of a tree of links that carry their lines in order,     *)
(* break and are made again (s_user.c, s_serv.c, s_misc.c, parse.c, whowas.c).*)
(*                                                                            *)
(* Operators named for a function of the code take the world w and the server *)
(* s that runs it, and return the world it leaves.                            *)
EXTENDS Integers, FiniteSets, FiniteSetsExt, Functions, SequencesExt

CONSTANTS
    Servers,
    Wires,          \* the pairs of servers that may link, a tree
    Users,          \* BOUND: the sessions of users, each connects once
    Route,          \* the links each server finds the others behind at the start
    Home,           \* the server each connects to
    UserHosts,      \* the user@hosts they may have
    NickNames,
    None,           \* no server and no user
    History,        \* NICKNAMEHISTORYLENGTH
    Opers,          \* the servers with an operator that kills
    Watchers,       \* BOUND: the users who watch nicks
    MaxWatch,       \* MAXWATCH
    MaxClock,       \* BOUND: the clock
    MaxEvents       \* BOUND: links that break, changes of nick and KILL commands

ASSUME NetAssumption ==
    /\ \A w \in Wires : w \subseteq Servers /\ Cardinality(w) = 2
    /\ Cardinality(Wires) = Cardinality(Servers) - 1
    /\ IsFiniteSet(Servers) /\ IsFiniteSet(Users) /\ IsFiniteSet(NickNames)
    /\ Route \in [Servers -> [Servers -> Servers]]
    /\ \A s \in Servers : Route[s][s] = s
    /\ \A s, t \in Servers : s # t => {s, Route[s][t]} \in Wires
    /\ \A s, n \in Servers : {s, n} \in Wires =>
          \* a tree: what s does not reach through n, n reaches through s
          Route[s][n] = n /\ \A t \in Servers : Route[s][t] # n => Route[n][t] = s
    /\ Home \in [Users -> Servers] /\ \A h \in UserHosts : DOMAIN h = Users
    /\ Opers \subseteq Servers /\ None \notin Servers \cup Users
    /\ Watchers \subseteq Users /\ "" \notin NickNames
    /\ {History, MaxWatch, MaxClock, MaxEvents} \subseteq Nat /\ History > 0 /\ MaxClock > 0

VARIABLES
    tab,            \* the users each server knows
    dir,            \* the link behind which each server knows another
    was,            \* the nick history of each server, latest first
    q,              \* lines on the way from one server to another
    UserHost,       \* the user@host of each user
    watch,          \* what each user was last told of the nicks on their watch list
    clock,          \* the clock, the same everywhere
    left            \* BOUND: what is left to happen

netVars == <<tab, dir, was, q, UserHost, watch, clock, left>>

Pairs == {p \in Servers \X Servers : {p[1], p[2]} \in Wires}
Gone == [nick |-> "", ts |-> 0, from |-> None, person |-> FALSE]

\* A client of a server: from is the link it is behind, the server itself for a
\* local one; a person has registered.
Client == [nick : NickNames \cup {""}, ts : 0 .. MaxClock, from : Servers \cup {None}, person : BOOLEAN]
Past == [nick : NickNames \cup {""}, who : Users \cup {None}]
Line == [kind : {"HELLO", "SERVER", "SQUIT"}, nick : Servers]
        \cup [kind : {"QUIT", "KILL"}, nick : NickNames] \cup [kind : {"EOF"}, nick : {""}]
        \cup [kind : {"CHANGE"}, old : NickNames, nick : NickNames, ts : 0 .. MaxClock]
        \cup [kind : {"NICK"}, nick : NickNames, ts : 0 .. MaxClock, user : Users, server : Servers]

NetTypeOK ==
    /\ tab \in [Servers -> [Users -> Client]]
    /\ dir \in [Servers -> [Servers -> Servers \cup {None}]]
    /\ was \in [Servers -> Seq(Past)] /\ \A s \in Servers : Len(was[s]) <= History
    /\ q \in [Pairs -> Seq(Line)]
    /\ watch \in [Users -> [NickNames -> {"", "on", "off"}]]
    /\ clock \in 0 .. MaxClock
    /\ left \in [events : 0 .. MaxEvents, users : SUBSET Users, calm : BOOLEAN]

World == [tab |-> tab, dir |-> dir, was |-> was, q |-> q, watch |-> watch]
Becomes(v) ==
    \E w \in {v} : /\ tab' = w.tab /\ dir' = w.dir /\ was' = w.was /\ q' = w.q /\ watch' = w.watch
                   /\ UNCHANGED UserHost

Msg(kind, nick) == [kind |-> kind, nick |-> nick]
-----------------------------------------------------------------------------
(* Who is there (parse.c, hash.c, send.c) *)

Here(w, s, u) == w.tab[s][u] # Gone
Linked(w, s) == {n \in Servers : w.dir[s][n] = n /\ n # s}

\* find_client(): None when nobody has the nick.
find_client(w, s, nick) ==
    LET us == {u \in Users : Here(w, s, u) /\ w.tab[s][u].nick = nick}
    IN IF us = {} THEN None ELSE CHOOSE u \in us : TRUE

sendto_one(w, s, n, ms) == [w EXCEPT !.q[<<s, n>>] = @ \o ms]

\* sendto_serv_butone(): to every linked server but those.
sendto_serv_butone(w, s, but, m) ==
    [w EXCEPT !.q = [p \in Pairs |->
        IF p[1] = s /\ p[2] \in Linked(w, s) \ but THEN Append(@[p], m) ELSE @[p]]]
-----------------------------------------------------------------------------
(* The nick history (whowas.c) *)

Take(h) == IF Len(h) > History THEN SubSeq(h, 1, History) ELSE h

\* add_history(): under the nick of now, and with the client if it still has a link.
add_history(w, s, u, online) ==
    [w EXCEPT !.was[s] = Take(<<[nick |-> w.tab[s][u].nick, who |-> IF online THEN u ELSE None]>> \o @)]

\* off_history(): the client is no longer pointed to.
off_history(w, s, u) ==
    [w EXCEPT !.was[s] = [k \in DOMAIN @ |-> IF @[k].who = u THEN [@[k] EXCEPT !.who = None] ELSE @[k]]]

\* get_history(): who last gave up the nick, None when that one left.
get_history(w, s, nick) ==
    LET k == SelectInSeq(w.was[s], LAMBDA e : e.nick = nick)
    IN IF k = 0 THEN None ELSE w.was[s][k].who
-----------------------------------------------------------------------------
(* Watch lists (hash.c, s_serv.c): the table of watched nicks and the lists of *)
(* the watchers are one relation here.                                         *)

find_person(w, s, nick) == \E u \in Users : w.tab[s][u].person /\ w.tab[s][u].nick = nick
Status(w, s, nick) == IF find_person(w, s, nick) THEN "on" ELSE "off"
Watched(w, u) == {k \in NickNames : w.watch[u][k] # ""}

\* hash_check_watch(): the watchers of the nick who are on this server are told.
hash_check_watch(w, s, nick, reply) ==
    [w EXCEPT !.watch = [u \in Users |->
        IF Home[u] = s /\ nick \in Watched(w, u) THEN [@[u] EXCEPT ![nick] = reply] ELSE @[u]]]

\* add_to_watch_hash_table() and show_watch(), unless the list is full.
watch_add(w, s, u, nick) ==
    IF Cardinality(Watched(w, u)) >= MaxWatch THEN w
    ELSE [w EXCEPT !.watch[u][nick] = Status(w, s, nick)]

\* del_from_watch_hash_table(), hash_del_watch_list()
del_from_watch(w, u, nicks) ==
    [w EXCEPT !.watch[u] = [k \in NickNames |-> IF k \in nicks THEN "" ELSE @[k]]]
-----------------------------------------------------------------------------
(* Leaving (s_misc.c) *)

\* MUTANT of exit_one_client(): the history forgets who left before it notes them.
exit_one_clientEarly(w, s, u, but, killed) ==
    LET me == w.tab[s][u]
        told == IF killed THEN w ELSE sendto_serv_butone(w, s, but, Msg("QUIT", me.nick))
        past == add_history(off_history(told, s, u), s, u, me.from # s)
    IN [IF me.person THEN past ELSE w EXCEPT !.tab[s][u] = Gone]

\* exit_one_client() for a user: a QUIT to every server but those, unless KILLs
\* were sent in its place.  exit_client() drops the watch list of a local one.
exit_one_client(w, s, u, but, killed) ==
    LET me == w.tab[s][u]
        told == IF killed THEN w ELSE sendto_serv_butone(w, s, but, Msg("QUIT", me.nick))
        past == off_history(add_history(told, s, u, me.from # s), s, u)
        unwatched == IF me.from = s THEN del_from_watch(past, u, NickNames) ELSE past
    IN hash_check_watch([IF me.person THEN unwatched ELSE w EXCEPT !.tab[s][u] = Gone], s, me.nick, "off")

\* MUTANT of exit_link(): the servers behind the link go, their users stay.
exit_linkServers(w, s, n) ==
    FoldSet(LAMBDA t, v : sendto_serv_butone([v EXCEPT !.dir[s][t] = None], s, {}, Msg("SQUIT", t)),
            w, {t \in Servers : w.dir[s][t] = n})

\* exit_client() for the link to n: its users first, then its servers, then it.
exit_link(w, s, n) ==
    LET shut == [w EXCEPT !.dir[s][n] = None]
        users == {u \in Users : Here(w, s, u) /\ w.tab[s][u].from = n}
        behind == {t \in Servers \ {n} : w.dir[s][t] = n}
        quits == FoldSet(LAMBDA u, v : exit_one_client(v, s, u, {}, FALSE), shut, users)
    IN FoldSet(LAMBDA t, v : sendto_serv_butone([v EXCEPT !.dir[s][t] = None], s, {}, Msg("SQUIT", t)),
               quits, behind \cup {n})

\* MUTANT of kill_client(): the victim of a collision goes without a KILL line.
kill_clientHere(w, s, u, but) == exit_one_client(w, s, u, but, TRUE)

\* KILL by this server, to every server but those, and the exit of its victim.
kill_client(w, s, u, but) ==
    exit_one_client(sendto_serv_butone(w, s, but, Msg("KILL", w.tab[s][u].nick)), s, u, but, TRUE)
-----------------------------------------------------------------------------
(* NICK (s_user.c) *)

\* One with the user@host of the other replaces it when it is younger, the
\* other keeps the nick when it is older; of two strangers the older stays.
Loses(u, ts, v, w, s) ==
    IF UserHost[u] # UserHost[v] THEN ts >= w.tab[s][v].ts ELSE ts <= w.tab[s][v].ts

Unregistered(w, s, v) == w.tab[s][v].from = s /\ ~w.tab[s][v].person

\* m_nick() for a line of link n, up to nickkilldone: who is in the way is
\* removed, or the user who comes, or both when their times are the same.
\* changes says that the user is here under another nick.
collide(w, s, n, u, nick, ts, changes) ==
    LET v == find_client(w, s, nick)
        loses == w.tab[s][v].from # n /\ Loses(u, ts, v, w, s)
        w1 == IF loses /\ changes THEN kill_client(w, s, u, {n}) ELSE w
        even == ts = w.tab[s][v].ts
    IN CASE v = None -> [in |-> TRUE, w |-> w]
         [] v # None /\ Unregistered(w, s, v) ->
              [in |-> TRUE, w |-> exit_one_client(w, s, v, {}, TRUE)]
         [] v # None /\ ~Unregistered(w, s, v) /\ loses /\ ~even -> [in |-> FALSE, w |-> w1]
         [] OTHER -> [in |-> ~even, w |-> kill_client(w1, s, v, {n})]

\* NICK of a new user, and the USER part of it (m_user(), register_user()).
m_nick_new(w, s, n, m) ==
    LET c == collide(w, s, n, m.user, m.nick, m.ts, FALSE)
        w1 == [c.w EXCEPT !.tab[s][m.user] = [nick |-> m.nick, ts |-> m.ts, from |-> n, person |-> TRUE]]
    IN IF w.dir[s][m.server] # n THEN w
       ELSE IF c.in THEN sendto_serv_butone(hash_check_watch(w1, s, m.nick, "on"), s, {n}, m) ELSE c.w

\* MUTANT of rename(): the watchers of the old nick are not told.
renameUnseen(w, s, u, but, nick, ts) ==
    LET me == w.tab[s][u]
        past == add_history(w, s, u, TRUE)
        told == sendto_serv_butone(past, s, but,
                       [kind |-> "CHANGE", old |-> me.nick, nick |-> nick, ts |-> ts])
    IN hash_check_watch([told EXCEPT !.tab[s][u] = [@ EXCEPT !.nick = nick, !.ts = ts]], s, nick, "on")

\* The end of m_nick() for a person who is here.
rename(w, s, u, but, nick, ts) ==
    LET me == w.tab[s][u]
        past == add_history(w, s, u, TRUE)
        told == sendto_serv_butone(past, s, but,
                       [kind |-> "CHANGE", old |-> me.nick, nick |-> nick, ts |-> ts])
        off == hash_check_watch(told, s, me.nick, "off")
    IN hash_check_watch([off EXCEPT !.tab[s][u] = [@ EXCEPT !.nick = nick, !.ts = ts]], s, nick, "on")

m_nick_change(w, s, n, u, m) ==
    LET c == collide(w, s, n, u, m.nick, m.ts, TRUE)
    IN IF m.nick = m.old THEN w ELSE IF c.in THEN rename(c.w, s, u, {n}, m.nick, m.ts) ELSE c.w
-----------------------------------------------------------------------------
(* KILL and SQUIT (s_user.c, s_serv.c) *)

\* m_kill() of a line of link n: who gave up the nick is chased, and the link is
\* told of the nick the victim has here.
m_kill(w, s, n, nick) ==
    LET v == find_client(w, s, nick)
        chased == get_history(w, s, nick)
        u == IF v # None THEN v ELSE chased
        w1 == IF v # None THEN w ELSE sendto_one(w, s, n, <<Msg("KILL", w.tab[s][u].nick)>>)
    IN IF u = None THEN w ELSE kill_client(w1, s, u, {n})

\* m_squit() for a server behind link n: its users leave by lines of their own.
m_squit(w, s, n, t) ==
    IF w.dir[s][t] = None THEN w
    ELSE sendto_serv_butone([w EXCEPT !.dir[s][t] = None], s, {n}, Msg("SQUIT", t))

\* m_server() for a server behind link n.
m_server(w, s, n, t) ==
    sendto_serv_butone([w EXCEPT !.dir[s][t] = n], s, {n}, Msg("SERVER", t))
-----------------------------------------------------------------------------
(* Links (s_serv.c) *)

Introduced(w, s, n) == {u \in Users : Here(w, s, u) /\ w.tab[s][u].person /\ w.tab[s][u].from # n}

\* m_server_estab(): the link is told of every server, then of every user.
m_server_estab(w, s, n, hello) ==
    LET servers == {t \in Servers : w.dir[s][t] \notin {None, n} /\ t # s}
        users == Introduced(w, s, n)
        intro(u) == [kind |-> "NICK", nick |-> w.tab[s][u].nick, ts |-> w.tab[s][u].ts,
                     user |-> u, server |-> Home[u]]
        told == sendto_serv_butone([w EXCEPT !.dir[s][n] = n], s, {n}, Msg("SERVER", n))
    IN sendto_one(told, s, n, hello \o SetToSeq({Msg("SERVER", t) : t \in servers})
                                    \o SetToSeq({intro(u) : u \in users}))
-----------------------------------------------------------------------------
(* Actions *)

NetInit ==
    /\ tab = [s \in Servers |-> [u \in Users |-> Gone]]
    /\ dir = Route /\ UserHost \in UserHosts
    /\ was = [s \in Servers |-> <<>>]
    /\ q = [p \in Pairs |-> <<>>]
    /\ watch = [u \in Users |-> [k \in NickNames |-> ""]]
    /\ clock = 1
    /\ left = [events |-> MaxEvents, users |-> Users, calm |-> TRUE]

\* Whether no user changed, left or was killed, and no link broke or was made,
\* while a line was on the way.
Calm == left.calm /\ \A p \in Pairs : q[p] = <<>>

ClockTick == clock < MaxClock /\ clock' = clock + 1 /\ UNCHANGED <<tab, dir, was, q, UserHost, watch, left>>

\* A user connects and sends NICK; who has the nick without being registered
\* has to go.
Connect(u, nick) ==
    LET s == Home[u]
        v == find_client(World, s, nick)
        w == IF v = None THEN World ELSE exit_one_client(World, s, v, {}, TRUE)
    IN /\ u \in left.users /\ (v # None => Unregistered(World, s, v))
       /\ Becomes([w EXCEPT !.tab[s][u] = [nick |-> nick, ts |-> clock, from |-> s, person |-> FALSE]])
       /\ left' = [left EXCEPT !.users = @ \ {u}] /\ UNCHANGED clock

\* USER: register_user() tells every server.
Registers(u) ==
    LET s == Home[u]
        me == tab[s][u]
        m == [kind |-> "NICK", nick |-> me.nick, ts |-> me.ts, user |-> u, server |-> s]
        seen == hash_check_watch([World EXCEPT !.tab[s][u].person = TRUE], s, me.nick, "on")
    IN /\ Here(World, s, u) /\ ~me.person
       /\ Becomes(sendto_serv_butone(seen, s, {}, m))
       /\ UNCHANGED <<clock, left>>

\* MUTANT of Change: a nick in use is taken all the same.
ChangeTaken(u, nick) ==
    /\ left.events > 0 /\ Here(World, Home[u], u) /\ tab[Home[u]][u].person
    /\ find_client(World, Home[u], nick) # u
    /\ Becomes(rename(World, Home[u], u, {}, nick, clock))
    /\ left' = [left EXCEPT !.events = @ - 1, !.calm = Calm] /\ UNCHANGED clock

\* NICK by a user of this server who is registered.
Change(u, nick) ==
    LET s == Home[u]
        v == find_client(World, s, nick)
        w == IF v = None THEN World ELSE exit_one_client(World, s, v, {}, TRUE)
    IN /\ left.events > 0 /\ Here(World, s, u) /\ tab[s][u].person
       /\ v # u /\ (v # None => Unregistered(World, s, v))
       /\ Becomes(rename(w, s, u, {}, nick, clock))
       /\ left' = [left EXCEPT !.events = @ - 1, !.calm = Calm] /\ UNCHANGED clock

Quits(u) ==
    /\ Here(World, Home[u], u)
    /\ Becomes(exit_one_client(World, Home[u], u, {}, FALSE))
    /\ left' = [left EXCEPT !.calm = Calm] /\ UNCHANGED clock

\* WATCH +nick, and WATCH -nick or C, by a registered user.
Watch(u, nick) ==
    /\ u \in Watchers /\ tab[Home[u]][u].person
    /\ Becomes(watch_add(World, Home[u], u, nick)) /\ UNCHANGED <<clock, left>>

Unwatch(u, nicks) ==
    /\ u \in Watchers /\ tab[Home[u]][u].person
    /\ Becomes(del_from_watch(World, u, nicks)) /\ UNCHANGED <<clock, left>>

\* KILL by an operator of this server; the kill of a local user is a QUIT to others.
Kill(s, nick) ==
    LET v == find_client(World, s, nick)
        u == IF v # None THEN v ELSE get_history(World, s, nick)
    IN /\ left.events > 0 /\ s \in Opers /\ u # None
       /\ Becomes(IF tab[s][u].from = s THEN exit_one_client(World, s, u, {}, FALSE)
                  ELSE kill_client(World, s, u, {}))
       /\ left' = [left EXCEPT !.events = @ - 1, !.calm = Calm] /\ UNCHANGED clock

\* A link breaks at one end, which the other end finds after the last line.
Split(s, n) ==
    /\ left.events > 0 /\ n \in Linked(World, s) /\ s \in Linked(World, n)
    /\ Becomes(sendto_one([exit_link(World, s, n) EXCEPT !.q[<<n, s>>] = <<>>], s, n, <<Msg("EOF", "")>>))
    /\ left' = [left EXCEPT !.events = @ - 1, !.calm = Calm] /\ UNCHANGED clock

\* A link is made again; the end that called knows from the other's first line.
Link(s, n) ==
    /\ <<s, n>> \in Pairs /\ n \notin Linked(World, s) /\ s \notin Linked(World, n)
    /\ q[<<s, n>>] = <<>> /\ q[<<n, s>>] = <<>>
    /\ Becomes(m_server_estab(World, s, n, <<Msg("HELLO", s)>>))
    /\ left' = [left EXCEPT !.calm = Calm] /\ UNCHANGED clock

\* parse() and the handler of one line from n.  A prefix that is not known is
\* answered with a KILL, one from the wrong direction is ignored.
handle(w, s, n, m) ==
    LET name == IF m.kind = "CHANGE" THEN m.old ELSE m.nick
        u == find_client(w, s, name)
        open == n \in Linked(w, s)
    IN CASE m.kind = "HELLO" -> m_server_estab(w, s, n, <<>>)
         [] m.kind # "HELLO" /\ ~open -> w       \* written to a link that was closed
         [] m.kind = "SERVER" /\ open -> m_server(w, s, n, m.nick)
         [] m.kind = "NICK" /\ open -> m_nick_new(w, s, n, m)
         [] m.kind = "KILL" /\ open -> m_kill(w, s, n, m.nick)
         [] m.kind = "SQUIT" /\ open -> m_squit(w, s, n, m.nick)
         [] m.kind = "EOF" /\ open -> [exit_link(w, s, n) EXCEPT !.q[<<s, n>>] = <<>>]
         [] m.kind \in {"CHANGE", "QUIT"} /\ open /\ u = None -> sendto_one(w, s, n, <<Msg("KILL", name)>>)
         [] m.kind \in {"CHANGE", "QUIT"} /\ open /\ u # None /\ w.tab[s][u].from # n -> w
         [] m.kind = "CHANGE" /\ open /\ u # None /\ w.tab[s][u].from = n -> m_nick_change(w, s, n, u, m)
         [] m.kind = "QUIT" /\ open /\ u # None /\ w.tab[s][u].from = n -> exit_one_client(w, s, u, {n}, FALSE)

\* A session that is introduced where it is still known under another nick.
Again(s, n, m) == /\ m.kind = "NICK" /\ n \in Linked(World, s) /\ dir[s][m.server] = n
                  /\ Here(World, s, m.user) /\ tab[s][m.user].nick # m.nick

\* BOUND: what Again says is not followed, a server has one place for a session.
Receive(n, s) ==
    /\ <<n, s>> \in Pairs /\ q[<<n, s>>] # <<>>
    /\ ~Again(s, n, Head(q[<<n, s>>]))
    /\ Becomes(handle([World EXCEPT !.q[<<n, s>>] = Tail(@)], s, n, Head(q[<<n, s>>])))
    /\ UNCHANGED <<clock, left>>

NetNext ==
    \/ ClockTick
    \/ \E u \in Users : Registers(u) \/ Quits(u) \/ \E k \in NickNames : Connect(u, k) \/ Change(u, k)
    \/ \E s \in Servers, k \in NickNames : Kill(s, k)
    \/ \E u \in Users, k \in NickNames : Watch(u, k) \/ Unwatch(u, {k}) \/ Unwatch(u, NickNames)
    \/ \E s, n \in Servers : Split(s, n) \/ Link(s, n) \/ Receive(n, s)

NetSpec == NetInit /\ [][NetNext]_netVars
-----------------------------------------------------------------------------
(* Properties *)

Quiet == /\ \A p \in Pairs : q[p] = <<>>
         /\ \A p \in Pairs : p[2] \in Linked(World, p[1])

\* When no line is on the way every server knows the same users under the same
\* nicks with the same times: whatever crossed, collided, was killed or chased
\* has been settled the same way everywhere (m_nick(), m_kill()).
Persons(s) == [u \in Users |-> IF tab[s][u].person THEN <<tab[s][u].nick, tab[s][u].ts>> ELSE <<>>]
Agree == Quiet => \A s, t \in Servers : Persons(s) = Persons(t)
AgreeCalm == left.calm => Agree

\* No two clients of a server have the same nick, whoever collided or changed.
OneNick == \A s \in Servers : \A u, v \in Users :
    Here(World, s, u) /\ Here(World, s, v) /\ tab[s][u].nick = tab[s][v].nick => u = v

\* Nobody is known behind a link other than the one to their server: no user
\* outlives the server on another's list (exit_one_client(), m_squit()).
Behind == left.calm => \A s \in Servers : \A u \in Users :
    Here(World, s, u) => tab[s][u].from = dir[s][Home[u]]

\* The history points to clients that are still there: a KILL that chases a nick
\* never reaches one that was freed.
WhowasLive == \A s \in Servers : \A k \in DOMAIN was[s] :
                 was[s][k].who # None => Here(World, s, was[s][k].who)

\* What a user was last told of a nick on their list is so, whoever took it, left
\* it, was killed for it or split away (hash_check_watch() at each such place);
\* the list is not longer than it may be, and goes with its owner.
WatchTrue == \A u \in Users :
    /\ Cardinality(Watched(World, u)) <= MaxWatch
    /\ Watched(World, u) # {} => tab[Home[u]][u].person
    /\ \A k \in Watched(World, u) : watch[u][k] = Status(World, Home[u], k)
=============================================================================
