-------------------------------- MODULE Conn --------------------------------
(* The local connections of the IRC server: how they are accepted, resolved,  *)
(* let in, made operators or links, pinged and closed, and the configuration  *)
(* lines, classes and bans they depend on (s_bsd.c, s_conf.c, class.c, conf.c,*)
(* ircd.c and the registration commands of s_user.c and s_serv.c).            *)
(*                                                                            *)
(* Operators named for a function of the code take the world w, a record of   *)
(* what that function may change, and return the world it leaves.             *)
EXTENDS Integers, FiniteSets, FiniteSetsExt, Functions, SequencesExt

CONSTANTS
    Slots,          \* BOUND: the connections there can be
    Peer,           \* the server each can be, "" for a user's
    Addr,           \* the address of each
    KMasks,         \* masks of K-lines and autokills
    Hits,           \* the connections whose user@host a mask matches
    Covers,         \* the masks a mask matches
    ZMasks,         \* masks of Z-lines
    Zaps,           \* the addresses a mask matches
    Hurts,          \* the connections the AHURT line matches
    Configs,        \* configuration files, <<first>> at the start
    FirstConfig,
    MaxCached,      \* MAXCACHED
    MaxLine,        \* BOUND: configuration lines alive
    MaxClass,       \* BOUND: classes alive
    MaxRehash,      \* BOUND: rehashes
    Focuses         \* BOUND: what a behaviour may do besides coming and going

Kinds == <<"class", "operator", "client", "server", "listener">>
Node == [kind : Range(Kinds), name : STRING, class : STRING, max : Nat, for : SUBSET Slots,
         opts : SUBSET {"connect", "services", "global"}]

ASSUME ConnAssumption ==
    /\ IsFiniteSet(Slots) /\ DOMAIN Peer = Slots /\ DOMAIN Addr = Slots /\ Hurts \subseteq Slots
    /\ Hits \in [KMasks -> SUBSET Slots] /\ Covers \in [KMasks -> SUBSET KMasks]
    /\ Zaps \in [ZMasks -> SUBSET Range(Addr)]
    /\ FirstConfig \in Configs
    /\ Focuses \subseteq SUBSET {"resolver", "silence", "queues", "opers", "bans", "config"}
    /\ Configs \subseteq Seq(Node)
    /\ \A m \in KMasks : m \in Covers[m] /\ \A k \in Covers[m] : Hits[k] \subseteq Hits[m]
    /\ {MaxCached, MaxLine, MaxClass, MaxRehash} \subseteq Nat

\* The nodes of all configurations, and the names they give.
Nodes == UNION {Range(f) : f \in Configs}
Names == {"", "*"} \cup {n.name : n \in Nodes}

VARIABLES
    conn,           \* the list of local clients
    query,          \* outstanding questions to the resolver
    cache,          \* addresses in the resolver's cache
    line,           \* configuration lines
    order,          \* conf: the list of those lines
    cls,            \* classes
    classlist,      \* the list of those classes
    config,         \* the configuration read last, with what was made of it
    kill, zap,      \* K-lines and Z-lines, by who set them
    ahurt,          \* the AHURT line is set
    rehashes,       \* BOUND
    focus,          \* BOUND: a member of Focuses
    lost            \* the server used memory it had freed, or looped

connVars == <<conn, query, cache, line, order, cls, classlist, config, kill, zap, ahurt, rehashes, focus, lost>>

NoConn == [st |-> "none", via |-> 0, confs |-> <<>>, class |-> 0, dns |-> FALSE, host |-> FALSE,
           read |-> FALSE, idle |-> 0, pung |-> FALSE, dead |-> FALSE, hurt |-> FALSE, oper |-> "no"]
NoLine == [kind |-> "free", name |-> "", for |-> {}, legal |-> FALSE, clients |-> 0, class |-> 0]
NoClass == [name |-> "", max |-> 0, conns |-> 0, refs |-> 0]

\* aClient: confs are the configuration lines of the connection, the last one
\* attached first; idle counts ping times since lasttime (since firsttime while
\* it is not registered).
Client == [st : {"none", "unknown", "person", "connecting", "handshake", "server"},
           via : 0 .. MaxLine, confs : Seq(1 .. MaxLine), class : 0 .. MaxClass,
           dns : BOOLEAN, host : BOOLEAN, read : BOOLEAN, idle : 0 .. 2, pung : BOOLEAN,
           dead : BOOLEAN, hurt : BOOLEAN, oper : {"no", "loc", "glob"}]

\* I: client, O and o: operator, C and N: server, U: services, P: listener.
Line == [kind : {"I", "O", "o", "C", "N", "U", "P", "free"}, name : Names, for : SUBSET Slots,
         legal : BOOLEAN, clients : Int, class : 0 .. MaxClass]
Class == [name : Names, max : Int, conns : Int, refs : Int]
By == {"none", "temp", "akill"}

\* What the monitors keep of a node: whether it was taken, and what it made.
Entry == {e \in [node : Nodes, ok : BOOLEAN, objs : SUBSET Nat] :
            e.ok /\ e.node.kind = "class" => \E k \in 1 .. MaxClass : e.objs = {k}}

ConnTypeOK ==
    /\ conn \in [Slots -> Client]
    /\ line \in [1 .. MaxLine -> Line] /\ cls \in [1 .. MaxClass -> Class]
    /\ query \in [Slots -> {"no", "ptr", "name"}]
    /\ cache \subseteq Range(Addr) /\ Cardinality(cache) <= MaxCached
    /\ order \in Seq(1 .. MaxLine) /\ classlist \in Seq(1 .. MaxClass) /\ config \in Seq(Entry)
    /\ kill \in [KMasks -> By] /\ zap \in [ZMasks -> By]
    /\ rehashes \in 0 .. MaxRehash /\ lost \in BOOLEAN

World == [conn |-> conn, query |-> query, cache |-> cache, line |-> line, order |-> order,
          cls |-> cls, classlist |-> classlist, config |-> config, lost |-> lost]

Becomes(v) ==
    \E w \in {v} :
        /\ conn' = w.conn /\ query' = w.query /\ cache' = w.cache /\ line' = w.line /\ order' = w.order
        /\ cls' = w.cls /\ classlist' = w.classlist /\ config' = w.config /\ lost' = w.lost

Lost(w) == [w EXCEPT !.lost = TRUE]

\* The elements of the list that are in S, in the order of the list.
Only(list, S) == FoldLeft(LAMBDA some, a : IF a \in S THEN Append(some, a) ELSE some, <<>>, list)

\* The list without the first a.
Without(list, a) == LET k == SelectInSeq(list, LAMBDA b : b = a)
                    IN IF k = 0 THEN list ELSE RemoveAt(list, k)
-----------------------------------------------------------------------------
(* Classes (class.c) *)

\* class_get(): 0 when there is none of that name.
class_get(w, name) == LET k == SelectInSeq(w.classlist, LAMBDA i : w.cls[i].name = name)
                      IN IF k = 0 THEN 0 ELSE w.classlist[k]

\* class_free(): one reference less; a removed class is freed with its last one.
class_free(w, k) ==
    LET refs == w.cls[k].refs - 1
    IN CASE k = 0 -> w
         [] k # 0 /\ w.cls[k] = NoClass -> Lost(w)
         [] k # 0 /\ w.cls[k] # NoClass /\ w.cls[k].max = -1 /\ refs = 0 ->
              [w EXCEPT !.cls[k] = NoClass, !.classlist = Without(@, k)]
         [] OTHER -> [w EXCEPT !.cls[k].refs = refs]

\* free_conf(): it gives up a reference to the class that nobody took.
free_conf(w, i) == class_free([w EXCEPT !.line[i] = NoLine], w.line[i].class)

IsLine(w, i, kinds) == w.line[i].legal /\ w.line[i].kind \in kinds
Operators == {"O", "o"}
Links == {"C", "N"}

\* The first line of the sequence s that is in the set, 0 when none is.
FirstLine(s, set) == LET k == SelectInSeq(s, LAMBDA i : i \in set) IN IF k = 0 THEN 0 ELSE s[k]
-----------------------------------------------------------------------------
(* Attaching configuration lines to connections (s_conf.c) *)

is_attached(w, c, i) == i \in Range(w.conn[c].confs)

\* The limit of a class is applied to each line of it.
Full(w, i) ==
    /\ w.line[i].kind \in Operators \cup {"I"}
    /\ w.cls[w.line[i].class].max > 0 /\ w.line[i].clients >= w.cls[w.line[i].class].max

MayAttach(w, c, i) == ~is_attached(w, c, i) /\ w.line[i].legal /\ ~Full(w, i)

\* The connection gets the line, and the class k of it.
Hang(w, c, i) == [w EXCEPT !.conn[c].confs = <<i>> \o @, !.line[i].clients = @ + 1]
Enter(w, c, k) ==
    LET a == w.cls[k]
    IN [w EXCEPT !.conn[c].class = k, !.cls[k] = [a EXCEPT !.conns = a.conns + 1, !.refs = a.refs + 1]]

attach_conf(w, c, i) ==
    LET k == w.line[i].class
    IN CASE ~MayAttach(w, c, i) -> w
         [] MayAttach(w, c, i) /\ k = 0 -> Hang(w, c, i)
         [] MayAttach(w, c, i) /\ k # 0 /\ w.cls[k] = NoClass -> Lost(w)
         [] OTHER -> Enter(Hang(w, c, i), c, k)

\* attach_confs(), attach_confs_host(): every line of these kinds and this name
\* (services lines have the name *).
attach_confs(w, c, name, kinds) ==
    FoldLeft(LAMBDA v, i : IF IsLine(v, i, kinds) /\ v.line[i].name \in {name, "*"}
                           THEN attach_conf(v, c, i) ELSE v,
             w, w.order)

\* The connection loses the line: it falls back to the class of its first other
\* line; and the class k of the line.
Unhang(w, c, i) ==
    LET rest == Without(w.conn[c].confs, i)
        next == FirstLine(rest, {j \in DOMAIN w.line : w.line[j].class # 0})
        class == IF w.conn[c].class # w.line[i].class THEN w.conn[c].class
                 ELSE IF next = 0 THEN 0 ELSE w.line[next].class
    IN [w EXCEPT !.conn[c] = [@ EXCEPT !.confs = rest, !.class = class]]
Leave(w, k) == IF k = 0 THEN w ELSE class_free([w EXCEPT !.cls[k].conns = @ - 1], k)
Uncount(w, i) == [w EXCEPT !.line[i].clients = @ - 1]

detach_conf(w, c, i) ==
    LET k == w.line[i].class
        v == Uncount(Leave(Unhang(w, c, i), k), i)
    IN CASE ~is_attached(w, c, i) -> Unhang(w, c, i)
         [] is_attached(w, c, i) /\ k # 0 /\ w.cls[k] = NoClass -> Lost(w)
         [] OTHER -> IF v.line[i].clients = 0 /\ ~v.line[i].legal THEN free_conf(v, i) ELSE v

\* det_confs_butmask(): all but those of these kinds; a removed line has no kind.
det_confs_butmask(w, c, kinds) ==
    FoldLeft(LAMBDA v, i : IF IsLine(v, i, kinds) THEN v ELSE detach_conf(v, c, i),
             w, w.conn[c].confs)

\* find_conf(), find_conf_host() on the lines of a connection.
find_conf(w, c, name, kinds) ==
    FirstLine(w.conn[c].confs, {i \in DOMAIN w.line : IsLine(w, i, kinds) /\ w.line[i].name \in {name, "*"}})

\* attach_Iline(): the first line that lets the user in.
find_Iline(w, c) == FirstLine(w.order, {i \in DOMAIN w.line : IsLine(w, i, {"I"}) /\ c \in w.line[i].for})

\* find_conf_exact() for operators, and for the lines to servers.
find_oper(w, c) ==
    FirstLine(w.order, {i \in DOMAIN w.line : /\ IsLine(w, i, Operators) /\ c \in w.line[i].for
                                              /\ w.line[i].clients < w.cls[w.line[i].class].max})

find_conf_servern(w, name) ==
    FirstLine(w.order, {i \in DOMAIN w.line : IsLine(w, i, {"N"}) /\ w.line[i].name = name})
-----------------------------------------------------------------------------
(* Closing connections (s_bsd.c, s_misc.c) *)

Accepted(w, i) == {c \in Slots : w.conn[c].via = i}

\* del_queries()
del_queries(w, c) == [w EXCEPT !.query[c] = "no"]

\* Mutant: the listener is not told.
close_connectionQuiet(w, c) == det_confs_butmask(del_queries(w, c), c, {})

\* close_connection(), for a connection that is freed next.  A connection that
\* came through a listener counts as its client; a discarded listener has no
\* line left to count it on.
close_connection(w, c) ==
    LET i == w.conn[c].via
        w1 == IF i = 0 \/ w.line[i].clients <= 0 THEN del_queries(w, c)
              ELSE [del_queries(w, c) EXCEPT !.line[i].clients = @ - 1]
    IN IF i # 0 /\ ~w.line[i].legal THEN Lost(w) ELSE det_confs_butmask(w1, c, {})

exit_client(w, c) == [close_connection(w, c) EXCEPT !.conn[c] = NoConn]

\* Mutant: the pointers to the entries stay.
rem_cacheKept(w, as) == [w EXCEPT !.cache = @ \ as]

\* rem_cache(): the entries of these addresses, and every pointer to them.
rem_cache(w, as) ==
    LET kept == [c \in Slots |-> [w.conn[c] EXCEPT !.host = w.conn[c].host /\ Addr[c] \notin as]]
    IN [w EXCEPT !.cache = @ \ as, !.conn = kept]

Resolved(w, c) == [del_queries(w, c) EXCEPT !.conn[c].dns = FALSE, !.conn[c].read = TRUE]

\* add_to_cache(): the old entries that may go when there are too many.
Crowded(w) == IF Cardinality(w.cache) > MaxCached THEN w.cache ELSE {}
Cached(w, c) == [w EXCEPT !.cache = @ \cup {Addr[c]}, !.conn[c].host = TRUE]
-----------------------------------------------------------------------------
(* Bans (s_conf.c) *)

find_kill(c) == \E m \in KMasks : kill[m] # "none" /\ c \in Hits[m]
find_kill_byname(m) == \E k \in KMasks : kill[k] # "none" /\ m \in Covers[k]
find_ahurt(c) == ahurt /\ c \in Hurts
find_zap(c) == \E m \in ZMasks : zap[m] # "none" /\ Addr[c] \in Zaps[m]

IsRegistered(w, c) == w.conn[c].st \in {"person", "server"}

\* What check_pings() does about one that is not thrown out.
ping(w, c) ==
    LET me == w.conn[c]
        known == IsRegistered(w, c)
    IN CASE known /\ me.idle = 2 /\ me.pung -> exit_client(w, c)
         [] known /\ me.idle > 0 /\ ~me.pung -> [w EXCEPT !.conn[c].pung = TRUE, !.conn[c].idle = 1]
         [] ~known /\ me.idle > 0 /\ me.dns ->
              [del_queries(w, c) EXCEPT !.conn[c].dns = FALSE, !.conn[c].idle = 0]
         [] ~known /\ me.idle > 0 /\ ~me.dns -> exit_client(w, c)
         [] OTHER -> w

\* One connection in check_pings(): banned is find_kill() and find_zap() on it.
check_ping(w, c, banned) ==
    LET me == w.conn[c]
        classless == IsRegistered(w, c) /\ (me.class = 0 \/ w.cls[me.class] = NoClass)
    IN CASE me.st = "none" -> w
         [] me.st # "none" /\ me.dead -> exit_client(w, c)
         [] me.st # "none" /\ ~me.dead /\ classless -> Lost(w)
         [] me.st = "person" /\ ~me.dead /\ ~classless /\ banned -> exit_client(w, c)
         [] OTHER -> ping(w, c)

\* Mutant: connections that wait for the resolver are passed over.
check_pingsResolved(w, banned) ==
    FoldSet(LAMBDA c, v : check_ping(v, c, c \in banned), w, {c \in Slots : ~w.conn[c].dns})

\* check_pings(): banned is the set of connections that are looked up and match.
check_pings(w, banned) == FoldSet(LAMBDA c, v : check_ping(v, c, c \in banned), w, Slots)
-----------------------------------------------------------------------------
(* Reading the configuration (conf.c, class.c, s_conf.c).  A world's config is *)
(* a sequence of [node, ok, objs]: objs are the objects made for the node.     *)

\* Nothing that is still pointed to is allocated again: its use is Lost.
FreeLines(w) == {i \in 1 .. MaxLine : w.line[i] = NoLine /\ \A c \in Slots : ~is_attached(w, c, i) /\ w.conn[c].via # i}
FreeClasses(w) == {k \in 1 .. MaxClass : /\ w.cls[k] = NoClass
                                         /\ \A c \in Slots : w.conn[c].class # k
                                         /\ \A i \in 1 .. MaxLine : w.line[i].class # k}

\* A new line at the head of the list.  BOUND: none without room.
NewLine(w, kind, name, for, k) ==
    LET i == Min(FreeLines(w))
    IN IF FreeLines(w) = {} THEN w
       ELSE [w EXCEPT !.order = <<i>> \o @,
                      !.line[i] = [kind |-> kind, name |-> name, for |-> for, legal |-> TRUE,
                                   clients |-> 0, class |-> k]]

Made(w, n, ok, objs) == [w EXCEPT !.config = Append(@, [node |-> n, ok |-> ok, objs |-> objs])]
MadeLines(w, v, n) == Made(v, n, TRUE, {i \in DOMAIN v.line : w.line[i] = NoLine /\ v.line[i] # NoLine})
Bad(w, n) == Made(w, n, FALSE, {})

\* conf_class() for a class that is added.  A removed class that still has users
\* is taken up again and put on the list a second time, which makes it a ring.
\* BOUND: none is made without room.
conf_class(w, n) ==
    LET k == class_get(w, n.name)
        new == Min(FreeClasses(w))
    IN CASE k = 0 /\ FreeClasses(w) = {} -> Bad(w, n)
         [] k = 0 /\ FreeClasses(w) # {} ->
              Made([w EXCEPT !.classlist = <<new>> \o @,
                             !.cls[new] = [name |-> n.name, max |-> n.max, conns |-> 0, refs |-> 1]],
                   n, TRUE, {new})
         [] k # 0 /\ w.cls[k].max # -1 -> Bad(w, n)
         [] OTHER -> Lost(w)

\* The handlers of the other nodes; all but a listener's need their class.
conf_listener(w, n) == NewLine(w, "P", n.name, {}, 0)
conf_client(w, n) == NewLine(w, "I", n.name, n.for, class_get(w, n.class))
conf_operator(w, n) ==
    NewLine(w, IF "global" \in n.opts THEN "O" ELSE "o", n.name, n.for, class_get(w, n.class))
conf_server(w, n) ==
    LET k == class_get(w, n.class)
        link == NewLine(w, "N", n.name, {}, k)
        both == IF "connect" \in n.opts THEN NewLine(link, "C", n.name, {}, k) ELSE link
    IN IF "services" \in n.opts THEN NewLine(both, "U", "*", {}, 0) ELSE both

Add(w, n) ==
    IF n.kind \notin {"class", "listener"} /\ class_get(w, n.class) = 0 THEN Bad(w, n)
    ELSE CASE n.kind = "class" -> conf_class(w, n)
           [] n.kind = "listener" -> MadeLines(w, conf_listener(w, n), n)
           [] n.kind = "client" -> MadeLines(w, conf_client(w, n), n)
           [] n.kind = "operator" -> MadeLines(w, conf_operator(w, n), n)
           [] n.kind = "server" -> MadeLines(w, conf_server(w, n), n)

\* The same handlers for what is removed: lines become illegal, a listener is
\* closed first (close_connection() detaches its own line), a class goes with
\* its last user; one that was freed before would be written to.
Discard(w, e) ==
    LET gone == [i \in DOMAIN w.line |->
                   IF i \notin e.objs THEN w.line[i]
                   ELSE [w.line[i] EXCEPT !.legal = FALSE,
                                          !.clients = IF w.line[i].kind = "P" THEN @ - 1 ELSE @]]
        k == Min(e.objs)
    IN IF e.node.kind # "class" THEN [w EXCEPT !.line = gone]
       ELSE IF w.cls[k] = NoClass THEN Lost(w) ELSE class_free([w EXCEPT !.cls[k].max = -1], k)

\* Nodes of the file, or the entries the monitors keep of them, in the order of
\* the monitors.
OfKind(s, k) == Only(s, {x \in Range(s) : k = IF "node" \in DOMAIN x THEN x.node.kind ELSE x.kind})
ByKind(s) == FoldLeft(LAMBDA acc, k : acc \o OfKind(s, k), <<>>, Kinds)

\* config_read(): nodes that are gone, then nodes that are new or were refused
\* before, both in the order of the monitors.
config_read(w, f) ==
    LET old == ByKind(w.config)
        kept == Only(old, {e \in Range(old) : e.ok /\ e.node \in Range(f)})
        gone == Only(old, {e \in Range(old) : e.ok /\ e.node \notin Range(f)})
        new == Only(ByKind(f), {n \in Range(f) : \A e \in Range(kept) : e.node # n})
    IN FoldLeft(Add, [FoldLeft(Discard, w, gone) EXCEPT !.config = kept], new)

\* Mutant: lines in use stay on the list.
flush_linesUsed(w) ==
    FoldLeft(LAMBDA v, i : IF v.line[i].legal \/ v.line[i].clients # 0 THEN v
                           ELSE free_conf([v EXCEPT !.order = Without(@, i)], i),
             w, w.order)

\* The end of rehash(): illegal lines leave the list, and those nobody uses go.
flush_lines(w) ==
    FoldLeft(LAMBDA v, i : IF v.line[i].legal THEN v
                           ELSE LET u == [v EXCEPT !.order = Without(@, i)]
                                IN IF u.line[i].clients = 0 THEN free_conf(u, i) ELSE u,
             w, w.order)

\* rehash(): flush_cache() first; the bans are looked up again at the end.
rehash(w, f, banned) == check_pings(flush_lines(config_read(rem_cache(w, w.cache), f)), banned)

Empty == [conn |-> [c \in Slots |-> NoConn], query |-> [c \in Slots |-> "no"], cache |-> {},
          line |-> [i \in 1 .. MaxLine |-> NoLine], order |-> <<>>,
          cls |-> [k \in 1 .. MaxClass |-> NoClass], classlist |-> <<>>, config |-> <<>>, lost |-> FALSE]

ConnInit ==
    LET w == config_read(Empty, FirstConfig)
    IN /\ conn = w.conn /\ query = w.query /\ cache = w.cache /\ line = w.line /\ order = w.order
       /\ cls = w.cls /\ classlist = w.classlist /\ config = w.config /\ lost = w.lost
       /\ kill = [m \in KMasks |-> "none"] /\ zap = [m \in ZMasks |-> "none"]
       /\ ahurt = FALSE /\ rehashes = 0 /\ focus \in Focuses
-----------------------------------------------------------------------------
(* Connections come and go *)

Bans == <<kill, zap, ahurt, rehashes, focus>>
Open(c) == conn[c].st # "none"
Fresh == [NoConn EXCEPT !.st = "unknown"]

\* add_connection(): a listener's new connection.  One from a Z-lined address is
\* freed while it is still on the list of local clients.
Accept(c, i) ==
    /\ ~Open(c) /\ IsLine(World, i, {"P"})
    /\ LET known == Addr[c] \in cache \/ "resolver" \notin focus
            me == [Fresh EXCEPT !.via = i, !.dns = ~known, !.read = known, !.host = Addr[c] \in cache]
        IN Becomes(IF find_zap(c) THEN Lost(World)
                   ELSE [World EXCEPT !.conn[c] = me, !.line[i].clients = @ + 1,
                                      !.query[c] = IF known THEN "no" ELSE "ptr"])
    /\ UNCHANGED Bans

\* get_res(): the name of an address is looked up in turn, in the cache first.
Answer(c) ==
    /\ query[c] = "ptr"
    /\ \/ query' = [query EXCEPT ![c] = "name"] /\ UNCHANGED <<conn, cache>>
       \/ /\ Addr[c] \in cache
          /\ conn' = Cached(Resolved(World, c), c).conn
          /\ query' = [query EXCEPT ![c] = "no"] /\ UNCHANGED cache
    /\ UNCHANGED <<line, order, cls, classlist, config, lost>> /\ UNCHANGED Bans

\* do_dns_async(), ASYNC_CLIENT: the answer goes into the cache (make_cache(),
\* add_to_cache()), which throws out its oldest entry when it is full.
DnsDone(c) ==
    /\ query[c] = "name"
    /\ LET w == Cached(Resolved(World, c), c)
        IN \/ Cardinality(w.cache) <= MaxCached /\ Becomes(w)
           \/ \E a \in Crowded(w) : Becomes(rem_cache(w, {a}))
    /\ UNCHANGED Bans

\* timeout_query_list()
DnsTimeout(c) == query[c] # "no" /\ Becomes(Resolved(World, c)) /\ UNCHANGED Bans

\* expire_cache()
ExpireCache(a) == a \in cache /\ Becomes(rem_cache(World, {a})) /\ UNCHANGED Bans

\* read_packet(), dopacket(): input, after which a dead connection is closed.
Read(c) ==
    /\ Open(c) /\ conn[c].read
    /\ Becomes(IF conn[c].dead THEN exit_client(World, c)
               ELSE [World EXCEPT !.conn[c].pung = FALSE,
                                  !.conn[c].idle = IF IsRegistered(World, c) THEN 0 ELSE @])
    /\ UNCHANGED Bans

\* QUIT, network_error_handler() and the other ends of a connection.
Quit(c) == Open(c) /\ Becomes(exit_client(World, c)) /\ UNCHANGED Bans

\* dead_link(): the send queue is over its limit or the write failed.
dead_link(c) ==
    /\ Open(c) /\ ~conn[c].dead
    /\ Becomes([World EXCEPT !.conn[c].dead = TRUE]) /\ UNCHANGED Bans

Age(c) ==
    /\ Open(c) /\ conn[c].idle < IF IsRegistered(World, c) THEN 2 ELSE 1
    /\ Becomes([World EXCEPT !.conn[c].idle = @ + 1]) /\ UNCHANGED Bans

\* check_pings() from the main loop looks up no bans.
Pings == Becomes(check_pings(World, {})) /\ UNCHANGED Bans
-----------------------------------------------------------------------------
(* Users and operators (s_user.c) *)

\* register_user(): the line and its password first, then the bans of users;
\* a Z-line was looked for when the connection was accepted.
Welcome(w, c) == [w EXCEPT !.conn[c].st = "person", !.conn[c].idle = 0, !.conn[c].hurt = find_ahurt(c)]
Register(c, password) ==
    LET i == find_Iline(World, c)
        w == attach_conf(World, c, i)
    IN /\ conn[c].st = "unknown" /\ conn[c].read /\ ~conn[c].dead
       /\ Becomes(IF i = 0 \/ ~MayAttach(World, c, i) THEN exit_client(World, c)
                  ELSE IF ~password \/ find_kill(c) THEN exit_client(w, c) ELSE Welcome(w, c))
       /\ UNCHANGED Bans

Person(c) == conn[c].st = "person" /\ conn[c].read /\ ~conn[c].dead

\* m_oper().  One who fails it while hurt is dropped at the next check, and has
\* lost every line by then when no operator line fits.
Oper(c, password) ==
    LET i == find_oper(World, c)
        ok == password /\ MayAttach(World, c, i)
        failed == IF i = 0 THEN IF conn[c].hurt THEN det_confs_butmask(World, c, {}) ELSE World
                  ELSE detach_conf(World, c, i)
        w == attach_conf(World, c, i)
    IN /\ Person(c) /\ conn[c].oper # "glob"
       /\ Becomes(IF i # 0 /\ ok
                  THEN [w EXCEPT !.conn[c].oper = IF line[i].kind = "O" THEN "glob" ELSE "loc",
                                 !.conn[c].hurt = FALSE]
                  ELSE IF conn[c].hurt
                       THEN [failed EXCEPT !.conn[c].idle = 2, !.conn[c].pung = TRUE] ELSE failed)
       /\ UNCHANGED Bans

\* m_umode(), MODE -o: everything but the client line is detached.
Deop(c) ==
    /\ Person(c) /\ conn[c].oper # "no"
    /\ Becomes([det_confs_butmask(World, c, {"I"}) EXCEPT !.conn[c].oper = "no"])
    /\ UNCHANGED Bans
-----------------------------------------------------------------------------
(* Links (ircd.c, s_bsd.c, s_serv.c) *)

\* Mutant: only the links this server made.
LinkedOwn(w, name) == {d \in Slots : w.conn[d].st = "server" /\ Peer[d] = name /\ w.conn[d].via = 0}

Linked(w, name) == {d \in Slots : w.conn[d].st = "server" /\ Peer[d] = name}

\* try_connections(): a line of a server that is not linked, whose class has room.
MayTry(i) ==
    /\ i \in Range(order) /\ IsLine(World, i, {"C"}) /\ Linked(World, line[i].name) = {}
    /\ LET k == cls[line[i].class] IN k = NoClass \/ k.conns < k.max

\* connect_server(): the line goes to the end of the list.  When the connection
\* is refused at once, its client is freed while it is still on the list of
\* local clients.
Connect(c, i, refused) ==
    LET w == [World EXCEPT !.order = Append(Without(@, i), i),
                           !.conn[c] = [Fresh EXCEPT !.st = "connecting"]]
    IN /\ ~Open(c) /\ MayTry(i) /\ Peer[c] = line[i].name
       /\ Becomes(IF refused \/ cls[line[i].class] = NoClass THEN Lost(World)
                  ELSE attach_confs(w, c, Peer[c], Links))
       /\ UNCHANGED Bans

\* completed_connection()
Completed(c) ==
    /\ conn[c].st = "connecting"
    /\ Becomes(IF /\ find_conf(World, c, Peer[c], {"C"}) # 0 /\ find_conf(World, c, Peer[c], {"N"}) # 0
                  /\ ~conn[c].dead
               THEN [World EXCEPT !.conn[c].st = "handshake", !.conn[c].read = TRUE]
               ELSE exit_client(World, c))
    /\ UNCHANGED Bans

\* check_server_init(): a server that calls gets the lines of its name.
check_server_init(w, c) == IF w.conn[c].st = "unknown" THEN attach_confs(w, c, Peer[c], Links) ELSE w

\* check_server(): the lines of the link, all of them new.
check_server(w, c) ==
    LET name == Peer[c]
        w1 == check_server_init(w, c)
        n == find_conf(w1, c, name, {"N"})
        k == find_conf(w1, c, name, {"C"})
        w2 == attach_conf(attach_conf(det_confs_butmask(w1, c, {}), c, n), c, k)
    IN IF n = 0 \/ k = 0 THEN [ok |-> FALSE, w |-> det_confs_butmask(w1, c, {})]
       ELSE [ok |-> TRUE, w |-> attach_confs(w2, c, name, {"U"})]

\* m_server_estab(): a link that is let in keeps no C-line.
m_server_estab(w, c) ==
    [det_confs_butmask(w, c, {"N", "U"}) EXCEPT !.conn[c].st = "server", !.conn[c].idle = 0]

\* m_server(): the younger of two links to a server is closed, whichever it is.
Server(c, password) ==
    LET name == Peer[c]
        checked == check_server(World, c)
    IN /\ conn[c].st \in {"unknown", "handshake"} /\ conn[c].read /\ ~conn[c].dead /\ name # ""
       /\ IF ~password \/ (find_conf_servern(World, name) = 0 /\ conn[c].st = "unknown")
          THEN Becomes(exit_client(World, c))
          ELSE IF Linked(World, name) # {}
          THEN \E d \in Linked(World, name) \cup {c} : Becomes(exit_client(World, d))
          ELSE Becomes(IF checked.ok THEN m_server_estab(checked.w, c) ELSE exit_client(checked.w, c))
       /\ UNCHANGED Bans
-----------------------------------------------------------------------------
(* Bans and rehashes, by operators of this server and by services *)

IsOper(c) == Person(c) /\ conn[c].oper # "no"
ByOper == \E c \in Slots : IsOper(c)
ByServices == \E c \in Slots : /\ conn[c].st = "server" /\ ~conn[c].dead
                               /\ \E i \in Range(conn[c].confs) : IsLine(World, i, {"U"})

\* Mutant of AddKill: the users here are left to the next check.
AddKillLater(m, by, new) ==
    /\ kill' = IF new THEN [kill EXCEPT ![m] = by] ELSE kill
    /\ Becomes(World) /\ UNCHANGED <<zap, ahurt, rehashes, focus>>

\* add_temp_conf() and the check of the users here: against the new line, or
\* against all of them when there was one already.
AddKill(m, by, new) ==
    /\ kill' = IF new THEN [kill EXCEPT ![m] = by] ELSE kill
    /\ Becomes(check_pings(World, IF new THEN Hits[m] ELSE {c \in Slots : find_kill(c)}))
    /\ UNCHANGED <<zap, ahurt, rehashes, focus>>

\* m_kline(), m_akill(): an autokill that a line covers adds none of its own.
Kline(m) == ByOper /\ AddKill(m, "temp", kill[m] = "none")
Akill(m) == ByServices /\ AddKill(m, "akill", ~find_kill_byname(m))

\* m_unkline(), m_rakill(), by del_temp_conf(): each removes its own kind.
DelKill(m, by) ==
    /\ kill[m] = by /\ kill' = [kill EXCEPT ![m] = "none"]
    /\ Becomes(World) /\ UNCHANGED <<zap, ahurt, rehashes, focus>>
Unkline(m) == ByOper /\ DelKill(m, "temp")
Rakill(m) == ByServices /\ DelKill(m, "akill")

\* m_zline(): one for the sender's own address makes the server rehash as well;
\* the Z-line stays.
Zline(c, m) ==
    LET by == IF IsOper(c) THEN "temp" ELSE "akill"
        banned == {d \in Slots : find_kill(d) \/ find_zap(d) \/ Addr[d] \in Zaps[m]}
        own == Addr[c] \in Zaps[m] \/ find_zap(c)
        same == [k \in DOMAIN config |-> config[k].node]
    IN /\ IsOper(c) \/ (conn[c].st = "server" /\ ByServices)
       /\ zap' = [zap EXCEPT ![m] = IF @ = "none" THEN by ELSE @]
       /\ Becomes(IF own THEN rehash(World, same, banned) ELSE check_pings(World, banned))
       /\ UNCHANGED <<kill, ahurt, rehashes, focus>>

\* m_unzline(): operators may remove those of services as well.
Unzline(m) ==
    /\ ByOper \/ ByServices
    /\ zap' = [zap EXCEPT ![m] = "none"] /\ Becomes(World) /\ UNCHANGED <<kill, ahurt, rehashes, focus>>

\* m_ahurt(), m_rahurt()
Ahurt == ByServices /\ ahurt' = ~ahurt /\ Becomes(World) /\ UNCHANGED <<kill, zap, rehashes, focus>>

\* m_rehash(), s_rehash()
Rehash(f) ==
    /\ rehashes < MaxRehash /\ rehashes' = rehashes + 1
    /\ Cardinality(FreeLines(World)) >= Len(f) + 2 /\ FreeClasses(World) # {}
    /\ Becomes(rehash(World, f, {c \in Slots : find_kill(c) \/ find_zap(c)})) /\ UNCHANGED <<kill, zap, ahurt, focus>>

ConnNext ==
    /\ ~lost
    /\ \/ \E c \in Slots :
            \/ \E i \in DOMAIN line : Accept(c, i) \/ \E r \in BOOLEAN : Connect(c, i, r)
            \/ Read(c) \/ Quit(c) \/ Completed(c)
            \/ \E p \in BOOLEAN : Register(c, p) \/ Server(c, p)
       \/ /\ "resolver" \in focus
          /\ \/ \E c \in Slots : Answer(c) \/ DnsDone(c) \/ DnsTimeout(c)
             \/ \E a \in cache : ExpireCache(a)
       \/ /\ "silence" \in focus
          /\ Pings \/ \E c \in Slots : Age(c)
       \/ /\ "queues" \in focus
          /\ \E c \in Slots : dead_link(c)
       \/ /\ "opers" \in focus
          /\ \/ \E c \in Slots : Deop(c) \/ \E p \in BOOLEAN : Oper(c, p)
             \/ Ahurt
       \/ /\ "bans" \in focus
          /\ \/ \E m \in KMasks : Kline(m) \/ Akill(m) \/ Unkline(m) \/ Rakill(m)
             \/ \E m \in ZMasks : Unzline(m) \/ \E c \in Slots : Zline(c, m)
       \/ /\ "config" \in focus
          /\ \E f \in Configs : Rehash(f)

\* Time passes for every connection, and the main loop calls check_pings().  The
\* first conjunct is WF_connVars(Ticking /\ Pings), with the condition on which Pings
\* changes something written out: TLC's ENABLED is slow on nested operators.
Ticking == ~lost /\ "silence" \in focus
Idle == ~Ticking \/ check_pings(World, {}) = World
Fairness == /\ []<>Idle \/ []<><<Pings>>_connVars
            /\ \A c \in Slots : WF_connVars(Ticking /\ Age(c))

ConnSpec == ConnInit /\ [][ConnNext]_connVars /\ Fairness
-----------------------------------------------------------------------------
(* Properties.  Once the server is lost nothing more is said of it. *)

Attached(w, k) == {x \in Slots \X (1 .. MaxLine) :
                     is_attached(w, x[1], x[2]) /\ w.line[x[2]].class = k}

\* The counts that decide who may still come in (attach_conf(), m_oper(),
\* try_connections()) are those of the connections there are: a line's clients
\* (those it accepted, for a listener) and a class's connections, whatever was
\* removed from the configuration while they were in use; a global operator is
\* one of the clients of an operator line.
Counted ==
    \/ lost
    \/ /\ \A i \in 1 .. MaxLine :
            /\ line[i].kind \notin {"P", "free"} =>
                 line[i].clients = Cardinality({c \in Slots : i \in Range(conn[c].confs)})
            /\ line[i].kind = "P" /\ line[i].legal => line[i].clients = Cardinality(Accepted(World, i))
       /\ \A k \in 1 .. MaxClass : cls[k] # NoClass => cls[k].conns = Cardinality(Attached(World, k))
       /\ \A c \in Slots : conn[c].oper = "glob" => \E i \in Range(conn[c].confs) : line[i].kind \in Operators

\* An answer of the resolver finds the connection that asked and is still
\* waiting, a connection's host entry is in the cache, and the lines attached to
\* it were not freed: del_queries(), rem_cache(), rehash() and free_conf() leave
\* no pointer to what they drop.
PointersLive ==
    \/ lost
    \/ \A c \in Slots : /\ query[c] # "no" => Open(c) /\ conn[c].dns
                        /\ conn[c].host => Open(c) /\ Addr[c] \in cache
                        /\ \A i \in Range(conn[c].confs) : line[i] # NoLine

\* The list of configuration lines that every lookup goes through has each line
\* in force once and no other: connect_server() moves a line to its end, and
\* rehash() takes off what the file has no more, a line in use as well, which
\* stays for its connections only.
InForce == IsInjective(order) /\ Range(order) = {i \in 1 .. MaxLine : line[i].legal}

\* No user of this server matches a K-line or an autokill: every command that
\* adds one, every rehash and every registration looks.
NoneKilled == lost \/ \A c \in Slots : conn[c].st = "person" => ~find_kill(c)

\* A server is linked once, although each end may call the other at once, and
\* while it is linked its connect line is free for no second call.
OneLink == \A c, d \in Slots : conn[c].st = "server" /\ conn[d].st = "server" /\ Peer[c] = Peer[d] => c = d

\* No connection stays silent for ever: check_pings() pings and then drops it,
\* or gives it another ping time when it drops its question to the resolver.
SilentLeave == \A c \in Slots : "silence" \in focus => []<>(lost \/ ~Open(c) \/ conn[c].idle = 0)
=============================================================================
