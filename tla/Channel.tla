------------------------------ MODULE Channel ------------------------------
(* Channels across the IRC servers (ircd/src/channel.c): who is in, who is an  *)
(* operator, modes, bans, invitations and topic, which every server keeps for  *)
(* itself and decides about by the lines of its links: by the creation time of *)
(* the channel when servers speak, by who is an operator when users do.        *)
(*                                                                             *)
(* Operators named for a function of the code take the world w, the server s   *)
(* that runs it and the link n the line came by (s for its own users), and     *)
(* return the world it leaves.                                                 *)
EXTENDS Integers, FiniteSets, FiniteSetsExt, Functions, SequencesExt

CONSTANTS
    Servers,
    Wires,          \* the pairs of servers that may link, a tree
    Route,          \* the neighbour of each server on its way to another
    Users,
    Home,           \* the server of each
    Chans,
    Services,       \* a U-lined client that speaks through ServicesAt
    ServicesAt,
    ModeHackers,    \* users with OPCanModeHack()
    Flags,          \* modes without a parameter, of i, t, p, s, H and others
    Bans, Quiets,   \* the masks of bans, and those that only keep quiet ($q rules)
    Hits,           \* the users a mask matches
    Keys, Texts,    \* for channels and their topics; "" is none
    MaxBans,        \* MAXBANS
    MaxChannels,    \* maxchannels of each user's class, for channels and invitations
    Locks,          \* BOUND: the mode locks services set
    Focuses,        \* BOUND: what happens together in a run, see Focus
    Recent,         \* the ten minutes in which channel times are not a hack
    MaxTime         \* BOUND: the clock

ASSUME ChannelAssumption ==
    /\ \A e \in Wires : e \subseteq Servers /\ Cardinality(e) = 2
    /\ IsFiniteSet(Users) /\ IsFiniteSet(Chans) /\ IsFiniteSet(Flags)
    /\ DOMAIN Home = Users /\ Range(Home) \cup {ServicesAt} \subseteq Servers
    /\ Services \notin Users \cup Servers /\ Users \cap Servers = {} /\ ModeHackers \subseteq Users
    /\ Quiets \subseteq Bans /\ DOMAIN Hits = Bans /\ Flags \cap {"o", "v", "k", "l", "b"} = {}
    /\ {MaxBans, Recent, MaxTime} \subseteq Nat /\ MaxChannels \in [Users -> Nat \ {0}]

\* One change of a MODE line: those of an argument, and flags.
Args == [add : BOOLEAN, mode : {"o", "v"}, arg : Users] \cup [add : BOOLEAN, mode : {"b"}, arg : Bans]
        \cup [add : BOOLEAN, mode : {"k"}, arg : Keys \cup {""}] \cup [add : BOOLEAN, mode : {"l"}, arg : Nat]
Changes == Args \cup [add : BOOLEAN, mode : Flags, arg : {""}]
Change(add, mode, arg) == [add |-> add, mode |-> mode, arg |-> arg]
Lock == {k \in [on : SUBSET Flags, off : SUBSET Flags] : k.on \cap k.off = {}}

ASSUME FocusAssumption ==
    /\ Locks \subseteq Lock
    /\ \A f \in Focuses : /\ f.most \in Nat /\ f.until \in 1 .. MaxTime /\ f.chans \subseteq Chans
                          /\ f.words \subseteq Seq(Changes) \X Seq(Changes)

VARIABLES
    chan,           \* the channels of each server
    invited,        \* each user's list of invitations, at the own server
    known,          \* the users each server knows
    ts8,            \* FLAGS_TS8: those behind a link that only their server spoke for
    up,             \* the wires that carry lines
    q,              \* lines on the way from one server to another
    now,            \* the clock, the same everywhere
    left,           \* BOUND: what is left to happen
    riders,         \* not in the code: operators of the younger side of a link
    mixed           \* not in the code: whom bans of both kinds matched when check_bquiet() last looked

channelVars == <<chan, invited, known, ts8, up, q, now, left, riders, mixed>>

Pairs == {p \in Servers \X Servers : {p[1], p[2]} \in Wires}
From(s, u) == Route[s][Home[u]]
MyClient(s, u) == u \in Users /\ Home[u] = s

\* Status of a member: chanop, voice, deopped (by a server), servopok (a server
\* may op) and bquiet (a ban keeps quiet).
Status == {"o", "v", "deopped", "servopok", "bquiet"}

NoTime == -1            \* a line without a time

\* No struct Channel of the name; a channel somebody is in has members.
NoChan == [member |-> [u \in {} |-> {}], ts |-> 0, modes |-> {}, key |-> "", limit |-> 0, bans |-> <<>>,
           invites |-> {}, topic |-> "", ttime |-> 0, on |-> {}, off |-> {}]

Members == UNION {[us -> SUBSET Status] : us \in SUBSET Users}
Channel == [member : Members, ts : 0 .. MaxTime, modes : SUBSET Flags, key : Keys \cup {""}, limit : Nat,
            bans : Seq(Bans), invites : SUBSET Users, topic : Texts \cup {""}, ttime : 0 .. MaxTime,
            on : SUBSET Flags, off : SUBSET Flags]

\* The lines servers send.
Lines == [kind : {"NICK", "QUIT", "JOIN 0"}, who : Users, chan : {""}]
         \cup [kind : {"JOIN", "PART"}, who : Users, chan : Chans]
         \cup [kind : {"KICK"}, who : Users \cup {Services}, chan : Chans, victim : Users]
         \cup [kind : {"MODE"}, who : Users \cup Servers \cup {Services}, chan : Chans,
               changes : Seq(Changes), ts : NoTime .. MaxTime]
         \cup [kind : {"OPMODE"}, who : Users, chan : Chans, changes : Seq(Changes)]
         \cup [kind : {"TOPIC"}, who : Users \cup Servers, chan : Chans, text : Texts \cup {""}, ts : 0 .. MaxTime]
         \cup [kind : {"INVITE"}, who : Users, chan : Chans, guest : Users]
         \cup [kind : {"MLOCK"}, who : {Services}, chan : Chans, lock : Lock]

ChannelTypeOK ==
    /\ chan \in [Servers -> [Chans -> Channel]] /\ invited \in [Users -> Seq(Chans)]
    /\ known \in [Servers -> SUBSET Users] /\ ts8 \in [Servers -> SUBSET Users]
    /\ q \in [Pairs -> Seq(Lines)] /\ up \subseteq Wires /\ now \in 1 .. MaxTime
    /\ riders \subseteq Users \X Chans /\ mixed \subseteq Users \X Chans
    /\ left \in [events : Nat, focus : Focuses, calm : BOOLEAN, late : BOOLEAN]
    /\ \A s \in Servers : /\ ts8[s] \subseteq known[s]
                          /\ \A c \in Chans : /\ DOMAIN chan[s][c].member \subseteq known[s]
                                              /\ chan[s][c].on \cap chan[s][c].off = {}

World == [chan |-> chan, invited |-> invited, known |-> known, ts8 |-> ts8, q |-> q,
          mixed |-> mixed]
Becomes(v) ==
    \E w \in {v} : /\ chan' = w.chan /\ invited' = w.invited /\ known' = w.known
                   /\ ts8' = w.ts8 /\ q' = w.q /\ mixed' = w.mixed
-----------------------------------------------------------------------------
(* Lines *)

Line(kind, who, c) == [kind |-> kind, who |-> who, chan |-> c]
KickLine(x, c, u) == [kind |-> "KICK", who |-> x, chan |-> c, victim |-> u]
TopicLine(x, c, text, ts) == [kind |-> "TOPIC", who |-> x, chan |-> c, text |-> text, ts |-> ts]
ModeLine(x, c, cs, ts) == [kind |-> "MODE", who |-> x, chan |-> c, changes |-> cs, ts |-> ts]

sendto_one(w, s, n, ms) == [w EXCEPT !.q[<<s, n>>] = @ \o ms]

\* sendto_match_servs(), sendto_serv_butone(): to every linked server but one.
sendto_match_servs(w, s, but, m) ==
    [w EXCEPT !.q = [p \in Pairs |->
        IF p[1] = s /\ p[2] # but /\ {s, p[2]} \in up THEN Append(@[p], m) ELSE @[p]]]
-----------------------------------------------------------------------------
(* Members *)

Exists(w, s, c) == w.chan[s][c] # NoChan
IsMember(w, s, c, x) == x \in DOMAIN w.chan[s][c].member
is_chan_op(w, s, c, x) == IsMember(w, s, c, x) /\ "o" \in w.chan[s][c].member[x]
have_ops(w, s, c) == \E u \in DOMAIN w.chan[s][c].member : "o" \in w.chan[s][c].member[u]
Joined(w, s, u) == {c \in Chans : IsMember(w, s, c, u)}

\* is_banned(): what keeps the user out or quiet; an ordinary ban ends the search.
is_banned(bans, u) ==
    LET k == SelectInSeq(bans, LAMBDA b : u \in Hits[b])
    IN (IF \E b \in Range(bans) \ Quiets : u \in Hits[b] THEN {"ban"} ELSE {})
       \cup (IF k # 0 /\ bans[k] \in Quiets THEN {"quiet"} ELSE {})

\* The list without the first a.
Without(list, a) == LET k == SelectInSeq(list, LAMBDA b : b = a)
                    IN IF k = 0 THEN list ELSE RemoveAt(list, k)

\* check_bquiet(): of the server's own members us, those not yet quiet.
check_bquiet(w, s, c, us) ==
    LET bans == w.chan[s][c].bans
        own == {u \in us : MyClient(s, u)}
        both == {u \in own : \E b \in Range(bans) \cap Quiets, d \in Range(bans) \ Quiets : u \in Hits[b] \cap Hits[d]}
    IN [w EXCEPT !.mixed = (@ \ (own \X {c})) \cup (both \X {c}),
                 !.chan[s][c].member = [u \in DOMAIN @ |->
                     IF u \in own /\ "quiet" \in is_banned(bans, u) THEN @[u] \cup {"bquiet"} ELSE @[u]]]

del_invite(w, s, c, u) ==
    [w EXCEPT !.chan[s][c].invites = @ \ {u}, !.invited[u] = Without(@, c)]

\* The channel forgets its guests, and they forget it: del_invite() of each.
Uninvite(w, s, c) ==
    LET guests == w.chan[s][c].invites
    IN [w EXCEPT !.chan[s][c].invites = {},
                 !.invited = [u \in Users |-> IF u \in guests THEN Without(@[u], c) ELSE @[u]]]

\* sub1_from_channel(): who leaves last takes the channel along, with its
\* invitations and bans.
sub1_from_channel(w, s, c) ==
    IF DOMAIN w.chan[s][c].member # {} THEN w ELSE [Uninvite(w, s, c) EXCEPT !.chan[s][c] = NoChan]

remove_user_from_channel(w, s, c, u) ==
    sub1_from_channel([w EXCEPT !.chan[s][c].member = Restrict(@, DOMAIN @ \ {u})], s, c)

\* The user leaves all channels.
LeaveAll(w, s, u) == FoldSet(LAMBDA c, v : remove_user_from_channel(v, s, c, u), w, Joined(w, s, u))

\* The user forgets all invitations: del_invite() of each.
Forget(w, s, u) ==
    LET Less(k) == [k EXCEPT !.invites = @ \ {u}]
    IN [w EXCEPT !.chan[s] = [c \in Chans |-> IF c \in Range(w.invited[u]) THEN Less(@[c]) ELSE @[c]],
                 !.invited[u] = <<>>]

\* exit_one_client() for a user: channels first, then invitations.
exit_one_client(w, s, but, u) ==
    LET out == LeaveAll(sendto_match_servs(w, s, but, Line("QUIT", u, "")), s, u)
    IN [(IF MyClient(s, u) THEN Forget(out, s, u) ELSE out) EXCEPT !.known[s] = @ \ {u}, !.ts8[s] = @ \ {u}]
-----------------------------------------------------------------------------
(* JOIN, PART and KICK *)

can_join(w, s, c, u, key) ==
    LET k == w.chan[s][c]
    IN k # NoChan /\ c \notin Range(w.invited[u]) =>
          /\ "i" \notin k.modes /\ k.key \in {"", key} /\ "ban" \notin is_banned(k.bans, u)
          /\ k.limit > 0 => Cardinality(DOMAIN k.member) < k.limit

\* The channel with a member more (add_user_to_channel()), and with the time t.
Entered(k, u, flags, t) ==
    [k EXCEPT !.member = [v \in DOMAIN @ \cup {u} |-> IF v = u THEN flags ELSE @[v]], !.ts = t]

\* m_join(): who makes a channel at the own server becomes its operator, and
\* the time goes out with that; behind a link the channel has no time yet.
m_join(w, s, n, u, c, key) ==
    LET mine == MyClient(s, u)
        new == ~Exists(w, s, c)
        flags == (IF mine /\ new THEN {"o"} ELSE {"deopped"}) \cup (IF u \in w.ts8[s] THEN {"servopok"} ELSE {})
        in == [w EXCEPT !.chan[s][c] = Entered(@, u, flags, IF new /\ mine THEN now ELSE @.ts)]
        heard == sendto_match_servs(check_bquiet(in, s, c, {u}), s, n, Line("JOIN", u, c))
        timed == IF heard.chan[s][c].ts # 0 THEN heard
                 ELSE sendto_match_servs([heard EXCEPT !.chan[s][c].ts = now], s, n, ModeLine(s, c, <<>>, now))
        free == del_invite(timed, s, c, u)
        full == Cardinality(Joined(w, s, u)) >= MaxChannels[u]
    IN IF IsMember(w, s, c, u) \/ (mine /\ (full \/ ~can_join(w, s, c, u, key))) THEN w
       ELSE IF ~mine THEN heard
       ELSE IF ~new THEN free
       ELSE sendto_match_servs(free, s, n, ModeLine(s, c, <<Change(TRUE, "o", u)>>, free.chan[s][c].ts))

\* A JOIN 0 goes on as such.
m_join0(w, s, n, u) == sendto_match_servs(LeaveAll(w, s, u), s, n, Line("JOIN 0", u, ""))

\* MODE, PART and KICK clear the FLAGS_TS8 of who gives them.
Spoke(w, s, x) == [w EXCEPT !.ts8[s] = @ \ {x}]

m_part(w, s, n, u, c) ==
    LET v == Spoke(w, s, u)
    IN IF ~IsMember(w, s, c, u) THEN v
       ELSE remove_user_from_channel(sendto_match_servs(v, s, n, Line("PART", u, c)), s, c, u)

\* MUTANT of m_kick(): the server of who is kicked does not answer with a PART.
m_kickNoPart(w, s, n, x, c, u) ==
    LET v == Spoke(w, s, x)
        may == x = Services \/ is_chan_op(w, s, c, x)
    IN IF IsMember(w, s, c, u) /\ (may \/ From(s, u) = n)
       THEN remove_user_from_channel(sendto_match_servs(v, s, n, KickLine(x, c, u)), s, c, u)
       ELSE v

\* m_kick(): one who is not an operator here is answered with a JOIN and the
\* status of the victim, unless the victim is behind the link the KICK came by.
\* The server of the victim answers every KICK with a PART to all.
m_kick(w, s, n, x, c, u) ==
    LET v == Spoke(w, s, x)
        may == x = Services \/ is_chan_op(w, s, c, x)
        flags == w.chan[s][c].member[u] \cap {"o", "v"}
        again == <<Line("JOIN", u, c)>> \o
                 (IF flags = {} THEN <<>>
                  ELSE <<ModeLine(s, c, SetToSeq({Change(TRUE, f, u) : f \in flags}), w.chan[s][c].ts)>>)
        told == sendto_match_servs(v, s, n, KickLine(x, c, u))
        answered == IF MyClient(s, u) THEN sendto_match_servs(told, s, s, Line("PART", u, c)) ELSE told
    IN CASE ~IsMember(w, s, c, u) \/ (n = s /\ ~may) -> v
         [] IsMember(w, s, c, u) /\ n # s /\ ~may /\ From(s, u) # n -> sendto_one(v, s, n, again)
         [] IsMember(w, s, c, u) /\ (may \/ (n # s /\ From(s, u) = n)) -> remove_user_from_channel(answered, s, c, u)
-----------------------------------------------------------------------------
(* Bans (add_banid(), del_banid()) *)

\* Whether add_banid() takes the mask: servers and the users of others may go
\* beyond the limit.
MayAddBan(w, s, c, x, b) ==
    /\ b \notin Range(w.chan[s][c].bans)
    /\ MyClient(s, x) => Len(w.chan[s][c].bans) < MaxBans

add_banid(w, s, c, b) ==
    check_bquiet([w EXCEPT !.chan[s][c].bans = <<b>> \o @], s, c, Users)

\* MUTANT of del_banid(): who was kept quiet stays so.
del_banidQuiet(w, s, c, b) == [w EXCEPT !.chan[s][c].bans = Without(@, b)]

\* del_banid(): those whom no ban keeps quiet any more may speak.
del_banid(w, s, c, b) ==
    LET rest == Without(w.chan[s][c].bans, b)
        Free(k) == [k EXCEPT !.bans = rest, !.member = [u \in DOMAIN @ |->
                        IF "quiet" \in is_banned(rest, u) THEN @[u] ELSE @[u] \ {"bquiet"}]]
    IN [w EXCEPT !.chan[s][c] = Free(@)]
-----------------------------------------------------------------------------
(* MODE *)

\* legalize_mode(): what a mode lock takes out of the first word of a line.
legalize_mode(k, cs) ==
    FoldLeft(LAMBDA some, d : IF d.mode \in (IF d.add THEN k.off ELSE k.on) THEN some ELSE Append(some, d),
             <<>>, cs)

\* What is wrong with an op or voice that no user gave: 2 undoes a deop by a
\* server, 3 goes on.
WrongOp(r, s, n, x, c, hack, d) ==
    LET flags == r.w.chan[s][c].member[d.arg]
        wrong == \/ x = Services \/ hack
                 \/ x \in Servers /\ \/ d.arg \notin r.w.ts8[s]
                                     \/ d.mode = "o" /\ flags \cap {"servopok", "o"} = {}
                                     \/ From(s, d.arg) # Route[s][x]
    IN IF ~wrong THEN r.badop ELSE IF "deopped" \in flags /\ d.mode = "o" THEN 2 ELSE 3

TakeStatus(r, s, n, x, c, hack, d) ==
    LET taken == [r EXCEPT !.ops = Append(@, d), !.doesop = @ \/ d.mode = "o"]
    IN IF ~IsMember(r.w, s, c, d.arg) THEN r
       ELSE IF d.add THEN [taken EXCEPT !.badop = WrongOp(r, s, n, x, c, hack, d)]
       ELSE [taken EXCEPT !.doesdeop = TRUE]

\* One key a line: who may set one when there is one, or take away another than
\* the one that is named, is a server, services or OPMODE.
TakeKey(r, s, n, x, c, hack, d) ==
    LET key == r.w.chan[s][c].key
        may == n # s \/ x = Services \/ hack \/ key = IF d.add THEN "" ELSE d.arg
    IN IF r.keychange \/ ~may THEN r
       ELSE [r EXCEPT !.ops = Append(@, [d EXCEPT !.arg = IF d.add THEN @ ELSE key]),
                      !.keychange = TRUE, !.new = IF d.add THEN @ \ {"H"} ELSE @]

TakeLimit(r, d) ==
    IF r.limitset THEN r
    ELSE [r EXCEPT !.limitset = TRUE, !.nolimit = ~d.add, !.ops = IF d.add THEN Append(@, d) ELSE @]

\* p and s exclude each other, k and H too; a -i forgets the invitations whatever
\* comes of it.
TakeFlag(r, s, c, d) ==
    LET k == r.w.chan[s][c]
        other == IF d.mode = "p" THEN {"s"} ELSE IF d.mode = "s" THEN {"p"} ELSE {}
        hidden == IF k.key # "" THEN {"H"} ELSE {}
    IN IF d.add THEN [r EXCEPT !.new = ((@ \ other) \cup {d.mode}) \ hidden]
       ELSE [r EXCEPT !.w = IF d.mode = "i" THEN Uninvite(@, s, c) ELSE @, !.new = @ \ {d.mode}]

\* The first pass of set_mode() takes one change at a time: new are the flags
\* there will be, ops what else is to do, badop what is wrong with the line.
Take(r, s, n, x, c, hack, d) ==
    CASE d.mode \in {"o", "v"} -> TakeStatus(r, s, n, x, c, hack, d)
      [] d.mode = "k" -> TakeKey(r, s, n, x, c, hack, d)
      [] d.mode = "b" -> [r EXCEPT !.ops = Append(@, d)]
      [] d.mode = "l" -> TakeLimit(r, d)
      [] d.mode \in Flags -> TakeFlag(r, s, c, d)

\* MUTANT of Judge(): the time of an older channel is not taken over.
JudgeKeeps(r, s, x, c, ts, hack) ==
    LET age == r.w.chan[s][c].ts
        uline == x = Services \/ hack
        timed == CASE ts = NoTime -> r
                   [] ts = 0 -> [r EXCEPT !.badop = 2]
                   [] ts > age /\ age # 0 /\ have_ops(r.w, s, c) -> [r EXCEPT !.badop = 1]
                   [] ts > age /\ ~(age # 0 /\ have_ops(r.w, s, c)) -> [r EXCEPT !.badop = 0, !.w.chan[s][c].ts = ts]
                   [] ts \in 1 .. age -> [r EXCEPT !.badop = 0]
    IN IF r.doesop /\ ts \in {NoTime, 0} /\ (x \in Servers \/ uline)
       THEN [timed EXCEPT !.badop = IF uline THEN 4 ELSE 2] ELSE timed

\* What the time in a line of a server does: whose channel is older, whether its
\* operators are believed, and whether the time is taken over.  badop 1 and 2
\* are bounced, 2 as a hack; 3 and 4 are not.
Judge(r, s, x, c, ts, hack) ==
    LET age == r.w.chan[s][c].ts
        ops == have_ops(r.w, s, c)
        uline == x = Services \/ hack
        takes == [r EXCEPT !.badop = 0, !.w.chan[s][c].ts = ts]
        timed == CASE ts = NoTime -> IF x \in Users THEN [r EXCEPT !.badop = 0] ELSE r
                   [] ts = 0 -> [r EXCEPT !.badop = 2]
                   [] ts > age /\ r.doesdeop -> [r EXCEPT !.badop = 2]
                   [] ts > age /\ ~r.doesdeop /\ age # 0 /\ ops -> [r EXCEPT !.badop = 1]
                   [] ts > age /\ ~r.doesdeop /\ (age = 0 \/ ~ops) ->
                        IF age = 0 \/ r.doesop THEN takes ELSE [r EXCEPT !.badop = 0]
                   [] ts \in 1 .. age /\ ts < age /\ r.doesdeop -> [r EXCEPT !.badop = 2]
                   [] ts \in 1 .. age /\ ~(ts < age /\ r.doesdeop) ->
                        IF r.badop # 0 /\ age <= now - Recent THEN r
                        ELSE IF r.doesop \/ ~ops THEN takes ELSE [r EXCEPT !.badop = 0]
        hacked == IF r.doesop /\ ts \in {NoTime, 0} /\ (x \in Servers \/ uline) THEN [timed EXCEPT !.badop = 2] ELSE timed
    IN IF hacked.badop >= 2 /\ uline THEN [hacked EXCEPT !.badop = 4] ELSE hacked

\* The second pass does one change or, when the line is undone, notes in back
\* what undoes it; out is the line that others are told.
Undo(r, d) == [r EXCEPT !.back = Append(@, d)]
Told(r, d) == [r EXCEPT !.out = Append(@, d)]

ApplyKey(r, s, c, d) ==
    LET key == r.w.chan[s][c].key
    IN CASE key = (IF d.add THEN d.arg ELSE "") -> r
         [] key # (IF d.add THEN d.arg ELSE "") /\ r.bounce ->
              Undo(r, IF key = "" THEN Change(FALSE, "k", d.arg) ELSE Change(TRUE, "k", key))
         [] key # (IF d.add THEN d.arg ELSE "") /\ ~r.bounce ->
              [Told(r, d) EXCEPT !.w.chan[s][c].key = IF d.add THEN d.arg ELSE ""]

ApplyLimit(r, s, c, d) ==
    LET limit == r.w.chan[s][c].limit
    IN CASE limit = d.arg -> r
         [] limit # d.arg /\ r.bounce -> Undo(r, Change(limit > 0, "l", limit))
         [] limit # d.arg /\ ~r.bounce -> [Told(r, d) EXCEPT !.w.chan[s][c].limit = d.arg]

\* What a change leaves of a member's flags; a bounce marks who may be opped by
\* a server no more.
Flagged(flags, byServer, hack, d) ==
    CASE d.add /\ d.mode = "v" -> flags \cup {"v"}
      [] d.add /\ d.mode = "o" -> (flags \cup {"o"}) \ ({"deopped"} \cup (IF byServer THEN {"servopok"} ELSE {}))
      [] ~d.add -> (flags \ {d.mode}) \cup (IF d.mode = "o" /\ (byServer \/ hack) THEN {"deopped"} ELSE {})

Bounced(flags, d) ==
    IF d.mode # "o" THEN flags ELSE IF d.add THEN flags \cup {"deopped"} ELSE flags \ {"deopped"}

ApplyStatus(r, s, c, x, d) ==
    LET flags == r.w.chan[s][c].member[d.arg]
        news == d.add # (d.mode \in flags)
        keep == IF r.badop \in {2, 4} THEN Told(r, d) ELSE r
    IN CASE ~news -> keep
         [] news /\ r.bounce -> [Undo(keep, [d EXCEPT !.add = ~@]) EXCEPT !.w.chan[s][c].member[d.arg] = Bounced(flags, d)]
         [] news /\ ~r.bounce ->
              [Told(r, d) EXCEPT !.w.chan[s][c].member[d.arg] = Flagged(flags, x \in Servers \cup {Services}, r.hack, d)]

ApplyBan(r, s, c, x, d) ==
    LET there == d.arg \in Range(r.w.chan[s][c].bans)
        undone == r.bounce /\ x \notin Servers \cup {Services}
        taken == IF d.add THEN MayAddBan(r.w, s, c, x, d.arg) ELSE there
    IN CASE undone -> IF d.add = there THEN r ELSE Undo(r, [d EXCEPT !.add = ~@])
         [] ~undone /\ (r.badop = 2 \/ ~taken) -> r
         [] ~undone /\ r.badop # 2 /\ taken ->
              [Told(r, d) EXCEPT !.w = IF d.add THEN add_banid(@, s, c, d.arg) ELSE del_banid(@, s, c, d.arg)]

Apply(r, s, c, x, d) ==
    CASE d.mode = "k" -> ApplyKey(r, s, c, d)
      [] d.mode = "l" -> ApplyLimit(r, s, c, d)
      [] d.mode \in {"o", "v"} -> ApplyStatus(r, s, c, x, d)
      [] d.mode = "b" -> ApplyBan(r, s, c, x, d)

\* MUTANT of Bounces(): only hacks are undone, not what a younger channel brings.
BouncesHacks(r, s, x, c) ==
    /\ x # Services /\ ~r.hack
    /\ IF x \in Servers THEN r.badop = 2 ELSE ~is_chan_op(r.w, s, c, x)

\* Whether set_mode() undoes the changes instead of doing them.
Bounces(r, s, x, c) ==
    /\ x # Services /\ ~r.hack
    /\ IF x \in Servers THEN r.badop \in {1, 2} ELSE ~is_chan_op(r.w, s, c, x)

\* The flags, and a limit that goes: done, or to be undone.
Enter(r, s, c, bounce) ==
    LET k == r.w.chan[s][c]
        flags == SetToSeq({Change(TRUE, f, "") : f \in r.new \ k.modes} \cup
                          {Change(FALSE, f, "") : f \in k.modes \ r.new})
        off == IF r.nolimit /\ k.limit > 0 THEN <<Change(FALSE, "l", k.limit)>> ELSE <<>>
        done == [k EXCEPT !.modes = r.new, !.limit = IF off = <<>> THEN @ ELSE 0]
    IN IF bounce THEN [r EXCEPT !.bounce = TRUE, !.back = [i \in DOMAIN (flags \o off) |->
                                                              [(flags \o off)[i] EXCEPT !.add = ~@]]]
       ELSE [r EXCEPT !.out = flags \o off, !.w.chan[s][c] = done]

\* The bounce goes back over the link with the own time, as a hack itself when it
\* answers one, but for a line with time 0.
Answer(r, s, n, c, ts) ==
    LET age == r.w.chan[s][c].ts
    IN IF ts = 0 \/ r.back = <<>> \/ age = 0 THEN r
       ELSE [r EXCEPT !.w = sendto_one(@, s, n, <<ModeLine(s, c, r.back, IF r.badop = 2 THEN 0 ELSE age)>>)]

ReadModes(w, s, n, x, c, cs, hack) ==
    FoldLeft(LAMBDA r, d : Take(r, s, n, x, c, hack, d),
             [w |-> w, new |-> w.chan[s][c].modes, ops |-> <<>>, badop |-> 0, doesop |-> FALSE, doesdeop |-> FALSE,
              keychange |-> FALSE, limitset |-> FALSE, nolimit |-> FALSE, bounce |-> FALSE,
              out |-> <<>>, back |-> <<>>, hack |-> hack],
             cs)

Act(r, s, c, x) == FoldLeft(LAMBDA v, d : Apply(v, s, c, x, d), r, r.ops)
Judged(r, s, c, x) == Act(Enter(r, s, c, Bounces(r, s, x, c)), s, c, x)

\* set_mode(): hack is for OPMODE.
set_mode(w, s, n, x, c, cs, ts, hack) ==
    Answer(Judged(Judge(ReadModes(w, s, n, x, c, cs, hack), s, x, c, ts, hack), s, c, x), s, n, c, ts)

\* What m_mode() tells the others: a line of a server goes on with the time of
\* the channel, a hack not at all; one of services with time 0 if they opped.
PassOn(r, s, n, x, c, ts) ==
    LET stamped == (x \in Servers /\ (r.badop = 2 \/ ts # NoTime)) \/ x = Services
        age == IF r.badop = 4 THEN 0 ELSE r.w.chan[s][c].ts
    IN IF (r.out = <<>> /\ (ts = NoTime \/ x \in Users)) \/ (stamped /\ r.badop = 2) THEN r.w
       ELSE sendto_match_servs(r.w, s, n, ModeLine(x, c, r.out, IF stamped THEN age ELSE NoTime))

m_mode(w, s, n, x, c, cs, ts) ==
    IF ~Exists(w, s, c) \/ (MyClient(s, x) /\ ~is_chan_op(w, s, c, x)) THEN Spoke(w, s, x)
    ELSE PassOn(set_mode(Spoke(w, s, x), s, n, x, c, cs, ts, FALSE), s, n, x, c, ts)

\* m_opmode(): an operator of the network changes modes as services do.
PassHack(r, s, n, x, c) ==
    IF r.out = <<>> THEN r.w
    ELSE sendto_match_servs(r.w, s, n, [kind |-> "OPMODE", who |-> x, chan |-> c, changes |-> r.out])

m_opmode(w, s, n, x, c, cs) ==
    IF ~Exists(w, s, c) THEN w
    ELSE PassHack(set_mode(Spoke(w, s, x), s, n, x, c, cs, NoTime, TRUE), s, n, x, c)

\* m_mlock()
m_mlock(w, s, n, c, lock) ==
    LET locked == [w.chan[s][c] EXCEPT !.on = lock.on, !.off = lock.off]
    IN IF ~Exists(w, s, c) THEN w
       ELSE sendto_match_servs([w EXCEPT !.chan[s][c] = locked], s, n,
                               [kind |-> "MLOCK", who |-> Services, chan |-> c, lock |-> lock])
-----------------------------------------------------------------------------
(* TOPIC and INVITE *)

\* m_topic(): of two topics that servers bring with their times the older one stays.
m_topic(w, s, n, x, c, text, ts) ==
    LET k == w.chan[s][c]
        dated == ts # 0 /\ x \notin Users
        takes == IF dated THEN k.ttime = 0 \/ ts < k.ttime
                 ELSE x = Services \/ (IsMember(w, s, c, x) /\ ("t" \in k.modes => is_chan_op(w, s, c, x)))
        when == IF ts # 0 /\ (dated \/ n # s) THEN ts ELSE now
    IN IF ~Exists(w, s, c) \/ ~takes THEN w
       ELSE sendto_match_servs([w EXCEPT !.chan[s][c] = [k EXCEPT !.topic = text, !.ttime = when]],
                               s, n, TopicLine(x, c, text, when))

\* MUTANT of add_invite(): a list that is full forgets the channel only.
add_inviteHalf(w, s, c, u) ==
    LET v == del_invite(w, s, c, u)
        room == IF Len(v.invited[u]) < MaxChannels[u] THEN v ELSE [v EXCEPT !.invited[u] = Tail(@)]
    IN [room EXCEPT !.chan[s][c].invites = @ \cup {u}, !.invited[u] = Append(@, c)]

\* add_invite(): a list that is full loses its oldest invitation.
add_invite(w, s, c, u) ==
    LET v == del_invite(w, s, c, u)
        room == IF Len(v.invited[u]) < MaxChannels[u] THEN v ELSE del_invite(v, s, Head(v.invited[u]), u)
    IN [room EXCEPT !.chan[s][c].invites = @ \cup {u}, !.invited[u] = Append(@, c)]

\* m_invite(): goes to the server of the guest, where it counts when the host is
\* an operator there.
m_invite(w, s, x, c, u) ==
    LET host == x = Services \/ is_chan_op(w, s, c, x)
        may == /\ Exists(w, s, c) /\ u \in w.known[s] /\ ~IsMember(w, s, c, u)
               /\ host \/ (IsMember(w, s, c, x) /\ "i" \notin w.chan[s][c].modes)
    IN CASE ~may \/ (Home[u] = s /\ ~host) -> w
         [] may /\ Home[u] = s /\ host -> add_invite(w, s, c, u)
         [] may /\ Home[u] # s -> sendto_one(w, s, From(s, u), <<[kind |-> "INVITE", who |-> x, chan |-> c, guest |-> u]>>)
-----------------------------------------------------------------------------
(* Links *)

\* send_channel_modes() and the topic.
send_channel_modes(k, s, c) ==
    LET With(f) == SetToSeq({Change(TRUE, f, u) : u \in {m \in DOMAIN k.member : f \in k.member[m]}})
        modes == SetToSeq({Change(TRUE, f, "") : f \in k.modes}) \o
                 (IF k.limit > 0 THEN <<Change(TRUE, "l", k.limit)>> ELSE <<>>) \o
                 (IF k.key # "" THEN <<Change(TRUE, "k", k.key)>> ELSE <<>>) \o With("o")
        bans == [b \in DOMAIN k.bans |-> Change(TRUE, "b", k.bans[b])]
    IN (IF k.ts # 0 THEN <<ModeLine(s, c, modes, k.ts)>> ELSE IF modes = <<>> THEN <<>> ELSE <<ModeLine(s, c, modes, NoTime)>>)
       \o (IF bans = <<>> THEN <<>> ELSE <<ModeLine(s, c, bans, NoTime)>>)
       \o (IF With("v") = <<>> THEN <<>> ELSE <<ModeLine(s, c, With("v"), NoTime)>>)
       \o (IF k.ttime = 0 THEN <<>> ELSE <<TopicLine(s, c, k.topic, k.ttime)>>)

\* m_server_estab(): the users and where they are, then the channels.
send_users(w, s) ==
    LET User(u) == <<Line("NICK", u, "")>> \o SetToSeq({Line("JOIN", u, c) : c \in Joined(w, s, u)})
    IN FoldSet(LAMBDA u, ms : ms \o User(u), <<>>, w.known[s])

send_channels(w, s) ==
    FoldSet(LAMBDA c, ms : ms \o send_channel_modes(w.chan[s][c], s, c), <<>>, {c \in Chans : Exists(w, s, c)})

m_server_estab(w, s, n) == sendto_one(w, s, n, send_users(w, s) \o send_channels(w, s))

\* exit_client() for a link: everyone behind it leaves.
exit_client(w, s, n) == FoldSet(LAMBDA u, v : exit_one_client(v, s, n, u), w, {u \in w.known[s] : From(s, u) = n})

m_nick(w, s, n, u) ==
    sendto_match_servs([w EXCEPT !.known[s] = @ \cup {u}, !.ts8[s] = @ \cup {u}], s, n, Line("NICK", u, ""))

\* parse() and the handler of a line from n: one of a user nobody knows, or who
\* is behind another link, is ignored.
handle(w, s, n, m) ==
    LET heard == m.who \in Users => (m.who \in w.known[s] /\ From(s, m.who) = n)
    IN CASE m.kind = "NICK" -> m_nick(w, s, n, m.who)
         [] m.kind = "QUIT" /\ heard -> exit_one_client(w, s, n, m.who)
         [] m.kind = "JOIN" /\ heard -> m_join(w, s, n, m.who, m.chan, "")
         [] m.kind = "JOIN 0" /\ heard -> m_join0(w, s, n, m.who)
         [] m.kind = "PART" /\ heard -> m_part(w, s, n, m.who, m.chan)
         [] m.kind = "KICK" /\ heard -> m_kick(w, s, n, m.who, m.chan, m.victim)
         [] m.kind = "MODE" /\ heard -> m_mode(w, s, n, m.who, m.chan, m.changes, m.ts)
         [] m.kind = "OPMODE" /\ heard -> m_opmode(w, s, n, m.who, m.chan, m.changes)
         [] m.kind = "TOPIC" /\ heard -> m_topic(w, s, n, m.who, m.chan, m.text, m.ts)
         [] m.kind = "INVITE" /\ heard -> m_invite(w, s, m.who, m.chan, m.guest)
         [] m.kind = "MLOCK" /\ heard -> m_mlock(w, s, n, m.chan, m.lock)
         [] m.kind # "NICK" /\ ~heard -> w
-----------------------------------------------------------------------------
\* BOUND: the events of a run and how many of them, until when, in which channels,
\* and the MODE commands, as two words of changes.
Focus(events, most, until, chans, words) ==
    [events |-> events, most |-> most, until |-> until, chans |-> chans, words |-> words]

Quiet == \A p \in Pairs : q[p] = <<>>
Whole == up = Wires

ChannelInit ==
    /\ chan = [s \in Servers |-> [c \in Chans |-> NoChan]]
    /\ invited = [u \in Users |-> <<>>]
    /\ known = [s \in Servers |-> Users]
    /\ ts8 = [s \in Servers |-> {u \in Users : Home[u] # s}]
    /\ up = Wires /\ q = [p \in Pairs |-> <<>>] /\ now = 1 /\ riders = {} /\ mixed = {}
    /\ \E f \in Focuses : left = [events |-> f.most, focus |-> f, calm |-> TRUE, late |-> FALSE]

\* BOUND: no line is on the way for longer than one tick, which is less than Recent.
ChannelTick ==
    /\ now < left.focus.until /\ now' = now + 1 /\ (Quiet \/ ~left.late)
    /\ left' = [left EXCEPT !.late = ~Quiet] /\ UNCHANGED <<chan, invited, known, ts8, up, q, riders, mixed>>

\* Only users who come, and servers that say so, are on the way.
OnlyJoins == \A p \in Pairs : \A m \in Range(q[p]) : m.kind \in {"NICK", "JOIN"} \/ m.who \in Servers

\* An event: calm says that all came when no line was on the way, but JOINs that
\* crossed each other or the lines of a new link.
Event(kind) ==
    /\ left.events > 0 /\ kind \in left.focus.events
    /\ left' = [left EXCEPT !.events = @ - 1, !.calm = @ /\ (Quiet \/ (kind = "join" /\ OnlyJoins))]
    /\ UNCHANGED <<now, up>>

Here(u) == u \in known[Home[u]]

Join(u, c, key) ==
    /\ Event("join") /\ Here(u) /\ UNCHANGED riders
    /\ Becomes(m_join(World, Home[u], Home[u], u, c, key))

Part(u, c) ==
    /\ Event("part") /\ IsMember(World, Home[u], c, u) /\ riders' = riders \ {<<u, c>>}
    /\ Becomes(m_part(World, Home[u], Home[u], u, c))

Join0(u) ==
    /\ Event("join0") /\ Here(u) /\ riders' = riders \ ({u} \X Chans)
    /\ Becomes(m_join0(World, Home[u], Home[u], u))

Quit(u) ==
    /\ Event("quit") /\ Here(u) /\ riders' = riders \ ({u} \X Chans)
    /\ Becomes(exit_one_client(World, Home[u], Home[u], u))

Kick(x, c, u) ==
    /\ Event("kick") /\ Here(x) /\ UNCHANGED riders
    /\ Becomes(m_kick(World, Home[x], Home[x], x, c, u))

\* Whom someone else makes an operator is no rider any more.
Opped(cs) == {d.arg : d \in {e \in Range(cs) : e.add /\ e.mode = "o"}}

\* MODE by a user of a server; only the first word is held against the lock.
Mode(x, c, words) ==
    LET s == Home[x]
        cs == legalize_mode(chan[s][c], words[1]) \o words[2]
    IN /\ Event("mode") /\ IsMember(World, s, c, x)
       /\ riders' = riders \ (Opped(cs) \X {c})
       /\ Becomes(m_mode(World, s, s, x, c, cs, NoTime))

Opmode(x, c, words) ==
    /\ Event("opmode") /\ x \in ModeHackers /\ Here(x) /\ riders' = riders \ (Opped(words[1]) \X {c})
    /\ Becomes(m_opmode(World, Home[x], Home[x], x, c, words[1]))

Topic(x, c, text) ==
    /\ Event("topic") /\ Here(x) /\ UNCHANGED riders
    /\ Becomes(m_topic(World, Home[x], Home[x], x, c, text, 0))

Invite(x, c, u) ==
    /\ Event("invite") /\ Here(x) /\ UNCHANGED riders
    /\ Becomes(m_invite(World, Home[x], x, c, u))

\* What services say comes to ServicesAt by their own link.
ServicesMode(c, words) ==
    /\ Event("services") /\ riders' = riders \ (Opped(words[1]) \X {c})
    /\ Becomes(m_mode(World, ServicesAt, Services, Services, c, words[1], NoTime))

ServicesKick(c, u) ==
    /\ Event("services") /\ UNCHANGED riders
    /\ Becomes(m_kick(World, ServicesAt, Services, Services, c, u))

ServicesLock(c, lock) ==
    /\ Event("services") /\ UNCHANGED riders
    /\ Becomes(m_mlock(World, ServicesAt, Services, c, lock))

\* A link breaks: what was on the way is lost, and each side loses the other's users.
Split(s, n) ==
    LET w == [World EXCEPT !.q[<<s, n>>] = <<>>, !.q[<<n, s>>] = <<>>]
        Cut(v) == [v EXCEPT !.q[<<s, n>>] = <<>>, !.q[<<n, s>>] = <<>>]
    IN /\ left.events > 0 /\ "split" \in left.focus.events /\ {s, n} \in up /\ s # n
       /\ left' = [left EXCEPT !.events = @ - 1, !.calm = @ /\ Quiet]
       /\ up' = up \ {{s, n}} /\ riders' = {} /\ UNCHANGED now
       /\ Becomes(Cut(exit_client(exit_client(w, s, n), n, s)))

\* Operators of a younger channel, when the older one has some.
Riding(s, n) ==
    {r \in Users \X Chans :
        LET a == chan[s][r[2]] b == chan[n][r[2]]
        IN /\ a.ts # 0 /\ a.ts < b.ts /\ have_ops(World, s, r[2]) /\ is_chan_op(World, n, r[2], r[1])}

\* A link is made (server_estab() at both ends, see Net for how).
Link(s, n) ==
    /\ {s, n} \in Wires \ up /\ s # n
    /\ up' = up \cup {{s, n}} /\ UNCHANGED now
    /\ left' = [left EXCEPT !.calm = @ /\ Quiet]
    /\ riders' = IF Quiet THEN Riding(s, n) \cup Riding(n, s) ELSE {}
    /\ Becomes(m_server_estab(m_server_estab(World, s, n), n, s))

Receive(n, s) ==
    /\ <<n, s>> \in Pairs /\ q[<<n, s>>] # <<>>
    /\ Becomes(handle([World EXCEPT !.q[<<n, s>>] = Tail(@)], s, n, Head(q[<<n, s>>])))
    /\ UNCHANGED <<up, now, left, riders>>

ChannelNext ==
    \/ ChannelTick
    \/ \E u \in Users : Join0(u) \/ Quit(u)
    \/ \E s, n \in Servers : Split(s, n) \/ Link(s, n) \/ Receive(n, s)
    \/ \E c \in left.focus.chans, x \in Users :
          \/ Part(x, c) \/ ServicesKick(c, x)
          \/ \E key \in Keys \cup {""} : Join(x, c, key)
          \/ \E u \in Users : Kick(x, c, u) \/ Invite(x, c, u)
          \/ \E words \in left.focus.words : Mode(x, c, words) \/ Opmode(x, c, words)
          \/ \E text \in Texts : Topic(x, c, text)
    \/ \E c \in left.focus.chans, words \in left.focus.words : ServicesMode(c, words)
    \/ \E c \in left.focus.chans, lock \in Locks : ServicesLock(c, lock)

ChannelSpec == ChannelInit /\ [][ChannelNext]_channelVars
-----------------------------------------------------------------------------
(* Properties *)

\* When no line is on the way all servers know the same members, whatever joins,
\* parts, kicks, bounced kicks, quits and splits have crossed (m_kick()).
MembersAgree == Quiet /\ Whole =>
    \A s, n \in Servers : \A c \in Chans : DOMAIN chan[s][c].member = DOMAIN chan[n][c].member

\* If besides JOINs nothing was done while a line was on the way, all servers
\* also agree who is operator or has voice, and on age and bans: whatever was
\* created on both sides of a link, bounced, or judged by its time (set_mode()).
StatusOf(s, c) == [u \in DOMAIN chan[s][c].member |-> chan[s][c].member[u] \cap {"o", "v"}]
AgreeCalm == left.calm /\ Quiet /\ Whole =>
    \A s, n \in Servers : \A c \in Chans :
        /\ StatusOf(s, c) = StatusOf(n, c) /\ chan[s][c].ts = chan[n][c].ts
        /\ Range(chan[s][c].bans) = Range(chan[n][c].bans)

\* Who became an operator of a channel by making it anew behind a broken link is
\* none after the servers are linked again, while the older side has operators.
RidersDeopped == left.calm /\ Quiet /\ Whole =>
    \A r \in riders : \A s \in Servers : ~is_chan_op(World, s, r[2], r[1])

\* The lists of invitations of channels and of their guests are the same: none
\* points to a channel or a user that was freed.
InvitesAgree == \A s \in Servers : \A c \in Chans : \A u \in Users :
    /\ u \in chan[s][c].invites <=> Home[u] = s /\ c \in Range(invited[u])
    /\ u \in chan[s][c].invites => Here(u)

\* The flag that keeps a member quiet follows the bans: it is there only while a
\* ban asks for it, and always when no other ban matches, nor did so beside it when
\* check_bquiet() last looked: then del_banid() may take the flag away, and nobody
\* gives it back when that other ban goes.
QuietFlag == \A s \in Servers : \A c \in Chans : \A u \in DOMAIN chan[s][c].member :
    LET hits == {b \in Range(chan[s][c].bans) : u \in Hits[b]}
        flag == "bquiet" \in chan[s][c].member[u]
    IN /\ flag => hits \cap Quiets # {}
       /\ MyClient(s, u) /\ hits # {} /\ hits \subseteq Quiets /\ <<u, c>> \notin mixed => flag
=============================================================================
