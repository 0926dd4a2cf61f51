--------------------------- MODULE ChanLinkProofs ---------------------------
(***************************************************************************)
(* Theorems about ChanLink: once nothing is under way services know who is *)
(* in a channel, no freed user is left in one, nobody who is not let in    *)
(* stays, and the operators of a guarded channel have the access for it.   *)
(***************************************************************************)
EXTENDS ChanLink, FoldLemmas, SequenceTheorems

\* What a message of the server carries.
LEMMA Fields ==
    ASSUME NEW m \in FromNet
    PROVE  /\ m.user \in Users
           /\ m.type \in {"join", "part", "kick", "op", "deop", "nick", "quit", "join0"}
           /\ m.type \in {"join", "part", "kick", "op", "deop"} =>
                m.chan \in Chans /\ m.by \in Users \cup {"server"}
BY DEF FromNet

\* What a message of services carries.
LEMMA OutFields ==
    ASSUME NEW m \in ToNet
    PROVE  /\ m.chan \in Chans
           /\ m.type \in {"kick", "op", "deop", "csjoin", "cspart"}
           /\ m.type \in {"kick", "op", "deop"} => m.user \in Users /\ m = Msg(m.type, m.chan, m.user)
BY DEF ToNet, Msg

\* The messages the server makes.
LEMMA MakeIn ==
    ASSUME NEW c \in Chans, NEW u \in Users, NEW x \in Users \cup {"server"}
    PROVE  /\ \A t \in {"join", "part", "kick", "op", "deop"} : Told(t, c, u, x) \in FromNet
           /\ \A t \in {"nick", "quit", "join0"} : [type |-> t, user |-> u] \in FromNet
BY DEF Told, FromNet

\* The messages services make.
LEMMA MakeOut ==
    ASSUME NEW c \in Chans, NEW u \in Users
    PROVE  /\ \A t \in {"kick", "op", "deop"} : Msg(t, c, u) \in ToNet
           /\ \A t \in {"csjoin", "cspart"} : [type |-> t, chan |-> c] \in ToNet
BY DEF Msg, ToNet

\* A queue with a message, two, or none behind it.
LEMMA Behind ==
    ASSUME NEW X, NEW q \in Seq(X), NEW x \in X, NEW y \in X
    PROVE  /\ q \o <<x>> = Append(q, x)
           /\ q \o <<x, y>> = Append(Append(q, x), y)
           /\ q \o <<>> = q
           /\ Append(q, x) \in Seq(X)
           /\ Len(Append(q, x)) = Len(q) + 1
           /\ \A i \in 1 .. Len(q) : Append(q, x)[i] = q[i]
           /\ Append(q, x)[Len(q) + 1] = x
OBVIOUS

\* A queue without its head.
LEMMA InFront ==
    ASSUME NEW X, NEW q \in Seq(X), q # <<>>
    PROVE  /\ Head(q) = q[1] /\ Head(q) \in X /\ Len(q) \in Nat /\ Len(q) > 0
           /\ Tail(q) \in Seq(X) /\ Len(Tail(q)) = Len(q) - 1
           /\ \A i \in 1 .. Len(q) - 1 : Tail(q)[i] = q[i + 1]
OBVIOUS

\* Each() queues one message for every one of the users, and nothing else.
LEMMA EachHas ==
    ASSUME NEW t \in {"kick", "op", "deop"}, NEW c \in Chans, NEW us \in SUBSET Users
    PROVE  /\ Each(t, c, us) \in Seq(ToNet)
           /\ \A u \in us : \E i \in 1 .. Len(Each(t, c, us)) : Each(t, c, us)[i] = Msg(t, c, u)
           /\ \A i \in 1 .. Len(Each(t, c, us)) : \E u \in us : Each(t, c, us)[i] = Msg(t, c, u)
<1> DEFINE pick == [T \in SUBSET us |-> CHOOSE u \in T : TRUE]
           All == Seq(ToNet)
           F == [p \in us \X All |-> Append(p[2], Msg(t, c, p[1]))]
           W == [T \in SUBSET us |-> {q \in All :
                   /\ \A u \in T : \E i \in 1 .. Len(q) : q[i] = Msg(t, c, u)
                   /\ \A i \in 1 .. Len(q) : \E u \in us : q[i] = Msg(t, c, u)}]
<1>1. IsFiniteSet(us)
  BY FS_Subset, ChanLinkAssumption
<1>2. Picks(pick, us)
  BY DEF Picks
<1>3. <<>> \in All /\ F \in [us \X All -> All]
  <2>1. ASSUME NEW u \in us, NEW q \in All PROVE Append(q, Msg(t, c, u)) \in All
    <3>1. Msg(t, c, u) \in ToNet
      BY MakeOut
    <3> QED BY <3>1
  <2>2. <<>> \in All
    OBVIOUS
  <2> HIDE DEF All, W, pick
  <2>3. ASSUME NEW p \in us \X All PROVE p[1] \in us /\ p[2] \in All
    OBVIOUS
  <2>4. ASSUME NEW p \in us \X All PROVE Append(p[2], Msg(t, c, p[1])) \in All
    BY <2>1, <2>3
  <2> QED BY <2>2, <2>4
<1> HIDE DEF F, W
<1>4. PICK g \in [SUBSET us -> All] : Folds(g, us, pick, <<>>, F)
  <2> HIDE DEF pick, All
  <2> QED BY <1>1, <1>2, <1>3, FoldExists
<1>5. g = [T \in SUBSET us |-> IF T = {} THEN <<>>
            ELSE Append(g[T \ {CHOOSE x \in T : TRUE}], Msg(t, c, CHOOSE x \in T : TRUE))]
  <2>1. ASSUME NEW T \in SUBSET us, T # {}
        PROVE  F[<<pick[T], g[T \ {pick[T]}]>>] = Append(g[T \ {pick[T]}], Msg(t, c, pick[T]))
    <3>1. <<pick[T], g[T \ {pick[T]}]>> \in us \X All
      BY <1>2, <2>1 DEF Picks
    <3> HIDE DEF pick, All
    <3> QED BY <3>1 DEF F
  <2> QED BY <1>4, <2>1 DEF Folds
<1>6. PICK h : /\ h = [T \in SUBSET us |-> IF T = {} THEN <<>>
                        ELSE Append(h[T \ {CHOOSE x \in T : TRUE}], Msg(t, c, CHOOSE x \in T : TRUE))]
               /\ Each(t, c, us) = h[us]
  BY <1>5 DEF Each, FoldSet, MapThenFoldSet
<1>7. h[{}] \in W[{}]
  BY <1>6 DEF W
<1>8. ASSUME NEW T \in SUBSET us, T # {}, h[T \ {pick[T]}] \in W[T \ {pick[T]}]
      PROVE  h[T] \in W[T]
  <2> DEFINE q == h[T \ {pick[T]}]  v == pick[T]
  <2>1. h[T] = Append(q, Msg(t, c, v)) /\ v \in T
    BY <1>2, <1>6, <1>8 DEF Picks
  <2>2. /\ q \in All
        /\ \A u \in T \ {v} : \E i \in 1 .. Len(q) : q[i] = Msg(t, c, u)
        /\ \A i \in 1 .. Len(q) : \E u \in us : q[i] = Msg(t, c, u)
    BY <1>8 DEF W
  <2> HIDE DEF q, v, pick
  <2>3. Msg(t, c, v) \in ToNet
    BY <2>1, MakeOut
  <2>4. /\ h[T] \in All /\ Len(h[T]) = Len(q) + 1 /\ Len(q) \in Nat
        /\ \A i \in 1 .. Len(q) : h[T][i] = q[i]
        /\ h[T][Len(q) + 1] = Msg(t, c, v)
    BY <2>1, <2>2, <2>3
  <2>5. \A u \in T : \E i \in 1 .. Len(h[T]) : h[T][i] = Msg(t, c, u)
    <3> SUFFICES ASSUME NEW u \in T PROVE \E i \in 1 .. Len(h[T]) : h[T][i] = Msg(t, c, u)
      OBVIOUS
    <3>1. CASE u = v
      BY <2>4, <3>1
    <3>2. CASE u # v
      <4>1. PICK i \in 1 .. Len(q) : q[i] = Msg(t, c, u)
        BY <2>2, <3>2
      <4> QED BY <2>4, <4>1
    <3> QED BY <3>1, <3>2
  <2>6. \A i \in 1 .. Len(h[T]) : \E u \in us : h[T][i] = Msg(t, c, u)
    <3> SUFFICES ASSUME NEW i \in 1 .. Len(h[T]) PROVE \E u \in us : h[T][i] = Msg(t, c, u)
      OBVIOUS
    <3>1. CASE i = Len(q) + 1
      BY <2>1, <2>4, <3>1
    <3>2. CASE i \in 1 .. Len(q)
      BY <2>2, <2>4, <3>2
    <3> QED BY <2>4, <3>1, <3>2
  <2> HIDE DEF All
  <2> QED BY <2>4, <2>5, <2>6 DEF W
<1>9. h[us] \in W[us]
  <2> HIDE DEF pick
  <2> QED BY <1>1, <1>2, <1>7, <1>8, FoldInduct
<1> QED BY <1>6, <1>9 DEF W
-----------------------------------------------------------------------------
(***************************************************************************)
(* The last message of a kind.                                             *)
(***************************************************************************)

\* The last message of q that is in M, if there is one.
LastOf(q, M) ==
    {q[i] : i \in {k \in 1 .. Len(q) : q[k] \in M /\ \A j \in k + 1 .. Len(q) : q[j] \notin M}}

\* The queue before its i-th message.
Pre(q, i) == [j \in 1 .. i - 1 |-> q[j]]

\* A message behind the others is the last of its kind.
LEMMA LastAppend ==
    ASSUME NEW X, NEW q \in Seq(X), NEW m \in X, NEW M
    PROVE  LastOf(Append(q, m), M) = IF m \in M THEN {m} ELSE LastOf(q, M)
<1> DEFINE r == Append(q, m)
           K(s) == {k \in 1 .. Len(s) : s[k] \in M /\ \A j \in k + 1 .. Len(s) : s[j] \notin M}
<1>1. /\ Len(r) = Len(q) + 1 /\ Len(q) \in Nat /\ r[Len(q) + 1] = m
      /\ \A i \in 1 .. Len(q) : r[i] = q[i]
  OBVIOUS
<1> HIDE DEF r
<1>2. CASE m \in M
  <2>1. ASSUME NEW k \in K(r) PROVE k = Len(q) + 1
    <3>1. SUFFICES ASSUME k # Len(q) + 1 PROVE FALSE
      OBVIOUS
    <3>2. Len(q) + 1 \in k + 1 .. Len(r)
      BY <1>1, <3>1
    <3> QED BY <1>1, <1>2, <3>2
  <2>2. Len(q) + 1 \in K(r)
    BY <1>1, <1>2
  <2>3. K(r) = {Len(q) + 1}
    <3> HIDE DEF K
    <3> QED BY <2>1, <2>2
  <2> HIDE DEF K
  <2>4. LastOf(r, M) = {r[i] : i \in K(r)}
    BY DEF LastOf, K
  <2> QED BY <1>1, <1>2, <2>3, <2>4 DEF r
<1>3. CASE m \notin M
  <2>1. ASSUME NEW k \in K(r) PROVE k \in K(q) /\ r[k] = q[k]
    <3>1. k # Len(q) + 1 /\ k \in 1 .. Len(r)
      BY <1>1, <1>3
    <3>2. k \in 1 .. Len(q)
      BY <1>1, <3>1
    <3>3. \A j \in k + 1 .. Len(q) : q[j] \notin M
      <4>1. \A j \in k + 1 .. Len(q) : j \in k + 1 .. Len(r) /\ j \in 1 .. Len(q)
        BY <1>1, <3>2
      <4> QED BY <1>1, <4>1
    <3> QED BY <1>1, <3>2, <3>3
  <2>2. ASSUME NEW k \in K(q) PROVE k \in K(r) /\ r[k] = q[k]
    <3>1. k \in 1 .. Len(q) /\ k \in 1 .. Len(r)
      BY <1>1
    <3>2. \A j \in k + 1 .. Len(r) : r[j] \notin M
      <4>1. \A j \in k + 1 .. Len(r) : j = Len(q) + 1 \/ (j \in k + 1 .. Len(q) /\ j \in 1 .. Len(q))
        BY <1>1, <3>1
      <4> QED BY <1>1, <1>3, <4>1
    <3> QED BY <1>1, <3>1, <3>2
  <2>3. LastOf(r, M) = {r[i] : i \in K(r)} /\ LastOf(q, M) = {q[i] : i \in K(q)}
    BY DEF LastOf
  <2> HIDE DEF K
  <2>4. LastOf(r, M) = LastOf(q, M)
    BY <2>1, <2>2, <2>3
  <2> QED BY <1>3, <2>4 DEF r
<1> QED BY <1>2, <1>3

\* An empty queue has none.
LEMMA LastEmpty == \A M : LastOf(<<>>, M) = {}
<1> SUFFICES ASSUME NEW M PROVE LastOf(<<>>, M) = {}
  OBVIOUS
<1>1. 1 .. Len(<<>>) = {}
  OBVIOUS
<1> QED BY <1>1 DEF LastOf

\* Where there is a message of a kind there is a last one.
LEMMA LastThere ==
    ASSUME NEW X, NEW q \in Seq(X), NEW M, NEW i \in 1 .. Len(q), q[i] \in M
    PROVE  LastOf(q, M) # {}
<1> DEFINE T == {k \in 1 .. Len(q) : q[k] \in M}
<1>1. Len(q) \in Nat /\ T \in SUBSET (1 .. Len(q)) /\ T # {}
  OBVIOUS
<1>2. PICK k \in T : \A j \in T : k >= j
  <2> HIDE DEF T
  <2> QED BY <1>1, NatMax
<1>3. \A j \in k + 1 .. Len(q) : q[j] \notin M
  <2> SUFFICES ASSUME NEW j \in k + 1 .. Len(q), q[j] \in M PROVE FALSE
    OBVIOUS
  <2>1. j \in T /\ ~(k >= j)
    BY <1>1
  <2> QED BY <1>2, <2>1
<1>4. q[k] \in LastOf(q, M)
  BY <1>3 DEF LastOf
<1> QED BY <1>4

\* When the head is taken the last message of a kind stays, if it was not the head.
LEMMA LastTail ==
    ASSUME NEW X, NEW q \in Seq(X), q # <<>>, NEW M
    PROVE  LastOf(q, M) = IF LastOf(Tail(q), M) # {} THEN LastOf(Tail(q), M)
                          ELSE IF Head(q) \in M THEN {Head(q)} ELSE {}
<1> DEFINE t == Tail(q)
           K(s) == {k \in 1 .. Len(s) : s[k] \in M /\ \A j \in k + 1 .. Len(s) : s[j] \notin M}
<1>1. /\ Len(t) = Len(q) - 1 /\ Len(q) \in Nat /\ Len(q) > 0 /\ Head(q) = q[1]
      /\ \A i \in 1 .. Len(q) - 1 : t[i] = q[i + 1]
      /\ t \in Seq(X)
  BY InFront
<1> HIDE DEF t
<1>2. \A i \in 2 .. Len(q) : q[i] = t[i - 1] /\ i - 1 \in 1 .. Len(t)
  <2> SUFFICES ASSUME NEW i \in 2 .. Len(q) PROVE q[i] = t[i - 1] /\ i - 1 \in 1 .. Len(t)
    OBVIOUS
  <2>1. i - 1 \in 1 .. Len(q) - 1
    BY <1>1
  <2> QED BY <1>1, <2>1
<1>3. ASSUME NEW k \in K(t) PROVE k + 1 \in K(q) /\ q[k + 1] = t[k]
  <2>1. k + 1 \in 2 .. Len(q) /\ q[k + 1] = t[k]
    BY <1>1
  <2>2. ASSUME NEW j \in k + 1 + 1 .. Len(q) PROVE q[j] \notin M
    <3>1. j \in 2 .. Len(q) /\ j - 1 \in k + 1 .. Len(t)
      BY <1>1, <2>1
    <3> QED BY <1>2, <3>1
  <2> QED BY <1>1, <2>1, <2>2
<1>4. ASSUME NEW k \in K(q), k > 1 PROVE k - 1 \in K(t) /\ t[k - 1] = q[k]
  <2>1. k \in 2 .. Len(q) /\ k - 1 \in 1 .. Len(t) /\ t[k - 1] = q[k]
    BY <1>1, <1>2, <1>4
  <2>2. ASSUME NEW j \in k - 1 + 1 .. Len(t) PROVE t[j] \notin M
    <3>1. j + 1 \in k + 1 .. Len(q) /\ j \in 1 .. Len(q) - 1
      BY <1>1, <2>1
    <3>2. t[j] = q[j + 1]
      BY <1>1, <3>1
    <3> QED BY <3>1, <3>2
  <2> QED BY <2>1, <2>2
<1>5. LastOf(t, M) = {t[i] : i \in K(t)} /\ LastOf(q, M) = {q[i] : i \in K(q)}
  BY DEF LastOf
<1>6. CASE LastOf(t, M) # {}
  <2>1. PICK l \in K(t) : TRUE
    BY <1>5, <1>6
  <2>2. l + 1 \in 1 + 1 .. Len(q) /\ q[l + 1] \in M
    BY <1>1, <1>3
  <2>3. 1 \notin K(q)
    BY <2>2
  <2>4. \A k \in K(q) : k > 1
    BY <1>1, <2>3
  <2> HIDE DEF K
  <2>5. LastOf(q, M) = LastOf(t, M)
    BY <1>3, <1>4, <1>5, <2>4
  <2> QED BY <1>6, <2>5 DEF t
<1>7. CASE LastOf(t, M) = {}
  <2>1. \A j \in 1 .. Len(t) : t[j] \notin M
    BY <1>1, <1>7, LastThere
  <2>2. \A j \in 2 .. Len(q) : q[j] \notin M
    BY <1>2, <2>1
  <2>3. K(q) = IF Head(q) \in M THEN {1} ELSE {}
    BY <1>1, <2>2
  <2> HIDE DEF K
  <2>4. LastOf(q, M) = IF Head(q) \in M THEN {Head(q)} ELSE {}
    BY <1>1, <1>5, <2>3
  <2> QED BY <1>7, <2>4 DEF t
<1> QED BY <1>6, <1>7
-----------------------------------------------------------------------------
(***************************************************************************)
(* Types.                                                                  *)
(***************************************************************************)

\* The server takes a user out of a channel.
LEMMA GoneTypes ==
    ASSUME TypeOK, NEW c \in Chans, NEW u
    PROVE  /\ NetGone(net[c], u) \in [on : SUBSET Users, ops : SUBSET Users, cs : BOOLEAN]
           /\ NetGone(net[c], u).on = net[c].on \ {u}
           /\ NetGone(net[c], u).ops = net[c].ops \ {u}
           /\ NetGone(net[c], u).cs = net[c].cs
<1> DEFINE n == net[c]
<1>1. n \in [on : SUBSET Users, ops : SUBSET Users, cs : BOOLEAN]
  BY DEF TypeOK
<1> HIDE DEF n
<1> QED BY <1>1 DEF NetGone, n

\* What the users and the operators of the network do.
LEMMA NetUserTypes ==
    ASSUME TypeOK, NetUser
    PROVE  /\ online' \subseteq Users
           /\ net' \in [Chans -> [on : SUBSET Users, ops : SUBSET Users, cs : BOOLEAN]]
           /\ in' \in Seq(FromNet) /\ out' \in Seq(ToNet)
<1>1. /\ online \subseteq Users /\ in \in Seq(FromNet) /\ out \in Seq(ToNet)
      /\ net \in [Chans -> [on : SUBSET Users, ops : SUBSET Users, cs : BOOLEAN]]
  BY DEF TypeOK
<1>2. ASSUME NEW u \in Users, NetSignOn(u) \/ NetQuit(u) \/ NetJoin0(u)
      PROVE  /\ online' \subseteq Users
             /\ net' \in [Chans -> [on : SUBSET Users, ops : SUBSET Users, cs : BOOLEAN]]
             /\ in' \in Seq(FromNet) /\ out' \in Seq(ToNet)
  <2>1. \A t \in {"nick", "quit", "join0"} : [type |-> t, user |-> u] \in FromNet
    BY DEF FromNet
  <2>2. CASE NetSignOn(u)
    BY <1>1, <2>1, <2>2 DEF NetSignOn
  <2>3. CASE NetQuit(u) \/ NetJoin0(u)
    <3>1. net' = [c \in Chans |-> NetGone(net[c], u)] /\ online' \subseteq online /\ out' = out
      BY <2>3 DEF NetQuit, NetJoin0
    <3>2. \E m \in FromNet : in' = Append(in, m)
      BY <2>1, <2>3 DEF NetQuit, NetJoin0
    <3>3. in' \in Seq(FromNet)
      BY <1>1, <3>2
    <3> QED BY <1>1, <3>1, <3>3, GoneTypes
  <2> QED BY <1>2, <2>2, <2>3
<1>3. ASSUME NEW c \in Chans, NEW u \in Users, NEW x \in Users,
             NetJoin(c, u) \/ NetPart(c, u) \/ NetKick(c, x, u) \/ NetMode(c, x, u)
      PROVE  /\ online' \subseteq Users
             /\ net' \in [Chans -> [on : SUBSET Users, ops : SUBSET Users, cs : BOOLEAN]]
             /\ in' \in Seq(FromNet) /\ out' \in Seq(ToNet)
  <2>1. \A t \in {"join", "part", "kick", "op", "deop"} :
           /\ Told(t, c, u, x) \in FromNet /\ Told(t, c, u, u) \in FromNet
           /\ Told(t, c, u, "server") \in FromNet
    BY MakeIn
  <2>2. UNCHANGED <<online, out>>
    BY <1>3 DEF NetJoin, NetPart, NetKick, NetMode
  <2>3. CASE NetJoin(c, u)
    <3>1. net' \in [Chans -> [on : SUBSET Users, ops : SUBSET Users, cs : BOOLEAN]]
      BY <1>1, <2>3 DEF NetJoin
    <3>2. in' \in Seq(FromNet)
      BY <1>1, <2>1, <2>3 DEF NetJoin
    <3> QED BY <1>1, <2>2, <3>1, <3>2
  <2>4. CASE NetPart(c, u)
    <3>1. net' = [net EXCEPT ![c] = NetGone(net[c], u)] /\ in' = Append(in, Told("part", c, u, u))
      BY <2>4 DEF NetPart
    <3> QED BY <1>1, <2>1, <2>2, <3>1, GoneTypes
  <2>5. CASE NetKick(c, x, u)
    <3>1. /\ net' = [net EXCEPT ![c] = NetGone(net[c], u)]
          /\ in' = in \o <<Told("kick", c, u, x), Told("part", c, u, u)>>
      BY <2>5 DEF NetKick
    <3> QED BY <1>1, <2>1, <2>2, <3>1, GoneTypes
  <2>6. CASE NetMode(c, x, u)
    <3>1. net' \in [Chans -> [on : SUBSET Users, ops : SUBSET Users, cs : BOOLEAN]]
      BY <1>1, <2>6 DEF NetMode
    <3>2. \E m \in FromNet : in' = Append(in, m)
      BY <2>1, <2>6 DEF NetMode
    <3>3. in' \in Seq(FromNet)
      BY <1>1, <3>2
    <3> QED BY <1>1, <2>2, <3>1, <3>3
  <2> QED BY <1>3, <2>3, <2>4, <2>5, <2>6
<1>4. CASE \E u \in Users : NetSignOn(u) \/ NetQuit(u) \/ NetJoin0(u)
  BY <1>2, <1>4
<1>5. CASE \E c \in Chans, u \in Users :
              \/ NetJoin(c, u) \/ NetPart(c, u)
              \/ \E x \in Users : NetKick(c, x, u) \/ NetMode(c, x, u)
  BY <1>3, <1>5
<1> QED BY <1>4, <1>5 DEF NetUser

\* The server takes what services sent.
LEMMA NetReceiveTypes ==
    ASSUME TypeOK, NetReceive
    PROVE  /\ online' \subseteq Users
           /\ net' \in [Chans -> [on : SUBSET Users, ops : SUBSET Users, cs : BOOLEAN]]
           /\ in' \in Seq(FromNet) /\ out' \in Seq(ToNet)
<1>1. /\ online \subseteq Users /\ in \in Seq(FromNet) /\ out \in Seq(ToNet)
      /\ net \in [Chans -> [on : SUBSET Users, ops : SUBSET Users, cs : BOOLEAN]]
  BY DEF TypeOK
<1>2. out # <<>> /\ out' = Tail(out) /\ online' = online
  BY DEF NetReceive
<1> DEFINE m == Head(out)
<1>3. m \in ToNet /\ out' \in Seq(ToNet)
  BY <1>1, <1>2
<1>4. /\ m.chan \in Chans
      /\ m.type \in {"kick", "op", "deop"} => m.user \in Users
  <2> HIDE DEF m
  <2> QED BY <1>3, OutFields
<1>5. /\ net' \in [Chans -> [on : SUBSET Users, ops : SUBSET Users, cs : BOOLEAN]]
      /\ in' \in Seq(FromNet)
  <2>1. CASE m.type = "kick" /\ NetKicked(m.chan, m.user)
    <3>1. /\ net' = net \/ net' = [net EXCEPT ![m.chan] = NetGone(net[m.chan], m.user)]
          /\ in' = in \/ in' = Append(in, Told("part", m.chan, m.user, m.user))
      BY <2>1 DEF NetKicked
    <3> HIDE DEF m
    <3>2. Told("part", m.chan, m.user, m.user) \in FromNet
      BY <1>4, <2>1, MakeIn
    <3>3. in' \in Seq(FromNet)
      <4>1. Append(in, Told("part", m.chan, m.user, m.user)) \in Seq(FromNet)
        BY <1>1, <3>2
      <4> QED BY <1>1, <3>1, <4>1
    <3>4. NetGone(net[m.chan], m.user) \in [on : SUBSET Users, ops : SUBSET Users, cs : BOOLEAN]
      BY <1>4, GoneTypes
    <3> QED BY <1>1, <1>4, <3>1, <3>3, <3>4
  <2>2. CASE in' = in /\ m.type = "op" /\ net' = [net EXCEPT ![m.chan].ops = @ \cup ({m.user} \cap net[m.chan].on)]
    <3> HIDE DEF m
    <3> QED BY <1>1, <1>4, <2>2
  <2>3. CASE in' = in /\ m.type = "deop" /\ net' = [net EXCEPT ![m.chan].ops = @ \ {m.user}]
    <3> HIDE DEF m
    <3> QED BY <1>1, <1>4, <2>3
  <2>4. CASE in' = in /\ net' = [net EXCEPT ![m.chan].cs = (m.type = "csjoin")]
    <3> HIDE DEF m
    <3> QED BY <1>1, <1>4, <2>4
  <2> QED BY <2>1, <2>2, <2>3, <2>4 DEF NetReceive
<1> QED BY <1>1, <1>2, <1>3, <1>5

\* The types of what services keep.
ServOK ==
    /\ out \in Seq(ToNet)
    /\ users \subseteq Users
    /\ chan \in [Chans -> [on : SUBSET Users, ops : SUBSET Users]]
    /\ slot \in [Users -> SUBSET Chans]
    /\ ghosted \in [Chans -> BOOLEAN]
    /\ timers \in [Chans -> Nat]

\* A channel as services keep it.
ChanRec == [on : SUBSET Users, ops : SUBSET Users]

\* What services send.
LEMMA OutTypes ==
    ASSUME NEW q \in Seq(ToNet), NEW x \in ToNet, NEW y \in ToNet
    PROVE  Append(q, x) \in Seq(ToNet) /\ q \o <<x, y>> \in Seq(ToNet)
OBVIOUS

\* What a registration says.
LEMMA RuleTypes ==
    ASSUME TypeOK, NEW c \in Chans
    PROVE  rules[c] \in Rule /\ rules[c].reg \in BOOLEAN
<1>1. rules[c] \in Rule
  BY ChanLinkAssumption DEF TypeOK
<1> QED BY <1>1 DEF Rule

\* A user leaves a channel of services.
LEMMA LeaveTypes ==
    ASSUME TypeOK, NEW c \in Chans, NEW gone, Leave(c, gone)
    PROVE  /\ chan' \in [Chans -> [on : SUBSET Users, ops : SUBSET Users]]
           /\ slot' \in [Users -> SUBSET Chans]
<1>1. chan \in [Chans -> [on : SUBSET Users, ops : SUBSET Users]] /\ slot \in [Users -> SUBSET Chans]
  BY DEF TypeOK
<1>2. chan' \in [Chans -> [on : SUBSET Users, ops : SUBSET Users]]
  BY <1>1 DEF Leave
<1>3. slot' \in [Users -> SUBSET Chans]
  BY <1>1 DEF Leave
<1> QED BY <1>2, <1>3

\* A user leaves all of them.
LEMMA RemFromAllTypes ==
    ASSUME TypeOK, NEW u \in Users, RemFromAllChans(u)
    PROVE  /\ chan' \in [Chans -> [on : SUBSET Users, ops : SUBSET Users]]
           /\ slot' \in [Users -> SUBSET Chans]
<1>1. chan \in [Chans -> [on : SUBSET Users, ops : SUBSET Users]] /\ slot \in [Users -> SUBSET Chans]
  BY DEF TypeOK
<1>2. ASSUME NEW c \in Chans
      PROVE  [chan[c] EXCEPT !.on = @ \ {u}, !.ops = @ \ {u}] \in [on : SUBSET Users, ops : SUBSET Users]
  <2>1. chan[c] \in [on : SUBSET Users, ops : SUBSET Users]
    BY <1>1
  <2> QED BY <2>1
<1>3. chan' \in [Chans -> [on : SUBSET Users, ops : SUBSET Users]]
  BY <1>1, <1>2 DEF RemFromAllChans
<1>4. slot' \in [Users -> SUBSET Chans]
  BY <1>1 DEF RemFromAllChans
<1> QED BY <1>3, <1>4

\* ChanServ holds a channel for a while.
LEMMA GhostTypes ==
    ASSUME TypeOK, NEW c \in Chans, Ghost(c)
    PROVE  ghosted' \in [Chans -> BOOLEAN] /\ timers' \in [Chans -> Nat]
<1>1. rules[c].reg \in BOOLEAN /\ ghosted \in [Chans -> BOOLEAN] /\ timers \in [Chans -> Nat]
  BY RuleTypes DEF TypeOK
<1> QED BY <1>1 DEF Ghost

\* addUserToChan()
LEMMA OnJoinTypes ==
    ASSUME TypeOK, NEW c \in Chans, NEW u \in Users, OnJoin(c, u)
    PROVE  out' \in Seq(ToNet) /\ UNCHANGED users => ServOK'
<1> DEFINE opped == rules[c].reg /\ Level(c, u) >= AOP
<1>1. ServOK
  BY DEF TypeOK, ServOK
<1>2. CASE UNCHANGED <<servVars, out>>
  BY <1>1, <1>2 DEF ServOK, servVars
<1>3. CASE Leave(c, {u}) /\ (Ghost(c) \/ UNCHANGED <<ghosted, timers>>)
  BY <1>1, <1>3, LeaveTypes, GhostTypes DEF ServOK
<1>4. CASE Enter(c, u, opped) /\ UNCHANGED <<ghosted, timers>>
  <2>1. chan' = [chan EXCEPT ![c].on = @ \cup {u},
                             ![c].ops = IF opped THEN @ \cup {u} ELSE @]
    BY <1>4 DEF Enter
  <2>2. chan \in [Chans -> ChanRec] /\ chan[c].ops \in SUBSET Users
    BY <1>1 DEF ServOK, ChanRec
  <2> HIDE DEF opped
  <2>3. chan' \in [Chans -> ChanRec]
    BY <2>1, <2>2 DEF ChanRec
  <2>4. slot' \in [Users -> SUBSET Chans]
    BY <1>1, <1>4 DEF Enter, ServOK
  <2> QED BY <1>1, <1>4, <2>3, <2>4 DEF ServOK, ChanRec
<1>5. \/ UNCHANGED <<servVars, out>>
      \/ Leave(c, {u}) /\ (Ghost(c) \/ UNCHANGED <<ghosted, timers>>)
      \/ Enter(c, u, opped) /\ UNCHANGED <<ghosted, timers>>
  <2> HIDE DEF Enter, Leave, Ghost
  <2> QED BY DEF OnJoin
<1> QED BY <1>2, <1>3, <1>4, <1>5

\* What services hear.
LEMMA ReceiveTypes ==
    ASSUME TypeOK, Receive
    PROVE  TypeOK'
<1>1. ServOK /\ in \in Seq(FromNet) /\ in # <<>> /\ in' = Tail(in)
  BY DEF TypeOK, ServOK, Receive
<1> DEFINE m == Head(in)
<1>2. m \in FromNet /\ in' \in Seq(FromNet)
  BY <1>1
<1>3. UNCHANGED <<netVars, rules, changes, before, orderly>>
  BY DEF Receive
<1>4. ServOK'
  <2>1. /\ m.user \in Users
        /\ m.type \in {"join", "part", "kick", "op", "deop"} => m.chan \in Chans
    <3> HIDE DEF m
    <3> QED BY <1>2, Fields
  <2>2. CASE m.type = "join" /\ OnJoin(m.chan, m.user) /\ UNCHANGED users
    <3>1. out' \in Seq(ToNet)
      <4>1. /\ \A t \in {"kick", "op"} : Msg(t, m.chan, m.user) \in ToNet
            /\ GhostJoin(m.chan) \in ToNet
        <5> HIDE DEF m
        <5> QED BY <2>1, <2>2, MakeOut DEF GhostJoin
      <4>2. \/ out' = out \/ out' = Append(out, Msg("op", m.chan, m.user))
            \/ out' = Append(out, Msg("kick", m.chan, m.user))
            \/ out' = out \o <<GhostJoin(m.chan), Msg("kick", m.chan, m.user)>>
        <5> HIDE DEF m
        <5> QED BY <2>2 DEF OnJoin, servVars
      <4>3. out \in Seq(ToNet)
        BY <1>1 DEF ServOK
      <4> HIDE DEF m
      <4>4. Msg("kick", m.chan, m.user) \in ToNet /\ Msg("op", m.chan, m.user) \in ToNet
        BY <4>1
      <4> QED BY <4>1, <4>2, <4>3, <4>4, OutTypes
    <3> HIDE DEF m
    <3> QED BY <2>1, <2>2, <3>1, OnJoinTypes
  <2>3. CASE m.type \in {"part", "kick"} /\ OnPart(m.chan, m.user) /\ UNCHANGED users
    <3> HIDE DEF m
    <3>1. Leave(m.chan, {m.user}) \/ UNCHANGED <<chan, slot>>
      BY <2>3 DEF OnPart
    <3>2. UNCHANGED <<ghosted, timers, out, users>>
      BY <2>3 DEF OnPart
    <3> QED BY <1>1, <2>1, <2>3, <3>1, <3>2, LeaveTypes DEF ServOK
  <2>4. CASE /\ m.type \in {"op", "deop"} /\ UNCHANGED users
             /\ OnOp(m.chan, m.user) \/ OnDeop(m.chan, m.user, m.by)
    <3> HIDE DEF m
    <3>1. UNCHANGED <<slot, ghosted, timers, users>>
      BY <2>4 DEF OnOp, OnDeop
    <3>2. \/ chan' = chan \/ chan' = [chan EXCEPT ![m.chan].ops = @ \cup {m.user}]
          \/ chan' = [chan EXCEPT ![m.chan].ops = @ \ {m.user}]
      <4>1. CASE OnOp(m.chan, m.user)
        BY <4>1 DEF OnOp
      <4>2. CASE OnDeop(m.chan, m.user, m.by)
        BY <4>2 DEF OnDeop
      <4> QED BY <2>4, <4>1, <4>2
    <3>3. chan' \in [Chans -> ChanRec]
      <4>1. chan \in [Chans -> ChanRec] /\ m.chan \in Chans /\ m.user \in Users
        BY <1>1, <2>1, <2>4 DEF ServOK, ChanRec
      <4>2. CASE chan' = [chan EXCEPT ![m.chan].ops = @ \cup {m.user}]
        BY <4>1, <4>2 DEF ChanRec
      <4>3. CASE chan' = [chan EXCEPT ![m.chan].ops = @ \ {m.user}]
        BY <4>1, <4>3 DEF ChanRec
      <4> QED BY <3>2, <4>1, <4>2, <4>3
    <3>4. \A t \in {"op", "deop"} : Msg(t, m.chan, m.user) \in ToNet
      BY <2>1, <2>4, MakeOut
    <3>5. \/ out' = out \/ out' = Append(out, Msg("op", m.chan, m.user))
          \/ out' = Append(out, Msg("deop", m.chan, m.user))
      <4>1. CASE OnOp(m.chan, m.user)
        BY <4>1 DEF OnOp
      <4>2. CASE OnDeop(m.chan, m.user, m.by)
        BY <4>2 DEF OnDeop
      <4> QED BY <2>4, <4>1, <4>2
    <3>6. out' \in Seq(ToNet)
      <4>1. out \in Seq(ToNet)
        BY <1>1 DEF ServOK
      <4>2. Msg("op", m.chan, m.user) \in ToNet /\ Msg("deop", m.chan, m.user) \in ToNet
        BY <3>4
      <4> QED BY <3>5, <4>1, <4>2, OutTypes
    <3> QED BY <1>1, <3>1, <3>3, <3>6 DEF ServOK, ChanRec
  <2>5. CASE /\ RemFromAllChans(m.user) /\ UNCHANGED <<ghosted, timers, out>>
             /\ users' = users \/ users' = users \ {m.user}
    <3> HIDE DEF m
    <3> QED BY <1>1, <2>1, <2>5, RemFromAllTypes DEF ServOK
  <2>6. CASE users' = users \cup {m.user} /\ UNCHANGED <<chan, slot, ghosted, timers, out>>
    <3> HIDE DEF m
    <3> QED BY <1>1, <2>1, <2>6 DEF ServOK
  <2> QED BY <2>2, <2>3, <2>4, <2>5, <2>6 DEF Receive
<1> QED BY <1>2, <1>3, <1>4 DEF TypeOK, ServOK, netVars

\* The commands, the timers of the ghosts, and a change of the registration.
LEMMA CommandTypes ==
    ASSUME TypeOK, Commands \/ \E c \in Chans : EndGhost(c) \/ Change(c)
    PROVE  TypeOK'
<1>1. ServOK
  BY DEF TypeOK, ServOK
<1>2. ASSUME NEW c \in Chans, NEW x \in Users, NEW u \in Users, Op(c, x, u) \/ Deop(c, x, u)
      PROVE  TypeOK'
  <2>1. UNCHANGED <<netVars, in, users, slot, ghosted, timers, rules, changes, before, orderly>>
    BY <1>2 DEF Op, Deop
  <2>2. \E y \in ToNet : out' = Append(out, y)
    <3>1. \A t \in {"op", "deop"} : Msg(t, c, u) \in ToNet
      BY MakeOut
    <3>2. out' = Append(out, Msg("op", c, u)) \/ out' = Append(out, Msg("deop", c, u))
      BY <1>2 DEF Op, Deop
    <3> QED BY <3>1, <3>2
  <2>3. out' \in Seq(ToNet)
    BY <1>1, <2>2, Behind DEF ServOK
  <2>4. \/ chan' = [chan EXCEPT ![c].ops = @ \cup {u}]
        \/ chan' = [chan EXCEPT ![c].ops = @ \ {u}]
    BY <1>2 DEF Op, Deop
  <2>5. chan' \in [Chans -> ChanRec]
    <3>1. chan \in [Chans -> ChanRec]
      BY <1>1 DEF ServOK, ChanRec
    <3>2. CASE chan' = [chan EXCEPT ![c].ops = @ \cup {u}]
      BY <3>1, <3>2 DEF ChanRec
    <3>3. CASE chan' = [chan EXCEPT ![c].ops = @ \ {u}]
      BY <3>1, <3>3 DEF ChanRec
    <3> QED BY <2>4, <3>1, <3>2, <3>3
  <2> QED BY <2>1, <2>3, <2>5 DEF TypeOK, netVars, ChanRec
<1>3. ASSUME NEW c \in Chans, NEW x \in Users, Mdeop(c, x) PROVE TypeOK'
  <2> DEFINE deopped == {u \in chan[c].on : Level(c, u) < Level(c, x)}
  <2>1. UNCHANGED <<netVars, in, users, slot, ghosted, timers, rules, changes, before, orderly>>
    BY <1>3 DEF Mdeop
  <2>2. out' = out \o Each("deop", c, deopped) /\ chan' = [chan EXCEPT ![c].ops = @ \ deopped]
    BY <1>3 DEF Mdeop
  <2>3. deopped \in SUBSET Users
    BY <1>1 DEF ServOK
  <2> HIDE DEF deopped
  <2>4. Each("deop", c, deopped) \in Seq(ToNet)
    BY <2>3, EachHas
  <2>5. out' \in Seq(ToNet)
    BY <1>1, <2>2, <2>4 DEF ServOK
  <2>6. chan' \in [Chans -> [on : SUBSET Users, ops : SUBSET Users]]
    BY <1>1, <2>2 DEF ServOK
  <2> QED BY <2>1, <2>5, <2>6 DEF TypeOK, netVars
<1>4. ASSUME NEW c \in Chans, NEW x \in Users, Mkick(c, x) PROVE TypeOK'
  <2>1. UNCHANGED <<netVars, in, users, rules, changes, before, orderly>>
    BY <1>4 DEF Mkick
  <2>2. /\ out' = Append(out, GhostJoin(c)) \o Each("kick", c, chan[c].on)
        /\ Ghost(c) /\ Leave(c, chan[c].on)
    BY <1>4 DEF Mkick
  <2>3. chan[c].on \in SUBSET Users /\ GhostJoin(c) \in ToNet
    BY <1>1, MakeOut DEF ServOK, GhostJoin
  <2>4. Each("kick", c, chan[c].on) \in Seq(ToNet)
    BY <2>3, EachHas
  <2>5. out' \in Seq(ToNet)
    BY <1>1, <2>2, <2>3, <2>4 DEF ServOK
  <2> QED BY <2>1, <2>2, <2>5, LeaveTypes, GhostTypes DEF TypeOK, netVars
<1>5. ASSUME NEW c \in Chans, EndGhost(c) PROVE TypeOK'
  <2>1. UNCHANGED <<netVars, in, users, chan, slot, rules, changes, before, orderly>>
    BY <1>5 DEF EndGhost
  <2>2. \E y \in ToNet : out' = Append(out, y)
    BY <1>5, MakeOut DEF EndGhost, ToNet
  <2>3. out' \in Seq(ToNet)
    BY <1>1, <2>2, Behind DEF ServOK
  <2>4. ghosted' \in [Chans -> BOOLEAN] /\ timers' \in [Chans -> Nat]
    BY <1>1, <1>5 DEF ServOK, EndGhost
  <2> QED BY <2>1, <2>3, <2>4 DEF TypeOK, netVars
<1>6. ASSUME NEW c \in Chans, Change(c) PROVE TypeOK'
  <2>1. UNCHANGED <<online, net, in, out, users, chan, slot, timers, orderly>>
    BY <1>6 DEF Change
  <2>2. PICK r \in Rules : rules' = [rules EXCEPT ![c] = r]
    BY <1>6 DEF Change
  <2>3. rules' \in [Chans -> Rules] /\ rules'[c] = r /\ r.reg \in BOOLEAN
    BY <2>2, ChanLinkAssumption DEF TypeOK, Rule
  <2>4. ghosted' \in [Chans -> BOOLEAN]
    <3>1. ghosted' = [ghosted EXCEPT ![c] = ghosted[c] /\ rules'[c].reg]
      BY <1>6 DEF Change
    <3>2. (ghosted[c] /\ rules'[c].reg) \in BOOLEAN
      OBVIOUS
    <3> QED BY <1>1, <3>1, <3>2 DEF ServOK
  <2>5. changes' \in 0 .. MaxChanges
    BY <1>6, ChanLinkAssumption DEF Change, TypeOK
  <2>6. before' \in [Chans -> SUBSET Users]
    BY <1>6 DEF Change, TypeOK
  <2> QED BY <2>1, <2>3, <2>4, <2>5, <2>6 DEF TypeOK
<1> QED BY <1>2, <1>3, <1>4, <1>5, <1>6 DEF Commands

\* Every variable of the two ends of the link keeps its type.
THEOREM TypeCorrect == Spec => []TypeOK
<1>1. Init => TypeOK
  BY ChanLinkAssumption DEF Init, TypeOK
<1>2. TypeOK /\ [Next]_vars => TypeOK'
  <2> SUFFICES ASSUME TypeOK, [Next]_vars PROVE TypeOK'
    OBVIOUS
  <2>1. CASE UNCHANGED vars
    BY <2>1 DEF vars, TypeOK
  <2>2. CASE NetUser /\ UNCHANGED <<servVars, rules, changes, before, orderly>>
    BY <2>2, NetUserTypes DEF TypeOK, servVars
  <2>3. CASE NetReceive /\ UNCHANGED <<servVars, rules, changes, before, orderly>>
    BY <2>3, NetReceiveTypes DEF TypeOK, servVars
  <2> QED BY <2>1, <2>2, <2>3, ReceiveTypes, CommandTypes DEF Next
<1> QED BY <1>1, <1>2, PTL DEF Spec
-----------------------------------------------------------------------------
(***************************************************************************)
(* What the server says is what it did: each of its steps sends no more    *)
(* than two messages, and they tell who is online and who is where.        *)
(***************************************************************************)

\* The messages that say whether u is online, and whether u is in c.
SignOf(u) == {m \in FromNet : m.type \in {"nick", "quit"} /\ m.user = u}
AboutOf(c, u) ==
    {m \in FromNet : \/ m.type \in {"join", "part", "kick"} /\ m.chan = c /\ m.user = u
                     \/ m.type \in {"join0", "quit"} /\ m.user = u}

\* With the message m the server goes from the clients o to the clients p, and
\* from the channels n to the channels k.
SaysSign(m, o, p) ==
    \A u \in Users : u \in p <=> IF m \in SignOf(u) THEN m.type = "nick" ELSE u \in o
SaysPlace(m, n, k) ==
    \A u \in Users, c \in Chans :
        u \in k[c].on <=> IF m \in AboutOf(c, u) THEN m.type = "join" ELSE u \in n[c].on
Says(m, n, o, k, p) ==
    /\ m.type = "join" => m.user \in o
    /\ SaysSign(m, o, p)
    /\ SaysPlace(m, n, k)

\* A step of the server that says nothing changes nobody's place.
Silent(n, o, k, p) == p = o /\ \A c \in Chans : k[c].on = n[c].on

\* What the server's step sends.
Sends ==
    \/ in' = in /\ Silent(net, online, net', online')
    \/ \E m \in FromNet : in' = Append(in, m) /\ Says(m, net, online, net', online')
    \/ \E l, m \in FromNet :
          /\ in' = Append(Append(in, l), m)
          /\ Says(l, net, online, net', online') /\ Says(m, net', online', net', online')

\* Members and operators of the server's channels are online.
NetInv == \A c \in Chans : net[c].ops \subseteq net[c].on /\ net[c].on \subseteq online

\* A user is taken out of one channel.
LEMMA SaysGone ==
    ASSUME TypeOK, NEW c \in Chans, NEW u \in Users, NEW x \in Users, NEW t \in {"part", "kick"},
           net' = [net EXCEPT ![c] = NetGone(net[c], u)], online' = online
    PROVE  /\ Says(Told(t, c, u, x), net, online, net', online')
           /\ Says(Told(t, c, u, x), net', online', net', online')
           /\ Told(t, c, u, x) \in FromNet
<1> DEFINE m == Told(t, c, u, x)
<1>1. m \in FromNet
  BY MakeIn
<1>2. m.type = t /\ m.chan = c /\ m.user = u
  BY DEF Told
<1>3. \A d \in Chans : net'[d].on = IF d = c THEN net[d].on \ {u} ELSE net[d].on
  <2>1. NetGone(net[c], u).on = net[c].on \ {u}
    BY GoneTypes
  <2> QED BY <2>1 DEF TypeOK
<1>4. \A v \in Users : m \notin SignOf(v)
  BY <1>2 DEF SignOf
<1>5. \A v \in Users, d \in Chans : m \in AboutOf(d, v) <=> d = c /\ v = u
  BY <1>1, <1>2 DEF AboutOf
<1> HIDE DEF m
<1>6. m.type # "join"
  BY <1>2
<1>7. SaysSign(m, online, online')
  BY <1>4 DEF SaysSign
<1>8. SaysPlace(m, net, net') /\ SaysPlace(m, net', net')
  <2>1. ASSUME NEW v \in Users, NEW d \in Chans
        PROVE  /\ v \in net'[d].on <=> IF m \in AboutOf(d, v) THEN m.type = "join" ELSE v \in net[d].on
               /\ v \in net'[d].on <=> IF m \in AboutOf(d, v) THEN m.type = "join" ELSE v \in net'[d].on
    <3>1. m \in AboutOf(d, v) <=> d = c /\ v = u
      BY <1>5
    <3>2. net'[d].on = IF d = c THEN net[d].on \ {u} ELSE net[d].on
      BY <1>3
    <3>3. v \in net'[d].on <=> v \in net[d].on /\ ~(d = c /\ v = u)
      BY <3>2
    <3> QED BY <1>6, <3>1, <3>3
  <2> QED BY <2>1 DEF SaysPlace
<1>9. Says(m, net, online, net', online')
  BY <1>6, <1>7, <1>8 DEF Says
<1>10. Says(m, net', online', net', online')
  BY <1>6, <1>7, <1>8 DEF Says
<1> QED BY <1>1, <1>9, <1>10 DEF m

\* Each step of the server sends what it does.
LEMMA ServerSays ==
    ASSUME TypeOK, NetUser \/ NetReceive
    PROVE  Sends
<1>1. /\ online \subseteq Users /\ in \in Seq(FromNet) /\ out \in Seq(ToNet)
      /\ net \in [Chans -> [on : SUBSET Users, ops : SUBSET Users, cs : BOOLEAN]]
  BY DEF TypeOK
<1>2. ASSUME NEW u \in Users, NetSignOn(u) \/ NetQuit(u) \/ NetJoin0(u) PROVE Sends
  <2>1. PICK t \in {"nick", "quit", "join0"} :
          /\ in' = Append(in, [type |-> t, user |-> u])
          /\ online' = IF t = "nick" THEN online \cup {u}
                       ELSE IF t = "quit" THEN online \ {u} ELSE online
          /\ t = "nick" => net' = net
          /\ t # "nick" => net' = [c \in Chans |-> NetGone(net[c], u)]
    <3>1. CASE NetSignOn(u)
      BY <3>1 DEF NetSignOn
    <3>2. CASE NetQuit(u)
      BY <3>2 DEF NetQuit
    <3>3. CASE NetJoin0(u)
      BY <3>3 DEF NetJoin0
    <3> QED BY <1>2, <3>1, <3>2, <3>3
  <2> DEFINE m == [type |-> t, user |-> u]
  <2>2. m \in FromNet
    BY DEF FromNet
  <2>3. m.type = t /\ m.user = u
    OBVIOUS
  <2>4. \A v \in Users : m \in SignOf(v) <=> t # "join0" /\ v = u
    BY <2>2 DEF SignOf
  <2>5. \A v \in Users, c \in Chans : m \in AboutOf(c, v) <=> t # "nick" /\ v = u
    BY <2>2 DEF AboutOf
  <2>6. \A c \in Chans : net'[c].on = IF t = "nick" THEN net[c].on ELSE net[c].on \ {u}
    BY <2>1, GoneTypes
  <2>7. Says(m, net, online, net', online')
    <3>1. m.type # "join"
      BY <2>3
    <3> HIDE DEF m
    <3>2. SaysSign(m, online, online')
      BY <2>1, <2>3, <2>4 DEF SaysSign
    <3>3. SaysPlace(m, net, net')
      BY <2>3, <2>5, <2>6, <3>1 DEF SaysPlace
    <3> QED BY <3>1, <3>2, <3>3 DEF Says
  <2>8. in' = Append(in, m)
    BY <2>1
  <2> HIDE DEF m
  <2> QED BY <2>2, <2>7, <2>8 DEF Sends
<1>3. ASSUME NEW c \in Chans, NEW u \in Users, NetJoin(c, u) PROVE Sends
  <2> DEFINE j == Told("join", c, u, u)
             o == Told("op", c, u, "server")
  <2>1. j \in FromNet /\ o \in FromNet
    BY MakeIn
  <2>2. j.type = "join" /\ j.chan = c /\ j.user = u /\ o.type = "op"
    BY DEF Told
  <2>3. /\ u \in online /\ online' = online
        /\ in' = in \o <<j>> \o <<o>> \/ in' = in \o <<j>> \o <<>>
    BY <1>3 DEF NetJoin
  <2>4. \A d \in Chans : net'[d].on = IF d = c THEN net[d].on \cup {u} ELSE net[d].on
    BY <1>1, <1>3 DEF NetJoin
  <2> HIDE DEF j, o
  <2>5. Says(j, net, online, net', online')
    <3>1. \A v \in Users : j \notin SignOf(v)
      BY <2>2 DEF SignOf
    <3>2. \A v \in Users, d \in Chans : j \in AboutOf(d, v) <=> d = c /\ v = u
      BY <2>1, <2>2 DEF AboutOf
    <3>3. SaysSign(j, online, online')
      BY <2>3, <3>1 DEF SaysSign
    <3>4. SaysPlace(j, net, net')
      <4>1. ASSUME NEW v \in Users, NEW d \in Chans
            PROVE  v \in net'[d].on <=>
                     IF j \in AboutOf(d, v) THEN j.type = "join" ELSE v \in net[d].on
        <5>1. net'[d].on = IF d = c THEN net[d].on \cup {u} ELSE net[d].on
          BY <2>4
        <5> QED BY <2>2, <3>2, <5>1
      <4> QED BY <4>1 DEF SaysPlace
    <3> QED BY <2>2, <2>3, <3>3, <3>4 DEF Says
  <2>6. Says(o, net', online', net', online')
    <3>1. \A v \in Users : o \notin SignOf(v)
      BY <2>2 DEF SignOf
    <3>2. \A v \in Users, d \in Chans : o \notin AboutOf(d, v)
      BY <2>2 DEF AboutOf
    <3>3. SaysSign(o, online', online')
      BY <3>1 DEF SaysSign
    <3>4. SaysPlace(o, net', net')
      BY <3>2 DEF SaysPlace
    <3> QED BY <2>2, <3>3, <3>4 DEF Says
  <2>7. in' = Append(Append(in, j), o) \/ in' = Append(in, j)
    <3>1. in \o <<j>> = Append(in, j) /\ Append(in, j) \in Seq(FromNet)
      BY <1>1, <2>1
    <3>2. Append(in, j) \o <<o>> = Append(Append(in, j), o) /\ Append(in, j) \o <<>> = Append(in, j)
      BY <2>1, <3>1
    <3> QED BY <2>3, <3>1, <3>2
  <2> QED BY <2>1, <2>5, <2>6, <2>7 DEF Sends
<1>4. ASSUME NEW c \in Chans, NEW u \in Users, NetPart(c, u) PROVE Sends
  <2>1. /\ net' = [net EXCEPT ![c] = NetGone(net[c], u)] /\ online' = online
        /\ in' = Append(in, Told("part", c, u, u))
    BY <1>4 DEF NetPart
  <2> QED BY <2>1, SaysGone DEF Sends
<1>5. ASSUME NEW c \in Chans, NEW u \in Users, NEW x \in Users, NetKick(c, x, u) PROVE Sends
  <2> DEFINE l == Told("kick", c, u, x)
             m == Told("part", c, u, u)
  <2>1. /\ net' = [net EXCEPT ![c] = NetGone(net[c], u)] /\ online' = online
        /\ in' = in \o <<l, m>>
    BY <1>5 DEF NetKick
  <2>2. /\ Says(l, net, online, net', online') /\ l \in FromNet
        /\ Says(m, net', online', net', online') /\ m \in FromNet
    BY <2>1, SaysGone
  <2> HIDE DEF l, m
  <2>3. in' = Append(Append(in, l), m)
    BY <1>1, <2>1, <2>2
  <2> QED BY <2>2, <2>3 DEF Sends
<1>6. ASSUME NEW c \in Chans, NEW u \in Users, NEW x \in Users, NetMode(c, x, u) PROVE Sends
  <2>1. PICK t \in {"op", "deop"} : in' = Append(in, Told(t, c, u, x))
    BY <1>6 DEF NetMode
  <2> DEFINE m == Told(t, c, u, x)
  <2>2. m \in FromNet /\ m.type = t
    BY MakeIn DEF Told
  <2>3. online' = online /\ \A d \in Chans : net'[d].on = net[d].on
    <3>1. \E W \in SUBSET Users : net' = [net EXCEPT ![c].ops = W]
      BY <1>1, <1>6 DEF NetMode
    <3>2. PICK W \in SUBSET Users : net' = [net EXCEPT ![c].ops = W]
      BY <3>1
    <3>3. \A d \in Chans : net'[d].on = net[d].on
      BY <1>1, <3>2
    <3> QED BY <1>6, <3>3 DEF NetMode
  <2>4. in' = Append(in, m)
    BY <2>1
  <2> HIDE DEF m
  <2>5. Says(m, net, online, net', online')
    <3>1. \A v \in Users : m \notin SignOf(v)
      BY <2>2 DEF SignOf
    <3>2. \A v \in Users, d \in Chans : m \notin AboutOf(d, v)
      BY <2>2 DEF AboutOf
    <3>3. SaysSign(m, online, online')
      BY <2>3, <3>1 DEF SaysSign
    <3>4. SaysPlace(m, net, net')
      BY <2>3, <3>2 DEF SaysPlace
    <3>5. m.type # "join"
      BY <2>2
    <3> QED BY <3>3, <3>4, <3>5 DEF Says
  <2> QED BY <2>2, <2>4, <2>5 DEF Sends
<1>7. ASSUME NetReceive PROVE Sends
  <2> DEFINE m == Head(out)
  <2>1. m \in ToNet /\ online' = online
    BY <1>1, <1>7 DEF NetReceive
  <2>2. m.chan \in Chans /\ (m.type = "kick" => m.user \in Users)
    <3> HIDE DEF m
    <3> QED BY <2>1, OutFields
  <2>3. CASE m.type = "kick" /\ NetKicked(m.chan, m.user)
    <3> HIDE DEF m
    <3>1. \/ /\ net' = [net EXCEPT ![m.chan] = NetGone(net[m.chan], m.user)]
             /\ in' = Append(in, Told("part", m.chan, m.user, m.user))
          \/ UNCHANGED <<net, in>>
      BY <2>3 DEF NetKicked
    <3>2. CASE UNCHANGED <<net, in>>
      BY <2>1, <3>2 DEF Sends, Silent
    <3> QED BY <2>1, <2>2, <2>3, <3>1, <3>2, SaysGone DEF Sends
  <2>4. CASE in' = in /\ \A d \in Chans : net'[d].on = net[d].on
    BY <2>1, <2>4 DEF Sends, Silent
  <2>5. CASE in' = in /\ net' = [net EXCEPT ![m.chan].ops = @ \cup ({m.user} \cap net[m.chan].on)]
    <3> HIDE DEF m
    <3> QED BY <1>1, <2>2, <2>4, <2>5
  <2>6. CASE in' = in /\ net' = [net EXCEPT ![m.chan].ops = @ \ {m.user}]
    <3> HIDE DEF m
    <3> QED BY <1>1, <2>2, <2>4, <2>6
  <2>7. CASE in' = in /\ net' = [net EXCEPT ![m.chan].cs = (m.type = "csjoin")]
    <3> HIDE DEF m
    <3> QED BY <1>1, <2>2, <2>4, <2>7
  <2> QED BY <1>7, <2>3, <2>5, <2>6, <2>7 DEF NetReceive
<1> QED BY <1>2, <1>3, <1>4, <1>5, <1>6, <1>7 DEF NetUser
-----------------------------------------------------------------------------
(***************************************************************************)
(* Who signed on.                                                          *)
(***************************************************************************)

\* Services know u after the messages of q, if they know the users us now.
Known(q, us, u) ==
    LET L == LastOf(q, SignOf(u)) IN (L = {} /\ u \in us) \/ \E m \in L : m.type = "nick"

\* What services are told of the users o: with all of q they know just these, and
\* a user that joins they know before they are told of the JOIN.
KnowAll(q, us, o) ==
    /\ \A u \in Users : Known(q, us, u) <=> u \in o
    /\ \A i \in 1 .. Len(q) : q[i].type = "join" => Known(Pre(q, i), us, q[i].user)

KnowInv == KnowAll(in, users, online)

\* A message behind the queue decides whether services will know its user.
LEMMA KnownAppend ==
    ASSUME NEW q \in Seq(FromNet), NEW m \in FromNet, NEW us, NEW u
    PROVE  Known(Append(q, m), us, u) <=>
             IF m \in SignOf(u) THEN m.type = "nick" ELSE Known(q, us, u)
BY LastAppend DEF Known

\* A message of sign-on or sign-off at the head is taken over by the users known.
LEMMA KnownTail ==
    ASSUME NEW q \in Seq(FromNet), q # <<>>, NEW us, NEW vs, NEW u,
           u \in vs <=> IF Head(q) \in SignOf(u) THEN Head(q).type = "nick" ELSE u \in us
    PROVE  Known(Tail(q), vs, u) <=> Known(q, us, u)
<1> DEFINE S == SignOf(u)  t == Tail(q)  m == Head(q)
<1> SUFFICES Known(t, vs, u) <=> Known(q, us, u)
  OBVIOUS
<1>1. LastOf(q, S) = IF LastOf(t, S) # {} THEN LastOf(t, S) ELSE IF m \in S THEN {m} ELSE {}
  BY LastTail
<1>2. Known(t, vs, u) <=> (LastOf(t, S) = {} /\ u \in vs) \/ \E l \in LastOf(t, S) : l.type = "nick"
  BY DEF Known
<1>3. Known(q, us, u) <=> (LastOf(q, S) = {} /\ u \in us) \/ \E l \in LastOf(q, S) : l.type = "nick"
  BY DEF Known
<1>4. u \in vs <=> IF m \in S THEN m.type = "nick" ELSE u \in us
  OBVIOUS
<1> HIDE DEF S, t, m
<1>5. CASE LastOf(t, S) # {}
  <2>1. LastOf(q, S) = LastOf(t, S)
    BY <1>1, <1>5
  <2> QED BY <1>2, <1>3, <1>5, <2>1, Zenon
<1>6. CASE LastOf(t, S) = {} /\ m \in S
  <2>1. LastOf(q, S) = {m}
    BY <1>1, <1>6
  <2>2. Known(q, us, u) <=> m.type = "nick"
    BY <1>3, <2>1
  <2>3. Known(t, vs, u) <=> u \in vs
    BY <1>2, <1>6
  <2> QED BY <1>4, <1>6, <2>2, <2>3
<1>7. CASE LastOf(t, S) = {} /\ m \notin S
  <2>1. LastOf(q, S) = {}
    BY <1>1, <1>7
  <2>2. Known(q, us, u) <=> u \in us
    BY <1>3, <2>1
  <2>3. Known(t, vs, u) <=> u \in vs
    BY <1>2, <1>7
  <2> QED BY <1>4, <1>7, <2>2, <2>3
<1> QED BY <1>5, <1>6, <1>7

\* The messages before one of a queue that gets longer, and that loses its head.
LEMMA PreAppend ==
    ASSUME NEW X, NEW q \in Seq(X), NEW m \in X
    PROVE  /\ \A i \in 1 .. Len(q) : Pre(Append(q, m), i) = Pre(q, i)
           /\ Pre(Append(q, m), Len(q) + 1) = q
<1> DEFINE r == Append(q, m)
<1>1. Len(q) \in Nat /\ \A i \in 1 .. Len(q) : r[i] = q[i]
  OBVIOUS
<1>2. q = [j \in 1 .. Len(q) |-> q[j]]
  OBVIOUS
<1> HIDE DEF r
<1>3. \A i \in 1 .. Len(q) : Pre(r, i) = Pre(q, i)
  BY <1>1 DEF Pre
<1>4. Pre(r, Len(q) + 1) = q
  <2>1. Len(q) + 1 - 1 = Len(q)
    BY <1>1
  <2> QED BY <1>1, <1>2, <2>1 DEF Pre
<1> QED BY <1>3, <1>4 DEF r

\* What is in front of a message, once the head of the queue is read.
LEMMA PreTail ==
    ASSUME NEW X, NEW q \in Seq(X), q # <<>>, NEW i \in 1 .. Len(Tail(q))
    PROVE  /\ Pre(q, i + 1) \in Seq(X) /\ Pre(q, i + 1) # <<>>
           /\ Head(Pre(q, i + 1)) = Head(q)
           /\ Tail(Pre(q, i + 1)) = Pre(Tail(q), i)
<1> DEFINE p == Pre(q, i + 1)  t == Tail(q)
<1>1. /\ Len(q) \in Nat /\ Len(t) = Len(q) - 1 /\ Head(q) = q[1]
      /\ \A j \in 1 .. Len(q) - 1 : t[j] = q[j + 1]
      /\ i \in Nat /\ 1 <= i /\ i < Len(q)
  BY InFront
<1> HIDE DEF t
<1>2. p = [j \in 1 .. i |-> q[j]]
  BY <1>1 DEF Pre
<1>3. \A j \in 1 .. i : q[j] \in X
  BY <1>1
<1> HIDE DEF p
<1>4. p \in Seq(X) /\ Len(p) = i /\ p # <<>> /\ p[1] = q[1]
  <2>1. i \in Nat /\ i >= 1 /\ \A j \in 1 .. i : q[j] \in X
    BY <1>1, <1>3
  <2>2. [j \in 1 .. i |-> q[j]] \in Seq(X)
    BY <2>1
  <2>3. Len([j \in 1 .. i |-> q[j]]) = i
    BY <2>1
  <2> QED BY <1>2, <2>1, <2>2, <2>3
<1>5. Head(p) = q[1] /\ Tail(p) = [j \in 1 .. i - 1 |-> p[j + 1]]
  <2>1. Head(p) = p[1]
    BY <1>4
  <2>2. Tail(p) \in Seq(X) /\ Len(Tail(p)) = i - 1 /\ \A j \in 1 .. i - 1 : Tail(p)[j] = p[j + 1]
    BY <1>4, InFront
  <2>3. Tail(p) = [j \in 1 .. i - 1 |-> Tail(p)[j]]
    <3>1. \A s \in Seq(X) : s = [j \in 1 .. Len(s) |-> s[j]]
      OBVIOUS
    <3> QED BY <2>2, <3>1
  <2> QED BY <1>4, <2>1, <2>2, <2>3
<1>6. \A j \in 1 .. i - 1 : p[j + 1] = t[j]
  <2> SUFFICES ASSUME NEW j \in 1 .. i - 1 PROVE p[j + 1] = t[j]
    OBVIOUS
  <2>1. j \in 1 .. Len(q) - 1 /\ j + 1 \in 1 .. i
    BY <1>1
  <2> QED BY <1>1, <1>2, <2>1
<1>7. Tail(p) = Pre(t, i)
  BY <1>5, <1>6 DEF Pre
<1> QED BY <1>1, <1>4, <1>5, <1>7 DEF p, t

\* It holds again when the server says what it did.
LEMMA KnowSays ==
    ASSUME NEW q \in Seq(FromNet), NEW us, NEW n, NEW o, NEW k, NEW p, NEW m \in FromNet,
           KnowAll(q, us, o), Says(m, n, o, k, p)
    PROVE  KnowAll(Append(q, m), us, p)
<1> DEFINE r == Append(q, m)
<1>1. /\ Len(r) = Len(q) + 1 /\ Len(q) \in Nat /\ r[Len(q) + 1] = m
      /\ \A i \in 1 .. Len(q) : r[i] = q[i]
  OBVIOUS
<1>2. /\ \A i \in 1 .. Len(q) : Pre(r, i) = Pre(q, i)
      /\ Pre(r, Len(q) + 1) = q
  BY PreAppend
<1>3. \A u \in Users : Known(r, us, u) <=> IF m \in SignOf(u) THEN m.type = "nick" ELSE Known(q, us, u)
  BY KnownAppend
<1> HIDE DEF r
<1>4. \A u \in Users : Known(r, us, u) <=> u \in p
  BY <1>3 DEF KnowAll, Says, SaysSign
<1>5. ASSUME NEW i \in 1 .. Len(r), r[i].type = "join" PROVE Known(Pre(r, i), us, r[i].user)
  <2>1. CASE i \in 1 .. Len(q)
    BY <1>1, <1>2, <1>5, <2>1 DEF KnowAll
  <2>2. CASE i = Len(q) + 1
    <3>1. m.type = "join" /\ m.user \in o /\ m.user \in Users
      BY <1>1, <1>5, <2>2, Fields DEF Says
    <3> QED BY <1>1, <1>2, <2>2, <3>1 DEF KnowAll
  <2> QED BY <1>1, <2>1, <2>2
<1> QED BY <1>4, <1>5 DEF KnowAll, r

\* The users services know after the message m.
Signed(m, us, vs) ==
    \A u \in Users : u \in vs <=> IF m \in SignOf(u) THEN m.type = "nick" ELSE u \in us

\* It holds again when services read a message, and whom they read the JOIN of they know.
LEMMA KnowHeard ==
    ASSUME NEW q \in Seq(FromNet), q # <<>>, NEW us, NEW vs, NEW o,
           KnowAll(q, us, o), Signed(Head(q), us, vs)
    PROVE  /\ KnowAll(Tail(q), vs, o)
           /\ Head(q).type = "join" => Head(q).user \in us
<1> DEFINE t == Tail(q)
<1>1. /\ Len(q) \in Nat /\ Len(q) > 0 /\ Len(t) = Len(q) - 1 /\ Head(q) = q[1] /\ t \in Seq(FromNet)
      /\ \A j \in 1 .. Len(q) - 1 : t[j] = q[j + 1]
  BY InFront
<1>2. \A u \in Users : Known(t, vs, u) <=> Known(q, us, u)
  BY KnownTail DEF Signed
<1>3. ASSUME NEW i \in 1 .. Len(t), t[i].type = "join" PROVE Known(Pre(t, i), vs, t[i].user)
  <2> DEFINE u == t[i].user  r == Pre(q, i + 1)
  <2>1. i + 1 \in 1 .. Len(q) /\ q[i + 1] = t[i]
    BY <1>1
  <2>2. t[i] \in FromNet
    BY <1>1
  <2>3. u \in Users
    <3> HIDE DEF t
    <3> QED BY <2>2, Fields
  <2>4. Known(r, us, u)
    BY <1>3, <2>1 DEF KnowAll
  <2>5. r \in Seq(FromNet) /\ r # <<>> /\ Head(r) = Head(q) /\ Tail(r) = Pre(t, i)
    BY PreTail
  <2>6. u \in vs <=> IF Head(r) \in SignOf(u) THEN Head(r).type = "nick" ELSE u \in us
    BY <2>3, <2>5 DEF Signed
  <2> HIDE DEF r, u, t
  <2>7. Known(Tail(r), vs, u) <=> Known(r, us, u)
    BY <2>5, <2>6, KnownTail
  <2> QED BY <2>4, <2>5, <2>7 DEF u
<1>4. Head(q).type = "join" => Head(q).user \in us
  <2>1. Pre(q, 1) = <<>>
    BY DEF Pre
  <2>2. Head(q).type = "join" => Known(<<>>, us, Head(q).user)
    <3> HIDE DEF t
    <3>1. 1 \in 1 .. Len(q)
      BY <1>1
    <3> QED BY <1>1, <2>1, <3>1 DEF KnowAll
  <2> QED BY <2>2, LastEmpty DEF Known
<1> HIDE DEF t
<1>5. KnowAll(t, vs, o)
  BY <1>2, <1>3 DEF KnowAll
<1> QED BY <1>4, <1>5 DEF t
-----------------------------------------------------------------------------
(***************************************************************************)
(* What services do to their tables.                                       *)
(***************************************************************************)

\* addChanUser()
LEMMA EnterDoes ==
    ASSUME TypeOK, NEW c \in Chans, NEW u \in Users, NEW op \in BOOLEAN, Enter(c, u, op)
    PROVE  /\ \A d \in Chans, v \in Users :
                 v \in chan'[d].on <=> v \in chan[d].on \/ (d = c /\ v = u)
           /\ \A v \in Users : slot'[v] \subseteq IF v = u THEN slot[v] \cup {c} ELSE slot[v]
           /\ Cardinality(slot[u]) < Slots => slot' = [slot EXCEPT ![u] = @ \cup {c}]
           /\ ~(Cardinality(slot[u]) < Slots) => slot' = slot
<1>1. chan \in [Chans -> [on : SUBSET Users, ops : SUBSET Users]] /\ slot \in [Users -> SUBSET Chans]
  BY DEF TypeOK
<1>2. chan' = [chan EXCEPT ![c].on = @ \cup {u}, ![c].ops = IF op THEN @ \cup {u} ELSE @]
  BY DEF Enter
<1>3. \A d \in Chans : chan'[d].on = IF d = c THEN chan[d].on \cup {u} ELSE chan[d].on
  BY <1>1, <1>2
<1>4. ASSUME NEW d \in Chans, NEW v \in Users
      PROVE  v \in chan'[d].on <=> v \in chan[d].on \/ (d = c /\ v = u)
  <2>1. chan'[d].on = IF d = c THEN chan[d].on \cup {u} ELSE chan[d].on
    BY <1>3
  <2> QED BY <2>1
<1>5. /\ Cardinality(slot[u]) < Slots => slot' = [slot EXCEPT ![u] = @ \cup {c}]
      /\ ~(Cardinality(slot[u]) < Slots) => slot' = slot
  BY DEF Enter
<1>6. \A v \in Users : slot'[v] \subseteq IF v = u THEN slot[v] \cup {c} ELSE slot[v]
  BY <1>1, <1>5
<1> QED BY <1>4, <1>5, <1>6

\* delChanUser()
LEMMA LeaveDoes ==
    ASSUME TypeOK, NEW c \in Chans, NEW gone, Leave(c, gone)
    PROVE  \A d \in Chans, v \in Users :
             /\ v \in chan'[d].on <=> v \in chan[d].on /\ ~(d = c /\ v \in gone)
             /\ d \in slot'[v] <=> d \in slot[v] /\ ~(d = c /\ v \in gone)
<1>1. chan \in [Chans -> [on : SUBSET Users, ops : SUBSET Users]] /\ slot \in [Users -> SUBSET Chans]
  BY DEF TypeOK
<1>2. chan' = [chan EXCEPT ![c].on = @ \ gone, ![c].ops = @ \ gone]
  BY DEF Leave
<1>3. \A d \in Chans : chan'[d].on = IF d = c THEN chan[d].on \ gone ELSE chan[d].on
  BY <1>1, <1>2
<1>4. \A v \in Users : slot'[v] = IF v \in gone THEN slot[v] \ {c} ELSE slot[v]
  BY DEF Leave
<1>5. ASSUME NEW d \in Chans, NEW v \in Users
      PROVE  /\ v \in chan'[d].on <=> v \in chan[d].on /\ ~(d = c /\ v \in gone)
             /\ d \in slot'[v] <=> d \in slot[v] /\ ~(d = c /\ v \in gone)
  <2>1. chan'[d].on = IF d = c THEN chan[d].on \ gone ELSE chan[d].on
    BY <1>3
  <2>2. slot'[v] = IF v \in gone THEN slot[v] \ {c} ELSE slot[v]
    BY <1>4
  <2> QED BY <2>1, <2>2
<1> QED BY <1>5

\* remFromAllChans()
LEMMA RemFromAllDoes ==
    ASSUME TypeOK, NEW u \in Users, RemFromAllChans(u)
    PROVE  /\ \A d \in Chans, v \in Users :
                 v \in chan'[d].on <=> v \in chan[d].on /\ ~(v = u /\ d \in slot[u])
           /\ \A v \in Users : slot'[v] = IF v = u THEN {} ELSE slot[v]
<1>1. chan \in [Chans -> [on : SUBSET Users, ops : SUBSET Users]] /\ slot \in [Users -> SUBSET Chans]
  BY DEF TypeOK
<1>2. ASSUME NEW d \in Chans, NEW v \in Users
      PROVE  v \in chan'[d].on <=> v \in chan[d].on /\ ~(v = u /\ d \in slot[u])
  <2>1. chan[d] \in [on : SUBSET Users, ops : SUBSET Users]
    BY <1>1
  <2>2. chan'[d] = IF d \in slot[u] THEN [chan[d] EXCEPT !.on = @ \ {u}, !.ops = @ \ {u}] ELSE chan[d]
    BY DEF RemFromAllChans
  <2>3. chan'[d].on = IF d \in slot[u] THEN chan[d].on \ {u} ELSE chan[d].on
    BY <2>1, <2>2
  <2> QED BY <2>3
<1>3. \A v \in Users : slot'[v] = IF v = u THEN {} ELSE slot[v]
  BY <1>1 DEF RemFromAllChans
<1> QED BY <1>2, <1>3

\* setChanMode() and the commands that op and deop leave everybody's place alone.
LEMMA ModesPlace ==
    ASSUME TypeOK, NEW c \in Chans, NEW W, chan' = [chan EXCEPT ![c].ops = W]
    PROVE  \A d \in Chans : chan'[d].on = chan[d].on
BY DEF TypeOK

\* Nobody enters or leaves a channel of services.
SamePlaces == \A d \in Chans : chan'[d].on = chan[d].on

\* What services do when they read m: what is sent, who is known, who is where.
Hears(m) ==
    \/ /\ m.type = "join" /\ m.chan \in Chans /\ OnJoin(m.chan, m.user) /\ UNCHANGED users
    \/ /\ m.type \in {"part", "kick"} /\ m.chan \in Chans /\ OnPart(m.chan, m.user) /\ UNCHANGED users
    \/ /\ m.type = "op" /\ m.chan \in Chans /\ OnOp(m.chan, m.user)
       /\ UNCHANGED <<users, slot>> /\ SamePlaces
    \/ /\ m.type = "deop" /\ m.chan \in Chans /\ OnDeop(m.chan, m.user, m.by)
       /\ UNCHANGED <<users, slot>> /\ SamePlaces
    \/ /\ m.type \in {"join0", "quit"} /\ RemFromAllChans(m.user)
       /\ UNCHANGED <<ghosted, timers, out>>
       /\ users' = IF m.type = "quit" THEN users \ {m.user} ELSE users
    \/ /\ m.type = "nick" /\ users' = users \cup {m.user}
       /\ UNCHANGED <<chan, slot, ghosted, timers, out>>

\* Every message services read is heard in one of these ways.
LEMMA Heard ==
    ASSUME TypeOK, Receive
    PROVE  /\ in # <<>> /\ in \in Seq(FromNet) /\ Head(in) \in FromNet /\ in' = Tail(in)
           /\ Head(in).user \in Users
           /\ UNCHANGED <<netVars, rules, changes, before, orderly>>
           /\ Hears(Head(in)) /\ Signed(Head(in), users, users')
<1> DEFINE m == Head(in)
<1>1. /\ in # <<>> /\ in \in Seq(FromNet) /\ m \in FromNet /\ in' = Tail(in)
      /\ UNCHANGED <<netVars, rules, changes, before, orderly>>
  BY DEF Receive, TypeOK
<1>2. /\ m.user \in Users
      /\ m.type \in {"join", "part", "kick", "op", "deop"} => m.chan \in Chans
  <2> HIDE DEF m
  <2> QED BY <1>1, Fields
<1>3. \A u \in Users : m \in SignOf(u) <=> m.type \in {"nick", "quit"} /\ u = m.user
  <2> HIDE DEF m
  <2> QED BY <1>1 DEF SignOf
<1>4. CASE \/ m.type = "join" /\ OnJoin(m.chan, m.user) /\ UNCHANGED users
           \/ m.type \in {"part", "kick"} /\ OnPart(m.chan, m.user) /\ UNCHANGED users
  <2> HIDE DEF m
  <2>1. Hears(m)
    BY <1>2, <1>4 DEF Hears
  <2>2. Signed(m, users, users')
    BY <1>3, <1>4 DEF Signed
  <2> QED BY <1>1, <1>2, <2>1, <2>2 DEF m
<1>5. CASE \/ m.type = "op" /\ OnOp(m.chan, m.user) /\ UNCHANGED users
           \/ m.type = "deop" /\ OnDeop(m.chan, m.user, m.by) /\ UNCHANGED users
  <2> HIDE DEF m
  <2>1. chan' = chan \/ \E W : chan' = [chan EXCEPT ![m.chan].ops = W]
    <3>1. CASE OnOp(m.chan, m.user)
      BY <3>1 DEF OnOp
    <3>2. CASE OnDeop(m.chan, m.user, m.by)
      BY <3>2 DEF OnDeop
    <3> QED BY <1>5, <3>1, <3>2
  <2>2. SamePlaces
    BY <1>2, <1>5, <2>1, ModesPlace DEF SamePlaces
  <2>3. UNCHANGED <<users, slot>>
    BY <1>5 DEF OnOp, OnDeop
  <2>4. Hears(m)
    <3>1. CASE m.type = "op" /\ OnOp(m.chan, m.user)
      BY <1>2, <2>2, <2>3, <3>1 DEF Hears
    <3>2. CASE m.type = "deop" /\ OnDeop(m.chan, m.user, m.by)
      BY <1>2, <2>2, <2>3, <3>2 DEF Hears
    <3> QED BY <1>5, <3>1, <3>2
  <2>5. Signed(m, users, users')
    BY <1>3, <1>5 DEF Signed
  <2> QED BY <1>1, <1>2, <2>4, <2>5 DEF m
<1>6. CASE /\ m.type = "join0" /\ RemFromAllChans(m.user)
           /\ UNCHANGED <<users, ghosted, timers, out>>
  <2> HIDE DEF m
  <2>1. Hears(m)
    BY <1>6 DEF Hears
  <2>2. Signed(m, users, users')
    BY <1>3, <1>6 DEF Signed
  <2> QED BY <1>1, <1>2, <2>1, <2>2 DEF m
<1>7. CASE /\ m.type = "nick" /\ users' = users \cup {m.user}
           /\ UNCHANGED <<chan, slot, ghosted, timers, out>>
  <2> HIDE DEF m
  <2>1. Hears(m)
    BY <1>7 DEF Hears
  <2>2. Signed(m, users, users')
    BY <1>3, <1>7 DEF Signed
  <2> QED BY <1>1, <1>2, <2>1, <2>2 DEF m
<1>8. CASE /\ m.type = "quit" /\ users' = users \ {m.user} /\ RemFromAllChans(m.user)
           /\ UNCHANGED <<ghosted, timers, out>>
  <2> HIDE DEF m
  <2>1. Hears(m)
    BY <1>8 DEF Hears
  <2>2. Signed(m, users, users')
    BY <1>3, <1>8 DEF Signed
  <2> QED BY <1>1, <1>2, <2>1, <2>2 DEF m
<1> QED BY <1>4, <1>5, <1>6, <1>7, <1>8 DEF Receive

\* The commands, the timers of the ghosts and the changes of the registration let
\* nobody into a channel: only cs_mkick() moves somebody.
LEMMA Commanded ==
    ASSUME TypeOK, Commands \/ \E c \in Chans : EndGhost(c) \/ Change(c)
    PROVE  /\ UNCHANGED <<netVars, in, users>>
           /\ \/ slot' = slot /\ SamePlaces
              \/ \E c \in Chans, x \in Users : Mkick(c, x) /\ Leave(c, chan[c].on)
<1>1. ASSUME NEW c \in Chans, NEW x \in Users, NEW u \in Users, Op(c, x, u) \/ Deop(c, x, u)
      PROVE  /\ UNCHANGED <<netVars, in, users, slot>>
             /\ SamePlaces
  <2>1. \E W : chan' = [chan EXCEPT ![c].ops = W]
    <3>1. CASE Op(c, x, u)
      BY <3>1 DEF Op
    <3>2. CASE Deop(c, x, u)
      BY <3>2 DEF Deop
    <3> QED BY <1>1, <3>1, <3>2
  <2>2. UNCHANGED <<netVars, in, users, slot>>
    BY <1>1 DEF Op, Deop
  <2> QED BY <2>1, <2>2, ModesPlace DEF SamePlaces
<1>2. ASSUME NEW c \in Chans, NEW x \in Users, Mdeop(c, x)
      PROVE  /\ UNCHANGED <<netVars, in, users, slot>>
             /\ SamePlaces
  <2>1. \E W : chan' = [chan EXCEPT ![c].ops = W]
    BY <1>2 DEF Mdeop
  <2>2. UNCHANGED <<netVars, in, users, slot>>
    BY <1>2 DEF Mdeop
  <2> QED BY <2>1, <2>2, ModesPlace DEF SamePlaces
<1>3. ASSUME NEW c \in Chans, NEW x \in Users, Mkick(c, x)
      PROVE  UNCHANGED <<netVars, in, users>> /\ Leave(c, chan[c].on)
  BY <1>3 DEF Mkick
<1>4. ASSUME NEW c \in Chans, EndGhost(c) \/ Change(c)
      PROVE  UNCHANGED <<netVars, in, users, slot, chan>>
  BY <1>4 DEF EndGhost, Change, netVars
<1>5. CASE Commands
  BY <1>1, <1>2, <1>3, <1>5 DEF Commands
<1>6. CASE \E c \in Chans : EndGhost(c) \/ Change(c)
  BY <1>4, <1>6 DEF SamePlaces
<1> QED BY <1>5, <1>6
-----------------------------------------------------------------------------
(***************************************************************************)
(* The slots of a user suffice: no user is ever in more channels than the  *)
(* server allows, and services, who follow message by message, never keep  *)
(* more than it was in when the next message was sent.                     *)
(***************************************************************************)

\* The channels of each user, as the server has them.
Memb(n) == [u \in Users |-> {d \in Chans : u \in n[d].on}]

\* No user is in more channels than MaxChans.
Fit(k) == \A u \in Users : IsFiniteSet(k[u]) /\ Cardinality(k[u]) <= MaxChans

\* The message takes the user out of the channel.
Leaves(m, c, u) == m \in AboutOf(c, u) /\ m.type # "join"

\* From the channels h of each user to the channels k with the message m.
Moves(h, m, k) ==
    \A u \in Users, d \in Chans :
        /\ d \in h[u] /\ ~Leaves(m, d, u) => d \in k[u]
        /\ m \in AboutOf(d, u) /\ m.type = "join" => d \in k[u]

\* h says where everybody was when each message of q was sent.
Follows(h, q, n) ==
    /\ h \in [0 .. Len(q) -> [Users -> SUBSET Chans]]
    /\ \A i \in 0 .. Len(q) : Fit(h[i])
    /\ h[Len(q)] = Memb(n)
    /\ \A i \in 1 .. Len(q) : Moves(h[i - 1], q[i], h[i])

Track == \E h : Follows(h, in, net) /\ \A u \in Users : slot[u] \subseteq h[0][u]

\* A message the server sends continues the account of where everybody was.
LEMMA FollowsSays ==
    ASSUME NEW q \in Seq(FromNet), NEW n, NEW k, NEW m \in FromNet, NEW h,
           Follows(h, q, n), SaysPlace(m, n, k), Fit(Memb(k))
    PROVE  \E g : Follows(g, Append(q, m), k) /\ g[0] = h[0]
<1> DEFINE r == Append(q, m)
           g == [i \in 0 .. Len(q) + 1 |-> IF i = Len(q) + 1 THEN Memb(k) ELSE h[i]]
<1>1. /\ Len(r) = Len(q) + 1 /\ Len(q) \in Nat /\ r[Len(q) + 1] = m
      /\ \A i \in 1 .. Len(q) : r[i] = q[i]
  OBVIOUS
<1>2. /\ h \in [0 .. Len(q) -> [Users -> SUBSET Chans]]
      /\ \A i \in 0 .. Len(q) : Fit(h[i])
      /\ h[Len(q)] = Memb(n)
      /\ \A i \in 1 .. Len(q) : Moves(h[i - 1], q[i], h[i])
  BY DEF Follows
<1>3. Memb(k) \in [Users -> SUBSET Chans]
  BY DEF Memb
<1>4. Moves(Memb(n), m, Memb(k))
  <2> SUFFICES ASSUME NEW u \in Users, NEW d \in Chans
               PROVE  /\ u \in n[d].on /\ ~Leaves(m, d, u) => u \in k[d].on
                      /\ m \in AboutOf(d, u) /\ m.type = "join" => u \in k[d].on
    BY DEF Moves, Memb
  <2> QED BY DEF SaysPlace, Leaves
<1>5. /\ \A i \in 0 .. Len(q) : g[i] = h[i]
      /\ g[Len(q) + 1] = Memb(k)
      /\ g \in [0 .. Len(q) + 1 -> [Users -> SUBSET Chans]]
  BY <1>1, <1>2, <1>3
<1> HIDE DEF r, g
<1>6. \A i \in 0 .. Len(r) : Fit(g[i])
  <2> SUFFICES ASSUME NEW i \in 0 .. Len(r) PROVE Fit(g[i])
    OBVIOUS
  <2>1. i \in 0 .. Len(q) \/ i = Len(q) + 1
    BY <1>1
  <2> QED BY <1>2, <1>5, <2>1
<1>7. \A i \in 1 .. Len(r) : Moves(g[i - 1], r[i], g[i])
  <2> SUFFICES ASSUME NEW i \in 1 .. Len(r) PROVE Moves(g[i - 1], r[i], g[i])
    OBVIOUS
  <2>1. CASE i \in 1 .. Len(q)
    <3>1. g[i - 1] = h[i - 1] /\ g[i] = h[i] /\ r[i] = q[i]
      BY <1>1, <1>5, <2>1
    <3> QED BY <1>2, <2>1, <3>1
  <2>2. CASE i = Len(q) + 1
    <3>1. g[i - 1] = Memb(n) /\ g[i] = Memb(k) /\ r[i] = m
      BY <1>1, <1>2, <1>5, <2>2
    <3> QED BY <1>4, <3>1
  <2> QED BY <1>1, <2>1, <2>2
<1>8. Follows(g, r, k) /\ g[0] = h[0]
  <2>1. g[0] = h[0]
    BY <1>1, <1>5
  <2> QED BY <1>1, <1>5, <1>6, <1>7, <2>1 DEF Follows
<1> QED BY <1>8 DEF r

\* A message that is read leaves the account of the others.
LEMMA FollowsHeard ==
    ASSUME NEW q \in Seq(FromNet), q # <<>>, NEW n, NEW h, Follows(h, q, n)
    PROVE  /\ \E g : Follows(g, Tail(q), n) /\ g[0] = h[1]
           /\ Moves(h[0], Head(q), h[1]) /\ Fit(h[1])
<1> DEFINE t == Tail(q)  g == [i \in 0 .. Len(q) - 1 |-> h[i + 1]]
<1>1. /\ Len(q) \in Nat /\ Len(q) > 0 /\ Len(t) = Len(q) - 1 /\ Head(q) = q[1]
      /\ \A j \in 1 .. Len(q) - 1 : t[j] = q[j + 1]
  BY InFront
<1>2. /\ h \in [0 .. Len(q) -> [Users -> SUBSET Chans]]
      /\ \A i \in 0 .. Len(q) : Fit(h[i])
      /\ h[Len(q)] = Memb(n)
      /\ \A i \in 1 .. Len(q) : Moves(h[i - 1], q[i], h[i])
  BY DEF Follows
<1>3. /\ \A i \in 0 .. Len(q) - 1 : g[i] = h[i + 1]
      /\ g \in [0 .. Len(q) - 1 -> [Users -> SUBSET Chans]]
  BY <1>1, <1>2
<1> HIDE DEF t, g
<1>4. \A i \in 0 .. Len(t) : Fit(g[i])
  <2> SUFFICES ASSUME NEW i \in 0 .. Len(t) PROVE Fit(g[i])
    OBVIOUS
  <2>1. i \in 0 .. Len(q) - 1 /\ i + 1 \in 0 .. Len(q)
    BY <1>1
  <2> QED BY <1>2, <1>3, <2>1
<1>5. \A i \in 1 .. Len(t) : Moves(g[i - 1], t[i], g[i])
  <2> SUFFICES ASSUME NEW i \in 1 .. Len(t) PROVE Moves(g[i - 1], t[i], g[i])
    OBVIOUS
  <2>1. i + 1 \in 1 .. Len(q) /\ t[i] = q[i + 1] /\ i + 1 - 1 = i
    BY <1>1
  <2>2. g[i - 1] = h[i] /\ g[i] = h[i + 1]
    <3>1. i - 1 \in 0 .. Len(q) - 1 /\ i \in 0 .. Len(q) - 1 /\ i - 1 + 1 = i
      BY <1>1
    <3> QED BY <1>3, <3>1
  <2>3. Moves(h[i + 1 - 1], q[i + 1], h[i + 1])
    BY <1>2, <2>1
  <2> QED BY <2>1, <2>2, <2>3
<1>6. g[Len(t)] = Memb(n) /\ g[0] = h[1]
  <2>1. g[Len(q) - 1] = h[Len(q) - 1 + 1] /\ g[0] = h[0 + 1]
    BY <1>1, <1>3
  <2>2. Len(q) - 1 + 1 = Len(q)
    BY <1>1
  <2> QED BY <1>1, <1>2, <2>1, <2>2
<1>7. Follows(g, t, n)
  BY <1>1, <1>3, <1>4, <1>5, <1>6 DEF Follows
<1>8. Moves(h[0], Head(q), h[1]) /\ Fit(h[1])
  <2>1. 1 \in 1 .. Len(q) /\ 1 \in 0 .. Len(q) /\ 1 - 1 = 0
    BY <1>1
  <2>2. Moves(h[1 - 1], q[1], h[1])
    BY <1>2, <2>1
  <2> QED BY <1>1, <1>2, <2>1, <2>2
<1> QED BY <1>6, <1>7, <1>8 DEF t

\* m_join() lets nobody into one more than MaxChans channels.
LEMMA ServerFits ==
    ASSUME TypeOK, NetUser \/ NetReceive, Fit(Memb(net))
    PROVE  Fit(Memb(net'))
<1>1. /\ net \in [Chans -> [on : SUBSET Users, ops : SUBSET Users, cs : BOOLEAN]]
      /\ in \in Seq(FromNet)
  BY DEF TypeOK
<1> DEFINE mine(u) == {d \in Chans : u \in net[d].on}
           next(u) == {d \in Chans : u \in net'[d].on}
<1>2. \A u \in Users : IsFiniteSet(mine(u)) /\ Cardinality(mine(u)) <= MaxChans
  BY DEF Fit, Memb
<1>3. SUFFICES \A u \in Users : IsFiniteSet(next(u)) /\ Cardinality(next(u)) <= MaxChans
  BY DEF Fit, Memb
<1>4. ASSUME NEW u \in Users, next(u) \subseteq mine(u)
      PROVE  IsFiniteSet(next(u)) /\ Cardinality(next(u)) <= MaxChans
  <2> HIDE DEF mine, next
  <2>1. IsFiniteSet(next(u)) /\ Cardinality(next(u)) <= Cardinality(mine(u))
    BY <1>2, <1>4, FS_Subset
  <2>2. Cardinality(next(u)) \in Nat /\ Cardinality(mine(u)) \in Nat /\ MaxChans \in Nat
    BY <1>2, <2>1, FS_CardinalityType, ChanLinkAssumption
  <2>3. Cardinality(mine(u)) <= MaxChans
    BY <1>2
  <2> QED BY <2>1, <2>2, <2>3
<1>5. CASE \A d \in Chans : net'[d].on \subseteq net[d].on
  <2>1. \A u \in Users : next(u) \subseteq mine(u)
    BY <1>5
  <2> HIDE DEF mine, next
  <2> QED BY <1>4, <2>1
<1>6. ASSUME NEW c \in Chans, NEW u \in Users, NetJoin(c, u)
      PROVE  \A v \in Users : IsFiniteSet(next(v)) /\ Cardinality(next(v)) <= MaxChans
  <2>1. \A d \in Chans : net'[d].on = IF d = c THEN net[d].on \cup {u} ELSE net[d].on
    BY <1>1, <1>6 DEF NetJoin
  <2>2. u \notin net[c].on /\ Cardinality(mine(u)) < MaxChans
    BY <1>6 DEF NetJoin
  <2>3. next(u) = mine(u) \cup {c} /\ c \notin mine(u)
    BY <2>1, <2>2
  <2>4. \A v \in Users : v # u => next(v) \subseteq mine(v)
    BY <2>1
  <2> HIDE DEF mine, next
  <2>5. IsFiniteSet(next(u)) /\ Cardinality(next(u)) = Cardinality(mine(u)) + 1
    BY <1>2, <2>3, FS_AddElement
  <2>6. Cardinality(mine(u)) \in Nat /\ MaxChans \in Nat
    BY <1>2, FS_CardinalityType, ChanLinkAssumption
  <2>7. Cardinality(next(u)) <= MaxChans
    BY <2>2, <2>5, <2>6
  <2> QED BY <1>4, <2>4, <2>5, <2>7
<1>7. ASSUME NEW u \in Users, NetSignOn(u) \/ NetQuit(u) \/ NetJoin0(u)
      PROVE  \A d \in Chans : net'[d].on \subseteq net[d].on
  <2>1. net' = net \/ net' = [c \in Chans |-> NetGone(net[c], u)]
    BY <1>7 DEF NetSignOn, NetQuit, NetJoin0
  <2> QED BY <2>1, GoneTypes
<1>8. ASSUME NEW c \in Chans, NEW u \in Users, net' = [net EXCEPT ![c] = NetGone(net[c], u)]
      PROVE  \A d \in Chans : net'[d].on \subseteq net[d].on
  <2>1. NetGone(net[c], u).on = net[c].on \ {u}
    BY GoneTypes
  <2> QED BY <1>1, <1>8, <2>1
<1>9. ASSUME NEW c \in Chans, NEW u \in Users, NEW x \in Users,
             NetPart(c, u) \/ NetKick(c, x, u) \/ NetMode(c, x, u)
      PROVE  \A d \in Chans : net'[d].on \subseteq net[d].on
  <2>1. CASE NetPart(c, u) \/ NetKick(c, x, u)
    <3>1. net' = [net EXCEPT ![c] = NetGone(net[c], u)]
      BY <2>1 DEF NetPart, NetKick
    <3> QED BY <1>8, <3>1
  <2>2. CASE NetMode(c, x, u)
    <3>1. PICK W : net' = [net EXCEPT ![c].ops = W]
      BY <2>2 DEF NetMode
    <3> QED BY <1>1, <3>1
  <2> QED BY <1>9, <2>1, <2>2
<1>10. ASSUME NetReceive PROVE \A d \in Chans : net'[d].on \subseteq net[d].on
  <2> DEFINE m == Head(out)
  <2>1. m \in ToNet
    BY <1>10 DEF NetReceive, TypeOK
  <2>2. m.chan \in Chans /\ (m.type = "kick" => m.user \in Users)
    <3> HIDE DEF m
    <3> QED BY <2>1, OutFields
  <2>3. CASE m.type = "kick" /\ NetKicked(m.chan, m.user)
    <3> HIDE DEF m
    <3>1. net' = net \/ net' = [net EXCEPT ![m.chan] = NetGone(net[m.chan], m.user)]
      BY <2>3 DEF NetKicked
    <3> QED BY <1>8, <2>2, <2>3, <3>1
  <2>4. CASE \E W : net' = [net EXCEPT ![m.chan].ops = W] \/ net' = [net EXCEPT ![m.chan].cs = W]
    <3> HIDE DEF m
    <3>1. PICK W : net' = [net EXCEPT ![m.chan].ops = W] \/ net' = [net EXCEPT ![m.chan].cs = W]
      BY <2>4
    <3>2. CASE net' = [net EXCEPT ![m.chan].ops = W]
      BY <1>1, <2>2, <3>2
    <3>3. CASE net' = [net EXCEPT ![m.chan].cs = W]
      BY <1>1, <2>2, <3>3
    <3> QED BY <3>1, <3>2, <3>3
  <2> QED BY <1>10, <2>3, <2>4 DEF NetReceive
<1> HIDE DEF mine, next
<1> QED BY <1>5, <1>6, <1>7, <1>9, <1>10 DEF NetUser

\* Track is kept when the server says what it did.
LEMMA TrackSays ==
    ASSUME TypeOK, NetUser \/ NetReceive, UNCHANGED servVars, Track
    PROVE  Track'
<1>1. PICK h : Follows(h, in, net) /\ \A u \in Users : slot[u] \subseteq h[0][u]
  BY DEF Track
<1>2. in \in Seq(FromNet) /\ slot' = slot
  BY DEF TypeOK, servVars
<1>3. Fit(Memb(net))
  <2>1. Len(in) \in Nat /\ Len(in) \in 0 .. Len(in)
    BY <1>2
  <2> QED BY <1>1, <2>1 DEF Follows
<1>4. Fit(Memb(net'))
  BY <1>3, ServerFits
<1>5. SUFFICES \E g : Follows(g, in', net') /\ g[0] = h[0]
  BY <1>1, <1>2 DEF Track
<1>6. CASE in' = in /\ Silent(net, online, net', online')
  <2>1. Memb(net') = Memb(net)
    BY <1>6 DEF Silent, Memb
  <2> QED BY <1>1, <1>6, <2>1 DEF Follows
<1>7. ASSUME NEW m \in FromNet, in' = Append(in, m), Says(m, net, online, net', online')
      PROVE  \E g : Follows(g, in', net') /\ g[0] = h[0]
  BY <1>1, <1>2, <1>4, <1>7, FollowsSays DEF Says
<1>8. ASSUME NEW l \in FromNet, NEW m \in FromNet, in' = Append(Append(in, l), m),
             Says(l, net, online, net', online'), Says(m, net', online', net', online')
      PROVE  \E g : Follows(g, in', net') /\ g[0] = h[0]
  <2>1. PICK f : Follows(f, Append(in, l), net') /\ f[0] = h[0]
    BY <1>1, <1>2, <1>4, <1>8, FollowsSays DEF Says
  <2>2. Append(in, l) \in Seq(FromNet)
    BY <1>2
  <2> DEFINE q == Append(in, l)
  <2>3. Follows(f, q, net') /\ q \in Seq(FromNet) /\ SaysPlace(m, net', net')
    BY <1>8, <2>1, <2>2 DEF Says
  <2> HIDE DEF q
  <2>4. PICK g : Follows(g, Append(q, m), net') /\ g[0] = f[0]
    BY <1>4, <2>3, FollowsSays
  <2> QED BY <1>8, <2>1, <2>4 DEF q
<1> QED BY <1>6, <1>7, <1>8, ServerSays DEF Sends

\* addUserToChan() finds a free slot: the user is in no more than MaxChans channels.
LEMMA FreeSlot ==
    ASSUME MaxChans <= Slots, TypeOK, NEW c \in Chans, NEW u \in Users, NEW op \in BOOLEAN,
           NEW k, Fit(k), slot[u] \subseteq k[u], c \in k[u], Enter(c, u, op)
    PROVE  slot' = [slot EXCEPT ![u] = @ \cup {c}]
<1>1. slot \in [Users -> SUBSET Chans] /\ Slots \in Nat /\ MaxChans \in Nat
  BY ChanLinkAssumption DEF TypeOK
<1>2. CASE c \in slot[u]
  <2>1. slot = [slot EXCEPT ![u] = @ \cup {c}]
    BY <1>1, <1>2
  <2> QED BY <2>1, EnterDoes
<1>3. CASE c \notin slot[u]
  <2> DEFINE S == slot[u] \cup {c}
  <2>1. IsFiniteSet(k[u]) /\ Cardinality(k[u]) <= MaxChans /\ S \in SUBSET k[u]
    BY DEF Fit
  <2>2. IsFiniteSet(slot[u])
    BY <2>1, FS_Subset
  <2>3. Cardinality(S) = Cardinality(slot[u]) + 1 /\ IsFiniteSet(S)
    BY <1>3, <2>2, FS_AddElement
  <2> HIDE DEF S
  <2>4. Cardinality(S) <= Cardinality(k[u])
    BY <2>1, FS_Subset
  <2>5. Cardinality(S) \in Nat /\ Cardinality(k[u]) \in Nat /\ Cardinality(slot[u]) \in Nat
    BY <2>1, <2>2, <2>3, FS_CardinalityType
  <2>6. Cardinality(slot[u]) < Slots
    BY <1>1, <2>1, <2>3, <2>4, <2>5
  <2> QED BY <2>6, EnterDoes
<1> QED BY <1>2, <1>3

\* PointersLive, for one user and one channel.
LiveAt(c, u) == (u \in chan[c].on => u \in users) /\ (c \in slot[u] <=> u \in chan[c].on)

\* Services read a message: k are the channels of everybody when it was sent.
LEMMA LiveHeard ==
    ASSUME MaxChans <= Slots, TypeOK, PointersLive, Receive,
           NEW h, NEW k, Moves(h, Head(in), k), Fit(k),
           \A u \in Users : slot[u] \subseteq h[u]
    PROVE  \A c \in Chans, u \in Users : LiveAt(c, u)' /\ (c \in slot'[u] => c \in k[u])
<1> SUFFICES ASSUME NEW d \in Chans, NEW v \in Users
             PROVE  LiveAt(d, v)' /\ (d \in slot'[v] => d \in k[v])
  OBVIOUS
<1> DEFINE m == Head(in)  c == m.chan  u == m.user
<1>1. m \in FromNet /\ u \in Users /\ Hears(m)
  BY Heard
<1>2. /\ LiveAt(d, v)
      /\ d \in slot[v] => d \in h[v]
      /\ d \in slot[v] /\ ~Leaves(m, d, v) => d \in k[v]
  BY DEF PointersLive, LiveAt, Moves
<1>3. /\ slot \in [Users -> SUBSET Chans] /\ users \subseteq Users
      /\ chan[d].on \in SUBSET Users
  BY DEF TypeOK
<1>4. ASSUME ~Leaves(m, d, v),
             users' = users, slot'[v] = slot[v], v \in chan'[d].on <=> v \in chan[d].on
      PROVE  LiveAt(d, v)' /\ (d \in slot'[v] => d \in k[v])
  BY <1>2, <1>4 DEF LiveAt
<1>5. ASSUME v \notin chan'[d].on, d \notin slot'[v]
      PROVE  LiveAt(d, v)' /\ (d \in slot'[v] => d \in k[v])
  BY <1>5 DEF LiveAt
<1>6. CASE m.type = "join" /\ c \in Chans /\ OnJoin(c, u) /\ UNCHANGED users
  <2>1. ~Leaves(m, d, v)
    BY <1>6 DEF Leaves
  <2>2. m \in AboutOf(c, u)
    <3> HIDE DEF m
    <3> QED BY <1>1, <1>6 DEF AboutOf
  <2>3. CASE u \notin users
    <3>1. UNCHANGED <<chan, slot>>
      BY <1>6, <2>3 DEF OnJoin, servVars
    <3> QED BY <1>4, <1>6, <2>1, <3>1
  <2>4. ASSUME Leave(c, {u}) PROVE LiveAt(d, v)' /\ (d \in slot'[v] => d \in k[v])
    <3> HIDE DEF m
    <3>1. /\ v \in chan'[d].on <=> v \in chan[d].on /\ ~(d = c /\ v \in {u})
          /\ d \in slot'[v] <=> d \in slot[v] /\ ~(d = c /\ v \in {u})
      BY <1>6, <2>4, LeaveDoes
    <3> QED BY <1>2, <1>6, <2>1, <3>1 DEF LiveAt
  <2>5. ASSUME u \in users, NEW op \in BOOLEAN, Enter(c, u, op)
        PROVE  LiveAt(d, v)' /\ (d \in slot'[v] => d \in k[v])
    <3>1. slot[u] \subseteq k[u] /\ c \in k[u]
      <4>1. c \in k[u]
        BY <1>1, <1>6, <2>2 DEF Moves
      <4>2. ASSUME NEW e \in slot[u] PROVE e \in k[u]
        <5>1. e \in Chans /\ e \in h[u]
          BY <1>1, <1>3
        <5>2. ~Leaves(m, e, u)
          BY <1>6 DEF Leaves
        <5> QED BY <1>1, <5>1, <5>2 DEF Moves
      <4> QED BY <4>1, <4>2
    <3> HIDE DEF m
    <3>2. slot' = [slot EXCEPT ![u] = slot[u] \cup {c}]
      BY <1>1, <1>6, <2>5, <3>1, FreeSlot
    <3>3. v \in chan'[d].on <=> v \in chan[d].on \/ (d = c /\ v = u)
      BY <1>1, <1>6, <2>5, EnterDoes
    <3>4. d \in slot'[v] <=> d \in slot[v] \/ (d = c /\ v = u)
      BY <1>1, <1>3, <3>2
    <3> QED BY <1>2, <1>6, <2>1, <2>5, <3>1, <3>3, <3>4 DEF LiveAt
  <2>6. \/ u \notin users \/ Leave(c, {u})
        \/ u \in users /\ Enter(c, u, rules[c].reg /\ Level(c, u) >= AOP)
    <3> HIDE DEF m
    <3> QED BY <1>6 DEF OnJoin
  <2>7. (rules[c].reg /\ Level(c, u) >= AOP) \in BOOLEAN
    OBVIOUS
  <2> QED BY <2>3, <2>4, <2>5, <2>6, <2>7
<1>7. CASE m.type \in {"part", "kick"} /\ c \in Chans /\ OnPart(c, u) /\ UNCHANGED users
  <2>1. m \in AboutOf(d, v) <=> d = c /\ v = u
    <3> HIDE DEF m
    <3> QED BY <1>1, <1>7 DEF AboutOf
  <2>2. CASE Leave(c, {u})
    <3> HIDE DEF m
    <3>1. /\ v \in chan'[d].on <=> v \in chan[d].on /\ ~(d = c /\ v \in {u})
          /\ d \in slot'[v] <=> d \in slot[v] /\ ~(d = c /\ v \in {u})
      BY <1>7, <2>2, LeaveDoes
    <3>2. d \in slot'[v] => ~Leaves(m, d, v)
      BY <2>1, <3>1 DEF Leaves
    <3> QED BY <1>2, <1>7, <3>1, <3>2 DEF LiveAt
  <2>3. CASE u \notin users \cap chan[c].on /\ UNCHANGED <<chan, slot>>
    <3> HIDE DEF m
    <3>1. u \notin chan[c].on /\ c \notin slot[u]
      BY <1>1, <1>7, <2>3 DEF PointersLive
    <3>2. CASE d = c /\ v = u
      BY <1>5, <2>3, <3>1, <3>2
    <3>3. CASE ~(d = c /\ v = u)
      BY <1>4, <1>7, <2>1, <2>3, <3>3 DEF Leaves
    <3> QED BY <3>2, <3>3
  <2> QED BY <1>7, <2>2, <2>3 DEF OnPart
<1>8. CASE m.type \in {"op", "deop"} /\ UNCHANGED <<users, slot>> /\ SamePlaces
  <2>1. ~Leaves(m, d, v)
    BY <1>8 DEF Leaves, AboutOf
  <2> HIDE DEF m
  <2> QED BY <1>4, <1>8, <2>1 DEF SamePlaces
<1>9. CASE /\ m.type \in {"join0", "quit"} /\ RemFromAllChans(u)
           /\ users' = IF m.type = "quit" THEN users \ {u} ELSE users
  <2> HIDE DEF m
  <2>1. /\ v \in chan'[d].on <=> v \in chan[d].on /\ ~(v = u /\ d \in slot[u])
        /\ slot'[v] = IF v = u THEN {} ELSE slot[v]
    BY <1>1, <1>9, RemFromAllDoes
  <2>2. CASE v = u
    BY <1>2, <1>5, <2>1, <2>2 DEF LiveAt
  <2>3. CASE v # u
    <3>1. ~Leaves(m, d, v)
      BY <1>9, <2>3 DEF Leaves, AboutOf
    <3>2. v \in users' <=> v \in users
      BY <1>9, <2>3
    <3> QED BY <1>2, <2>1, <2>3, <3>1, <3>2 DEF LiveAt
  <2> QED BY <2>2, <2>3
<1>10. CASE m.type = "nick" /\ users' = users \cup {u} /\ UNCHANGED <<chan, slot>>
  <2>1. ~Leaves(m, d, v)
    BY <1>10 DEF Leaves, AboutOf
  <2> HIDE DEF m
  <2> QED BY <1>2, <1>10, <2>1 DEF LiveAt
<1> HIDE DEF m
<1> QED BY <1>1, <1>6, <1>7, <1>8, <1>9, <1>10 DEF Hears

LiveInv == PointersLive /\ Track

\* Services read a message.
LEMMA TrackHeard ==
    ASSUME MaxChans <= Slots, TypeOK, LiveInv, Receive
    PROVE  LiveInv'
<1>1. PICK h : Follows(h, in, net) /\ \A u \in Users : slot[u] \subseteq h[0][u]
  BY DEF LiveInv, Track
<1>2. in # <<>> /\ in \in Seq(FromNet) /\ in' = Tail(in) /\ net' = net
  BY Heard DEF netVars
<1>3. /\ Moves(h[0], Head(in), h[1]) /\ Fit(h[1])
      /\ \E g : Follows(g, Tail(in), net) /\ g[0] = h[1]
  BY <1>1, <1>2, FollowsHeard
<1>4. \A c \in Chans, u \in Users : LiveAt(c, u)' /\ (c \in slot'[u] => c \in h[1][u])
  BY <1>1, <1>3, LiveHeard DEF LiveInv
<1>5. TypeOK'
  BY ReceiveTypes
<1>6. PointersLive'
  BY <1>4, <1>5 DEF PointersLive, LiveAt, TypeOK
<1>7. Track'
  <2>1. PICK g : Follows(g, Tail(in), net) /\ g[0] = h[1]
    BY <1>3
  <2>2. \A u \in Users : slot'[u] \subseteq h[1][u]
    BY <1>4, <1>5 DEF TypeOK
  <2> QED BY <1>2, <2>1, <2>2 DEF Track
<1> QED BY <1>6, <1>7 DEF LiveInv

\* A command, a timer of a ghost, or a change of the registration.
LEMMA TrackCommanded ==
    ASSUME TypeOK, LiveInv, Commands \/ \E c \in Chans : EndGhost(c) \/ Change(c)
    PROVE  LiveInv'
<1>1. UNCHANGED <<netVars, in, users>>
  BY Commanded
<1>2. PICK h : Follows(h, in, net) /\ \A u \in Users : slot[u] \subseteq h[0][u]
  BY DEF LiveInv, Track
<1>3. SUFFICES PointersLive' /\ \A u \in Users : slot'[u] \subseteq slot[u]
  BY <1>1, <1>2 DEF LiveInv, Track, netVars
<1>4. TypeOK' /\ TypeOK
  BY CommandTypes
<1>5. CASE slot' = slot /\ SamePlaces
  BY <1>1, <1>5 DEF LiveInv, PointersLive, SamePlaces
<1>6. ASSUME NEW c \in Chans, Leave(c, chan[c].on)
      PROVE  PointersLive' /\ \A u \in Users : slot'[u] \subseteq slot[u]
  <2>1. \A d \in Chans, v \in Users :
             /\ v \in chan'[d].on <=> v \in chan[d].on /\ ~(d = c /\ v \in chan[c].on)
             /\ d \in slot'[v] <=> d \in slot[v] /\ ~(d = c /\ v \in chan[c].on)
    BY <1>6, LeaveDoes
  <2>2. \A d \in Chans : chan'[d].on \subseteq Users
    BY <1>4 DEF TypeOK
  <2>3. \A u \in Users : slot'[u] \subseteq Chans
    BY <1>4 DEF TypeOK
  <2>4. PointersLive'
    BY <1>1, <2>1, <2>2 DEF LiveInv, PointersLive
  <2>5. \A u \in Users : slot'[u] \subseteq slot[u]
    BY <2>1, <2>3
  <2> QED BY <2>4, <2>5
<1> QED BY <1>5, <1>6, Commanded

\* No freed user in a channel: every member is online, and the channels in a
\* user's slots are those it is a member of (remFromAllChans() goes by the slots).
THEOREM SlotsSuffice ==
    ASSUME MaxChans <= Slots
    PROVE  Spec => []PointersLive
<1>1. Init => TypeOK /\ LiveInv
  <2> SUFFICES ASSUME Init PROVE TypeOK /\ LiveInv
    OBVIOUS
  <2>1. TypeOK
    BY ChanLinkAssumption DEF Init, TypeOK
  <2>2. PointersLive
    BY DEF Init, PointersLive
  <2>3. Track
    <3> DEFINE k == [u \in Users |-> {}]
               h == [i \in 0 .. 0 |-> k]
    <3>1. Len(in) = 0 /\ Memb(net) = k
      BY DEF Init, Memb
    <3>2. k \in [Users -> SUBSET Chans] /\ Fit(k)
      BY FS_EmptySet, ChanLinkAssumption DEF Fit
    <3>3. h \in [0 .. 0 -> [Users -> SUBSET Chans]] /\ h[0] = k /\ \A i \in 0 .. 0 : h[i] = k
      BY <3>2
    <3>4. \A u \in Users : slot[u] \subseteq h[0][u]
      BY DEF Init
    <3> HIDE DEF k, h
    <3>5. Follows(h, in, net)
      BY <3>1, <3>2, <3>3 DEF Follows
    <3> QED BY <3>4, <3>5 DEF Track
  <2> QED BY <2>1, <2>2, <2>3 DEF LiveInv
<1>2. TypeOK /\ LiveInv /\ [Next]_vars => LiveInv'
  <2> SUFFICES ASSUME TypeOK, LiveInv, [Next]_vars PROVE LiveInv'
    OBVIOUS
  <2>1. CASE UNCHANGED vars
    BY <2>1 DEF vars, LiveInv, PointersLive, Track
  <2>2. CASE (NetUser \/ NetReceive) /\ UNCHANGED <<servVars, rules, changes, before, orderly>>
    <3>1. Track'
      BY <2>2, TrackSays DEF LiveInv
    <3> QED BY <2>2, <3>1 DEF LiveInv, PointersLive, servVars
  <2>3. CASE Receive
    BY <2>3, TrackHeard
  <2> QED BY <2>1, <2>2, <2>3, TrackCommanded DEF Next
<1>3. LiveInv => PointersLive
  BY DEF LiveInv
<1> QED BY <1>1, <1>2, <1>3, TypeCorrect, PTL DEF Spec
-----------------------------------------------------------------------------
(***************************************************************************)
(* Whom services know, and who is online, follow.                          *)
(***************************************************************************)

\* Whom services know stays right over every step.
LEMMA KnowStep ==
    ASSUME TypeOK, KnowInv, [Next]_vars
    PROVE  KnowInv'
<1>1. CASE UNCHANGED vars
  BY <1>1 DEF vars, KnowInv
<1>2. CASE (NetUser \/ NetReceive) /\ UNCHANGED <<servVars, rules, changes, before, orderly>>
  <2>1. in \in Seq(FromNet) /\ users' = users /\ KnowAll(in, users, online)
    BY <1>2 DEF TypeOK, servVars, KnowInv
  <2>2. SUFFICES KnowAll(in', users, online')
    BY <2>1 DEF KnowInv
  <2>3. CASE in' = in /\ Silent(net, online, net', online')
    BY <2>1, <2>3 DEF Silent
  <2>4. ASSUME NEW m \in FromNet, in' = Append(in, m), Says(m, net, online, net', online')
        PROVE  KnowAll(in', users, online')
    BY <2>1, <2>4, KnowSays
  <2>5. ASSUME NEW l \in FromNet, NEW m \in FromNet, in' = Append(Append(in, l), m),
               Says(l, net, online, net', online'), Says(m, net', online', net', online')
        PROVE  KnowAll(in', users, online')
    <3> DEFINE q == Append(in, l)
    <3>1. KnowAll(q, users, online') /\ q \in Seq(FromNet)
      BY <2>1, <2>5, KnowSays
    <3> HIDE DEF q
    <3>2. KnowAll(Append(q, m), users, online')
      BY <2>5, <3>1, KnowSays
    <3> QED BY <2>5, <3>2 DEF q
  <2> QED BY <1>2, <2>3, <2>4, <2>5, ServerSays DEF Sends
<1>3. CASE Receive
  <2>1. /\ in # <<>> /\ in \in Seq(FromNet) /\ in' = Tail(in) /\ online' = online
        /\ Signed(Head(in), users, users')
    BY <1>3, Heard DEF netVars
  <2> QED BY <2>1, KnowHeard DEF KnowInv
<1>4. CASE Commands \/ \E c \in Chans : EndGhost(c) \/ Change(c)
  BY <1>4, Commanded DEF KnowInv, netVars
<1> QED BY <1>1, <1>2, <1>3, <1>4 DEF Next

\* Members and operators of the server's channels are online.
LEMMA NetStep ==
    ASSUME TypeOK, NetInv, [Next]_vars
    PROVE  NetInv'
<1>1. /\ net \in [Chans -> [on : SUBSET Users, ops : SUBSET Users, cs : BOOLEAN]]
      /\ online \subseteq Users
      /\ \A c \in Chans : net[c].ops \subseteq net[c].on /\ net[c].on \subseteq online
  BY DEF TypeOK, NetInv
<1>2. CASE UNCHANGED netVars
  BY <1>2 DEF netVars, NetInv
<1>3. ASSUME NEW u \in Users, online' \in {online, online \ {u}},
             net' = [c \in Chans |-> NetGone(net[c], u)]
      PROVE  NetInv'
  <2>1. \A c \in Chans : net'[c].on = net[c].on \ {u} /\ net'[c].ops = net[c].ops \ {u}
    BY <1>3, GoneTypes
  <2> QED BY <1>1, <1>3, <2>1 DEF NetInv
<1>4. ASSUME NEW c \in Chans, NEW u \in Users, online' = online,
             net' = [net EXCEPT ![c] = NetGone(net[c], u)]
      PROVE  NetInv'
  <2>1. /\ NetGone(net[c], u).on = net[c].on \ {u}
        /\ NetGone(net[c], u).ops = net[c].ops \ {u}
    BY GoneTypes
  <2>2. \A d \in Chans : net'[d] = IF d = c THEN NetGone(net[c], u) ELSE net[d]
    BY <1>1, <1>4
  <2> QED BY <1>1, <1>4, <2>1, <2>2 DEF NetInv
<1>5. ASSUME NEW c \in Chans, NEW W, W \subseteq net[c].on, online' = online,
             net' = [net EXCEPT ![c].ops = W]
      PROVE  NetInv'
  <2>1. \A d \in Chans : net'[d].on = net[d].on /\ net'[d].ops = IF d = c THEN W ELSE net[d].ops
    BY <1>1, <1>5
  <2> QED BY <1>1, <1>5, <2>1 DEF NetInv
<1>6. ASSUME NEW u \in Users, NetSignOn(u) \/ NetQuit(u) \/ NetJoin0(u) PROVE NetInv'
  <2>1. CASE NetSignOn(u)
    BY <1>1, <2>1 DEF NetSignOn, NetInv
  <2>2. CASE NetQuit(u) \/ NetJoin0(u)
    BY <1>3, <2>2 DEF NetQuit, NetJoin0
  <2> QED BY <1>6, <2>1, <2>2
<1>7. ASSUME NEW c \in Chans, NEW u \in Users, NEW x \in Users,
             NetJoin(c, u) \/ NetPart(c, u) \/ NetKick(c, x, u) \/ NetMode(c, x, u)
      PROVE  NetInv'
  <2>1. CASE NetJoin(c, u)
    <3>1. u \in online /\ online' = online
      BY <2>1 DEF NetJoin
    <3>2. \A d \in Chans : /\ net'[d].on = IF d = c THEN net[d].on \cup {u} ELSE net[d].on
                           /\ net'[d].ops = net[d].ops \/ (d = c /\ net'[d].ops = net[d].ops \cup {u})
      BY <1>1, <2>1 DEF NetJoin
    <3> QED BY <1>1, <3>1, <3>2 DEF NetInv
  <2>2. CASE NetPart(c, u) \/ NetKick(c, x, u)
    <3>1. net' = [net EXCEPT ![c] = NetGone(net[c], u)] /\ online' = online
      BY <2>2 DEF NetPart, NetKick
    <3> QED BY <1>4, <3>1
  <2>3. CASE NetMode(c, x, u)
    <3>1. u \in net[c].on /\ online' = online
      BY <2>3 DEF NetMode
    <3>2. \/ net' = [net EXCEPT ![c].ops = net[c].ops \ {u}]
          \/ net' = [net EXCEPT ![c].ops = net[c].ops \cup {u}]
      BY <2>3 DEF NetMode
    <3>3. net[c].ops \ {u} \subseteq net[c].on /\ net[c].ops \cup {u} \subseteq net[c].on
      BY <1>1, <3>1
    <3> QED BY <1>5, <3>1, <3>2, <3>3
  <2> QED BY <1>7, <2>1, <2>2, <2>3
<1>8. CASE NetReceive
  <2> DEFINE m == Head(out)
  <2>1. m \in ToNet /\ online' = online
    BY <1>8 DEF NetReceive, TypeOK
  <2>2. m.chan \in Chans /\ (m.type = "kick" => m.user \in Users)
    <3> HIDE DEF m
    <3> QED BY <2>1, OutFields
  <2>3. CASE m.type = "kick" /\ NetKicked(m.chan, m.user)
    <3> HIDE DEF m
    <3>1. net' = net \/ net' = [net EXCEPT ![m.chan] = NetGone(net[m.chan], m.user)]
      BY <2>3 DEF NetKicked
    <3> QED BY <1>2, <1>4, <2>1, <2>2, <2>3, <3>1 DEF netVars
  <2>4. CASE net' = [net EXCEPT ![m.chan].ops = @ \cup ({m.user} \cap net[m.chan].on)]
    <3> HIDE DEF m
    <3>1. net[m.chan].ops \cup ({m.user} \cap net[m.chan].on) \subseteq net[m.chan].on
      BY <1>1, <2>2
    <3> QED BY <1>5, <2>1, <2>2, <2>4, <3>1
  <2>5. CASE net' = [net EXCEPT ![m.chan].ops = @ \ {m.user}]
    <3> HIDE DEF m
    <3>1. net[m.chan].ops \ {m.user} \subseteq net[m.chan].on
      BY <1>1, <2>2
    <3> QED BY <1>5, <2>1, <2>2, <2>5, <3>1
  <2>6. CASE net' = [net EXCEPT ![m.chan].cs = (m.type = "csjoin")]
    <3> HIDE DEF m
    <3>1. \A d \in Chans : net'[d].on = net[d].on /\ net'[d].ops = net[d].ops
      BY <1>1, <2>2, <2>6
    <3> QED BY <1>1, <2>1, <3>1 DEF NetInv
  <2> QED BY <1>8, <2>3, <2>4, <2>5, <2>6 DEF NetReceive
<1>9. CASE NetUser
  BY <1>6, <1>7, <1>9 DEF NetUser
<1>10. CASE Receive
  BY <1>2, <1>10 DEF Receive
<1>11. CASE Commands \/ \E c \in Chans : EndGhost(c) \/ Change(c)
  BY <1>2, <1>11, Commanded
<1> QED BY <1>2, <1>8, <1>9, <1>10, <1>11 DEF Next, vars, netVars

\* What the rest of this module relies on.
Base == TypeOK /\ PointersLive /\ KnowInv /\ NetInv

\* ... in every state.
LEMMA BaseHolds ==
    ASSUME MaxChans <= Slots
    PROVE  Spec => []Base
<1>1. Init => KnowInv /\ NetInv
  <2> SUFFICES ASSUME Init PROVE KnowInv /\ NetInv
    OBVIOUS
  <2>1. in = <<>> /\ users = {} /\ online = {}
    BY DEF Init
  <2>2. KnowInv
    BY <2>1, LastEmpty DEF KnowInv, KnowAll, Known
  <2>3. NetInv
    BY DEF Init, NetInv
  <2> QED BY <2>2, <2>3
<1>2. TypeOK /\ KnowInv /\ NetInv /\ [Next]_vars => KnowInv' /\ NetInv'
  BY KnowStep, NetStep
<1>3. TypeOK /\ PointersLive /\ KnowInv /\ NetInv => Base
  BY DEF Base
<1> QED BY <1>1, <1>2, <1>3, TypeCorrect, SlotsSuffice, PTL DEF Spec
-----------------------------------------------------------------------------
(***************************************************************************)
(* What services send.                                                     *)
(***************************************************************************)

\* The message x is on its way from services.
Queued(p, x) == \E i \in 1 .. Len(p) : p[i] = x
Sent(x) == Queued(out, x)

\* What is put behind the queue of services.
More(w) == out' = out \o w

\* The messages of two queues, one behind the other.
LEMMA Longer ==
    ASSUME NEW X, NEW q \in Seq(X), NEW w \in Seq(X)
    PROVE  /\ Len(q \o w) = Len(q) + Len(w) /\ Len(q) \in Nat /\ Len(w) \in Nat
           /\ \A i \in 1 .. Len(q) : (q \o w)[i] = q[i] /\ i \in 1 .. Len(q \o w)
           /\ \A i \in 1 .. Len(w) : (q \o w)[Len(q) + i] = w[i] /\ Len(q) + i \in 1 .. Len(q \o w)
           /\ \A i \in 1 .. Len(q \o w) :
                 i \in 1 .. Len(q) \/ (i - Len(q) \in 1 .. Len(w) /\ (q \o w)[i] = w[i - Len(q)])
OBVIOUS

\* What was sent stays, and what is put behind it is sent.
LEMMA SentMore ==
    ASSUME TypeOK, NEW w \in Seq(ToNet), More(w)
    PROVE  \A x : Sent(x)' <=> Sent(x) \/ \E i \in 1 .. Len(w) : w[i] = x
<1> DEFINE r == out \o w
<1>1. out' = r /\ out \in Seq(ToNet)
  BY DEF More, TypeOK
<1>2. /\ \A i \in 1 .. Len(out) : r[i] = out[i] /\ i \in 1 .. Len(r)
      /\ \A i \in 1 .. Len(w) : r[Len(out) + i] = w[i] /\ Len(out) + i \in 1 .. Len(r)
      /\ \A i \in 1 .. Len(r) :
            i \in 1 .. Len(out) \/ (i - Len(out) \in 1 .. Len(w) /\ r[i] = w[i - Len(out)])
  BY <1>1, Longer
<1> HIDE DEF r
<1> SUFFICES ASSUME NEW x
             PROVE  Sent(x)' <=> Sent(x) \/ \E i \in 1 .. Len(w) : w[i] = x
  OBVIOUS
<1>3. Sent(x)' <=> \E i \in 1 .. Len(r) : r[i] = x
  BY <1>1 DEF Sent, Queued
<1>4. Sent(x) => \E i \in 1 .. Len(r) : r[i] = x
  BY <1>2 DEF Sent, Queued
<1>5. (\E i \in 1 .. Len(w) : w[i] = x) => \E i \in 1 .. Len(r) : r[i] = x
  BY <1>2
<1>6. (\E i \in 1 .. Len(r) : r[i] = x) => Sent(x) \/ \E i \in 1 .. Len(w) : w[i] = x
  BY <1>2 DEF Sent, Queued
<1> QED BY <1>3, <1>4, <1>5, <1>6

\* The operator messages of w are for those that have the access for it.
OpsFit(w) == \A i \in 1 .. Len(w), c \in Chans, u \in Users :
                w[i] = Msg("op", c, u) => rules[c].reg /\ Level(c, u) >= AOP

\* One message is put behind the queue, or none, or two.
LEMMA FewMore ==
    ASSUME NEW q \in Seq(ToNet), NEW x \in ToNet, NEW y \in ToNet
    PROVE  /\ q = q \o <<>> /\ Append(q, x) = q \o <<x>>
           /\ <<>> \in Seq(ToNet) /\ <<x>> \in Seq(ToNet) /\ <<x, y>> \in Seq(ToNet)
           /\ Len(<<>>) = 0 /\ Len(<<x>>) = 1 /\ <<x>>[1] = x
           /\ Len(<<x, y>>) = 2 /\ <<x, y>>[1] = x /\ <<x, y>>[2] = y
OBVIOUS

\* v has x and what is in w.
Holds(v, x, w) ==
    /\ \A i \in 1 .. Len(v) : v[i] = x \/ \E j \in 1 .. Len(w) : v[i] = w[j]
    /\ \A j \in 1 .. Len(w) : \E i \in 1 .. Len(v) : v[i] = w[j]

\* One message and then the others.
LEMMA Regroup ==
    ASSUME NEW X, NEW q \in Seq(X), NEW x \in X, NEW w \in Seq(X)
    PROVE  \E v \in Seq(X) : Append(q, x) \o w = q \o v /\ Holds(v, x, w)
<1> DEFINE s == <<x>>
           v == s \o w
<1>1. s \in Seq(X) /\ Len(s) = 1 /\ s[1] = x /\ Append(q, x) = q \o s
  OBVIOUS
<1> HIDE DEF s
<1>2. v \in Seq(X) /\ Append(q, x) \o w = q \o v
  <2>1. (q \o s) \o w = q \o (s \o w)
    BY <1>1, ConcatAssociative
  <2> QED BY <1>1, <2>1
<1>3. /\ Len(w) \in Nat /\ Len(v) = 1 + Len(w) /\ v[1] = x
      /\ \A i \in 2 .. Len(v) : v[i] = w[i - 1]
  BY <1>1
<1> HIDE DEF v
<1>4. \A i \in 1 .. Len(v) : v[i] = x \/ \E j \in 1 .. Len(w) : v[i] = w[j]
  <2> SUFFICES ASSUME NEW i \in 1 .. Len(v) PROVE v[i] = x \/ \E j \in 1 .. Len(w) : v[i] = w[j]
    OBVIOUS
  <2>1. CASE i = 1
    BY <1>3, <2>1
  <2>2. CASE i \in 2 .. Len(v)
    <3>1. i - 1 \in 1 .. Len(w) /\ v[i] = w[i - 1]
      BY <1>3, <2>2
    <3> QED BY <3>1
  <2> QED BY <1>3, <2>1, <2>2
<1>5. \A j \in 1 .. Len(w) : \E i \in 1 .. Len(v) : v[i] = w[j]
  <2> SUFFICES ASSUME NEW j \in 1 .. Len(w) PROVE \E i \in 1 .. Len(v) : v[i] = w[j]
    OBVIOUS
  <2>1. j + 1 \in 2 .. Len(v) /\ j + 1 - 1 = j
    BY <1>3
  <2>2. v[j + 1] = w[j]
    BY <1>3, <2>1
  <2> QED BY <1>3, <2>1, <2>2
<1> QED BY <1>2, <1>4, <1>5 DEF Holds

\* What services answer to a message: they only op whom they may.
LEMMA HeardSends ==
    ASSUME TypeOK, Receive
    PROVE  \E w \in Seq(ToNet) : More(w) /\ OpsFit(w)
<1> DEFINE m == Head(in)  c == m.chan  u == m.user
<1>1. Hears(m) /\ u \in Users /\ out \in Seq(ToNet)
  BY Heard DEF TypeOK
<1>2. CASE out' = out
  <2>1. out' = out \o <<>> /\ <<>> \in Seq(ToNet)
    BY <1>1, <1>2
  <2>2. OpsFit(<<>>)
    BY DEF OpsFit
  <2> QED BY <2>1, <2>2 DEF More
<1>3. ASSUME NEW x \in ToNet, x.type # "op", out' = Append(out, x)
      PROVE  \E w \in Seq(ToNet) : More(w) /\ OpsFit(w)
  <2>1. out' = out \o <<x>> /\ <<x>> \in Seq(ToNet) /\ Len(<<x>>) = 1 /\ <<x>>[1] = x
    BY <1>1, <1>3
  <2>2. OpsFit(<<x>>)
    BY <1>3, <2>1 DEF OpsFit, Msg
  <2> QED BY <2>1, <2>2 DEF More
<1>4. ASSUME NEW d \in Chans, NEW v \in Users, rules[d].reg /\ Level(d, v) >= AOP,
             out' = Append(out, Msg("op", d, v))
      PROVE  \E w \in Seq(ToNet) : More(w) /\ OpsFit(w)
  <2> DEFINE x == Msg("op", d, v)
  <2>1. x \in ToNet
    BY MakeOut
  <2>2. x.chan = d /\ x.user = v
    BY DEF Msg
  <2>3. \A e \in Chans, z \in Users : Msg("op", e, z).chan = e /\ Msg("op", e, z).user = z
    BY DEF Msg
  <2> HIDE DEF x
  <2>4. out' = out \o <<x>> /\ <<x>> \in Seq(ToNet) /\ Len(<<x>>) = 1 /\ <<x>>[1] = x
    BY <1>1, <1>4, <2>1 DEF x
  <2>5. OpsFit(<<x>>)
    BY <1>4, <2>2, <2>3, <2>4 DEF OpsFit
  <2> QED BY <2>4, <2>5 DEF More
<1>5. CASE m.type = "join" /\ c \in Chans /\ OnJoin(c, u)
  <2> HIDE DEF m
  <2>1. Msg("kick", c, u) \in ToNet /\ Msg("kick", c, u).type = "kick"
    BY <1>1, <1>5, MakeOut DEF Msg
  <2>2. GhostJoin(c) \in ToNet /\ GhostJoin(c).type = "csjoin"
    BY <1>1, <1>5, MakeOut DEF GhostJoin
  <2>3. CASE out' = out \o <<GhostJoin(c), Msg("kick", c, u)>>
    <3> DEFINE x == GhostJoin(c)  y == Msg("kick", c, u)
    <3>1. x \in ToNet /\ x.type # "op" /\ y \in ToNet /\ y.type # "op"
      BY <2>1, <2>2
    <3>2. out' = out \o <<x, y>>
      BY <2>3
    <3> HIDE DEF x, y
    <3>3. <<x, y>> \in Seq(ToNet) /\ Len(<<x, y>>) = 2 /\ <<x, y>>[1] = x /\ <<x, y>>[2] = y
      BY <3>1
    <3>4. \A i \in 1 .. 2 : <<x, y>>[i].type # "op"
      BY <3>1, <3>3
    <3>5. OpsFit(<<x, y>>)
      BY <3>3, <3>4 DEF OpsFit, Msg
    <3> QED BY <3>2, <3>3, <3>5 DEF More
  <2>4. \/ out' = out \/ (rules[c].reg /\ Level(c, u) >= AOP /\ out' = Append(out, Msg("op", c, u)))
        \/ out' = Append(out, Msg("kick", c, u)) \/ out' = out \o <<GhostJoin(c), Msg("kick", c, u)>>
    BY <1>5 DEF OnJoin
  <2> QED BY <1>1, <1>2, <1>3, <1>4, <1>5, <2>1, <2>3, <2>4
<1>6. CASE m.type = "op" /\ c \in Chans /\ OnOp(c, u)
  <2> HIDE DEF m
  <2>1. Msg("deop", c, u) \in ToNet /\ Msg("deop", c, u).type = "deop"
    BY <1>1, <1>6, MakeOut DEF Msg
  <2>2. out' = out \/ out' = Append(out, Msg("deop", c, u))
    BY <1>6 DEF OnOp
  <2> QED BY <1>2, <1>3, <2>1, <2>2
<1>7. CASE m.type = "deop" /\ c \in Chans /\ OnDeop(c, u, m.by)
  <2> HIDE DEF m
  <2>1. out' = out \/ (rules[c].reg /\ Level(c, u) >= AOP /\ out' = Append(out, Msg("op", c, u)))
    BY <1>7 DEF OnDeop
  <2> QED BY <1>1, <1>2, <1>4, <1>7, <2>1
<1>8. CASE m.type \in {"part", "kick"} /\ c \in Chans /\ OnPart(c, u)
  BY <1>2, <1>8 DEF OnPart
<1> HIDE DEF m
<1> QED BY <1>1, <1>2, <1>5, <1>6, <1>7, <1>8 DEF Hears

\* What a command sends.
LEMMA CommandSends ==
    ASSUME TypeOK, Commands \/ \E c \in Chans : EndGhost(c) \/ Change(c)
    PROVE  \E w \in Seq(ToNet) : More(w) /\ OpsFit(w)
<1>1. out \in Seq(ToNet)
  BY DEF TypeOK
<1>2. ASSUME NEW x \in ToNet, out' = Append(out, x),
             \A d \in Chans, v \in Users :
                x = Msg("op", d, v) => rules[d].reg /\ Level(d, v) >= AOP
      PROVE  \E w \in Seq(ToNet) : More(w) /\ OpsFit(w)
  <2>1. out' = out \o <<x>> /\ <<x>> \in Seq(ToNet) /\ Len(<<x>>) = 1 /\ <<x>>[1] = x
    BY <1>1, <1>2
  <2>2. OpsFit(<<x>>)
    BY <1>2, <2>1 DEF OpsFit
  <2> QED BY <2>1, <2>2 DEF More
<1>3. ASSUME NEW c \in Chans, NEW x \in Users, NEW u \in Users, Op(c, x, u)
      PROVE  \E w \in Seq(ToNet) : More(w) /\ OpsFit(w)
  <2> DEFINE y == Msg("op", c, u)
  <2>1. y \in ToNet /\ y.chan = c /\ y.user = u
    BY MakeOut DEF Msg
  <2>2. \A d \in Chans, v \in Users : Msg("op", d, v).chan = d /\ Msg("op", d, v).user = v
    BY DEF Msg
  <2>3. out' = Append(out, y) /\ rules[c].reg /\ Level(c, u) >= AOP
    BY <1>3 DEF Op
  <2> HIDE DEF y
  <2> QED BY <1>2, <2>1, <2>2, <2>3
<1>4. ASSUME NEW c \in Chans, NEW x \in Users, NEW u \in Users, Deop(c, x, u)
      PROVE  \E w \in Seq(ToNet) : More(w) /\ OpsFit(w)
  <2> DEFINE y == Msg("deop", c, u)
  <2>1. y \in ToNet /\ \A d \in Chans, v \in Users : y # Msg("op", d, v)
    BY MakeOut DEF Msg
  <2>2. out' = Append(out, y)
    BY <1>4 DEF Deop
  <2> HIDE DEF y
  <2> QED BY <1>2, <2>1, <2>2
<1>5. ASSUME NEW c \in Chans, NEW x \in Users, Mdeop(c, x)
      PROVE  \E w \in Seq(ToNet) : More(w) /\ OpsFit(w)
  <2> DEFINE us == {u \in chan[c].on : Level(c, u) < Level(c, x)}
             w == Each("deop", c, us)
  <2>1. us \in SUBSET Users
    BY DEF TypeOK
  <2>2. More(w)
    BY <1>5 DEF Mdeop, More
  <2> HIDE DEF us
  <2>3. w \in Seq(ToNet) /\ \A i \in 1 .. Len(w) : \E u \in us : w[i] = Msg("deop", c, u)
    BY <2>1, EachHas
  <2> HIDE DEF w
  <2>4. \A i \in 1 .. Len(w) : w[i].type = "deop"
    <3>1. \A u \in us : Msg("deop", c, u).type = "deop"
      BY DEF Msg
    <3> QED BY <2>3, <3>1
  <2>5. OpsFit(w)
    <3>1. \A d \in Chans, u \in Users : Msg("op", d, u).type = "op"
      BY DEF Msg
    <3> QED BY <2>4, <3>1 DEF OpsFit
  <2> QED BY <2>2, <2>3, <2>5
<1>6. ASSUME NEW c \in Chans, NEW x \in Users, Mkick(c, x)
      PROVE  \E w \in Seq(ToNet) : More(w) /\ OpsFit(w)
  <2> DEFINE us == chan[c].on
             w == Each("kick", c, us)
             g == GhostJoin(c)
  <2>1. us \in SUBSET Users /\ g \in ToNet /\ g.type = "csjoin"
    BY MakeOut DEF TypeOK, GhostJoin
  <2>2. out' = Append(out, g) \o w
    BY <1>6 DEF Mkick
  <2> HIDE DEF us, g
  <2>3. w \in Seq(ToNet) /\ \A i \in 1 .. Len(w) : \E u \in us : w[i] = Msg("kick", c, u)
    BY <2>1, EachHas
  <2> HIDE DEF w
  <2>4. PICK v \in Seq(ToNet) : Append(out, g) \o w = out \o v /\ Holds(v, g, w)
    <3>1. g \in ToNet /\ w \in Seq(ToNet)
      BY <2>1, <2>3
    <3> QED BY <1>1, <3>1, Regroup
  <2>5. \A i \in 1 .. Len(v) : v[i].type # "op"
    <3>1. \A u \in us : Msg("kick", c, u).type = "kick"
      BY DEF Msg
    <3>2. \A j \in 1 .. Len(w) : w[j].type = "kick"
      BY <2>3, <3>1
    <3> QED BY <2>1, <2>4, <3>2 DEF Holds
  <2>6. OpsFit(v)
    <3>1. \A d \in Chans, u \in Users : Msg("op", d, u).type = "op"
      BY DEF Msg
    <3> QED BY <2>5, <3>1 DEF OpsFit
  <2> QED BY <2>2, <2>4, <2>6 DEF More
<1>7. ASSUME NEW c \in Chans, EndGhost(c)
      PROVE  \E w \in Seq(ToNet) : More(w) /\ OpsFit(w)
  <2> DEFINE y == [type |-> "cspart", chan |-> c]
  <2>1. y \in ToNet /\ y.type = "cspart"
    BY DEF ToNet
  <2>2. out' = Append(out, y)
    BY <1>7 DEF EndGhost
  <2> HIDE DEF y
  <2>3. \A d \in Chans, v \in Users : y # Msg("op", d, v)
    BY <2>1 DEF Msg
  <2> QED BY <1>2, <2>1, <2>2, <2>3
<1>8. ASSUME NEW c \in Chans, Change(c)
      PROVE  \E w \in Seq(ToNet) : More(w) /\ OpsFit(w)
  <2>1. out' = out \o <<>> /\ <<>> \in Seq(ToNet)
    BY <1>1, <1>8 DEF Change
  <2>2. OpsFit(<<>>)
    BY DEF OpsFit
  <2> QED BY <2>1, <2>2 DEF More
<1> QED BY <1>3, <1>4, <1>5, <1>6, <1>7, <1>8 DEF Commands
-----------------------------------------------------------------------------
(***************************************************************************)
(* Services know who is in a channel.                                      *)
(***************************************************************************)

\* What services do with a message about u and c, and with the others.
LEMMA HeardPlaces ==
    ASSUME TypeOK, PointersLive, Receive, NEW c \in Chans, NEW u \in Users
    PROVE  /\ Head(in) \notin AboutOf(c, u) => (u \in chan'[c].on <=> u \in chan[c].on)
           /\ Leaves(Head(in), c, u) => u \notin chan'[c].on
           /\ Head(in) \in AboutOf(c, u) /\ Head(in).type = "join" =>
                /\ u \in users /\ u \notin chan'[c].on => Sent(Msg("kick", c, u))'
                /\ u \in chan'[c].on => ~Refused(c, u, chan[c].on = {})
<1> DEFINE m == Head(in)
<1>1. m \in FromNet /\ m.user \in Users /\ Hears(m)
  BY Heard
<1>2. (u \in chan[c].on => u \in users) /\ (c \in slot[u] <=> u \in chan[c].on)
  BY DEF PointersLive
<1>3. chan[c].on \in SUBSET Users /\ out \in Seq(ToNet)
  BY DEF TypeOK
<1> DEFINE Goal == /\ m \notin AboutOf(c, u) => (u \in chan'[c].on <=> u \in chan[c].on)
                   /\ Leaves(m, c, u) => u \notin chan'[c].on
                   /\ m \in AboutOf(c, u) /\ m.type = "join" =>
                        /\ u \in users /\ u \notin chan'[c].on => Sent(Msg("kick", c, u))'
                        /\ u \in chan'[c].on => ~Refused(c, u, chan[c].on = {})
<1> SUFFICES Goal
  OBVIOUS
<1> HIDE DEF m
<1>4. CASE m.type = "join" /\ m.chan \in Chans /\ OnJoin(m.chan, m.user)
  <2>1. m \in AboutOf(c, u) <=> c = m.chan /\ u = m.user
    BY <1>1, <1>4 DEF AboutOf
  <2>2. ~Leaves(m, c, u)
    BY <1>4 DEF Leaves
  <2>3. CASE m.user \notin users
    <3>1. UNCHANGED chan
      BY <1>4, <2>3 DEF OnJoin, servVars
    <3>2. m \in AboutOf(c, u) => u \notin chan'[c].on /\ u \notin users
      BY <1>2, <2>1, <2>3, <3>1
    <3> QED BY <2>2, <3>1, <3>2
  <2>4. CASE m.user \in users /\ ~Refused(m.chan, m.user, chan[m.chan].on = {})
    <3> DEFINE op == rules[m.chan].reg /\ Level(m.chan, m.user) >= AOP
    <3>1. Enter(m.chan, m.user, op)
      BY <1>4, <2>4 DEF OnJoin
    <3>2. op \in BOOLEAN
      OBVIOUS
    <3> HIDE DEF op
    <3>3. u \in chan'[c].on <=> u \in chan[c].on \/ (c = m.chan /\ u = m.user)
      BY <1>1, <1>4, <3>1, <3>2, EnterDoes
    <3> QED BY <2>1, <2>2, <2>4, <3>3
  <2>5. CASE m.user \in users /\ Refused(m.chan, m.user, chan[m.chan].on = {})
    <3>1. Leave(m.chan, {m.user})
      BY <1>4, <2>5 DEF OnJoin
    <3>2. u \in chan'[c].on <=> u \in chan[c].on /\ ~(c = m.chan /\ u \in {m.user})
      BY <1>4, <3>1, LeaveDoes
    <3>3. ASSUME c = m.chan, u = m.user PROVE Sent(Msg("kick", c, u))'
      <4> DEFINE x == Msg("kick", c, u)  g == GhostJoin(c)
      <4>1. out' = Append(out, x) \/ out' = out \o <<g, x>>
        BY <1>4, <2>5, <3>3 DEF OnJoin
      <4>2. x \in ToNet /\ g \in ToNet
        BY MakeOut DEF GhostJoin
      <4> HIDE DEF x, g
      <4>3. \E i \in 1 .. Len(Append(out, x)) : Append(out, x)[i] = x
        BY <1>3, <4>2, Behind
      <4>4. \E i \in 1 .. Len(out \o <<g, x>>) : (out \o <<g, x>>)[i] = x
        <5>1. out \o <<g, x>> = Append(Append(out, g), x) /\ Append(out, g) \in Seq(ToNet)
          BY <1>3, <4>2, Behind
        <5>2. \E i \in 1 .. Len(Append(Append(out, g), x)) : Append(Append(out, g), x)[i] = x
          <6> DEFINE q == Append(out, g)
          <6>1. q \in Seq(ToNet)
            BY <5>1
          <6> HIDE DEF q
          <6>2. \E i \in 1 .. Len(Append(q, x)) : Append(q, x)[i] = x
            BY <4>2, <6>1, Behind
          <6> QED BY <6>2 DEF q
        <5> QED BY <5>1, <5>2
      <4>5. \E i \in 1 .. Len(out') : out'[i] = x
        BY <4>1, <4>3, <4>4
      <4> QED BY <4>5 DEF Sent, Queued, x
    <3>4. m \in AboutOf(c, u) => Sent(Msg("kick", c, u))' /\ u \notin chan'[c].on
      BY <2>1, <3>2, <3>3
    <3> QED BY <2>1, <2>2, <3>2, <3>4
  <2> QED BY <2>3, <2>4, <2>5
<1>5. CASE m.type \in {"part", "kick"} /\ m.chan \in Chans /\ OnPart(m.chan, m.user)
  <2>1. m \in AboutOf(c, u) <=> c = m.chan /\ u = m.user
    BY <1>1, <1>5 DEF AboutOf
  <2>2. CASE Leave(m.chan, {m.user})
    <3>1. u \in chan'[c].on <=> u \in chan[c].on /\ ~(c = m.chan /\ u \in {m.user})
      BY <1>5, <2>2, LeaveDoes
    <3> QED BY <1>5, <2>1, <3>1 DEF Leaves
  <2>3. CASE m.user \notin users \cap chan[m.chan].on /\ UNCHANGED <<chan, slot>>
    <3>1. m \in AboutOf(c, u) => u \notin chan[c].on
      BY <1>2, <2>1, <2>3
    <3> QED BY <1>5, <2>3, <3>1 DEF Leaves
  <2> QED BY <1>5, <2>2, <2>3 DEF OnPart
<1>6. CASE m.type \in {"op", "deop"} /\ SamePlaces
  <2>1. m \notin AboutOf(c, u)
    BY <1>6 DEF AboutOf
  <2> QED BY <1>6, <2>1 DEF SamePlaces, Leaves
<1>7. CASE m.type \in {"join0", "quit"} /\ RemFromAllChans(m.user)
  <2>1. m \in AboutOf(c, u) <=> u = m.user
    BY <1>1, <1>7 DEF AboutOf
  <2>2. u \in chan'[c].on <=> u \in chan[c].on /\ ~(u = m.user /\ c \in slot[m.user])
    BY <1>1, <1>7, RemFromAllDoes
  <2> QED BY <1>2, <1>7, <2>1, <2>2 DEF Leaves
<1>8. CASE m.type = "nick" /\ UNCHANGED chan
  <2>1. m \notin AboutOf(c, u)
    BY <1>8 DEF AboutOf
  <2> QED BY <1>8, <2>1 DEF Leaves
<1>9. \/ m.type = "join" /\ m.chan \in Chans /\ OnJoin(m.chan, m.user)
      \/ m.type \in {"part", "kick"} /\ m.chan \in Chans /\ OnPart(m.chan, m.user)
      \/ m.type \in {"op", "deop"} /\ SamePlaces
      \/ m.type \in {"join0", "quit"} /\ RemFromAllChans(m.user)
      \/ m.type = "nick" /\ UNCHANGED chan
  BY <1>1 DEF Hears
<1> HIDE DEF Goal
<1> QED BY <1>4, <1>5, <1>6, <1>7, <1>8, <1>9

\* When the queue q is read, services have u among the members S of c, but for a
\* KICK in their queue p, just if the server has.
MemberAt(q, n, c, u, S, p) ==
    LET L == LastOf(q, AboutOf(c, u)) IN
    /\ \A m \in L : m.type = "join" <=> u \in n[c].on
    /\ L = {} => /\ u \in S => u \in n[c].on
                 /\ u \in n[c].on => u \in S \/ Queued(p, Msg("kick", c, u))

MemberInv == \A c \in Chans, u \in Users : MemberAt(in, net, c, u, chan[c].on, out)

\* What the server says of a member is what services will have.
LEMMA MemberSays ==
    ASSUME NEW q \in Seq(FromNet), NEW m \in FromNet, NEW n, NEW o, NEW c \in Chans, NEW u \in Users,
           NEW S, NEW p, MemberAt(q, n, c, u, S, p), SaysPlace(m, n, o)
    PROVE  MemberAt(Append(q, m), o, c, u, S, p)
<1>1. LastOf(Append(q, m), AboutOf(c, u)) = IF m \in AboutOf(c, u) THEN {m} ELSE LastOf(q, AboutOf(c, u))
  BY LastAppend
<1>2. u \in o[c].on <=> IF m \in AboutOf(c, u) THEN m.type = "join" ELSE u \in n[c].on
  BY DEF SaysPlace
<1>3. CASE m \in AboutOf(c, u)
  BY <1>1, <1>2, <1>3 DEF MemberAt
<1>4. CASE m \notin AboutOf(c, u)
  <2>1. LastOf(Append(q, m), AboutOf(c, u)) = LastOf(q, AboutOf(c, u))
    BY <1>1, <1>4
  <2>2. u \in o[c].on <=> u \in n[c].on
    BY <1>2, <1>4
  <2> QED BY <2>1, <2>2 DEF MemberAt
<1> QED BY <1>3, <1>4

\* What changes is what services have, or what they sent.
LEMMA MemberWeaker ==
    ASSUME NEW q, NEW n, NEW c, NEW u, NEW S, NEW p, NEW T, NEW r,
           MemberAt(q, n, c, u, S, p),
           u \in T => u \in S,
           u \in n[c].on /\ (u \in S \/ Queued(p, Msg("kick", c, u))) =>
              u \in T \/ Queued(r, Msg("kick", c, u))
    PROVE  MemberAt(q, n, c, u, T, r)
BY DEF MemberAt

\* Services read a message.
LEMMA MemberHeard ==
    ASSUME NEW q \in Seq(FromNet), q # <<>>, NEW n, NEW c \in Chans, NEW u \in Users,
           NEW S, NEW p, NEW T, NEW v,
           MemberAt(q, n, c, u, S, p),
           Queued(p, Msg("kick", c, u)) => Queued(v, Msg("kick", c, u)),
           Head(q) \notin AboutOf(c, u) => (u \in T <=> u \in S),
           Leaves(Head(q), c, u) => u \notin T,
           Head(q) \in AboutOf(c, u) /\ Head(q).type = "join" => u \in T \/ Queued(v, Msg("kick", c, u))
    PROVE  MemberAt(Tail(q), n, c, u, T, v)
<1> DEFINE M == AboutOf(c, u)  r == Tail(q)  m == Head(q)
           k == Queued(p, Msg("kick", c, u))  l == Queued(v, Msg("kick", c, u))
<1> SUFFICES MemberAt(r, n, c, u, T, v)
  OBVIOUS
<1>1. LastOf(q, M) = IF LastOf(r, M) # {} THEN LastOf(r, M) ELSE IF m \in M THEN {m} ELSE {}
  BY LastTail
<1>2. /\ \A x \in LastOf(q, M) : x.type = "join" <=> u \in n[c].on
      /\ LastOf(q, M) = {} => (u \in S => u \in n[c].on) /\ (u \in n[c].on => u \in S \/ k)
  BY DEF MemberAt
<1>3. /\ k => l
      /\ m \notin M => (u \in T <=> u \in S)
      /\ m \in M /\ m.type # "join" => u \notin T
      /\ m \in M /\ m.type = "join" => u \in T \/ l
  BY DEF Leaves
<1>4. SUFFICES /\ \A x \in LastOf(r, M) : x.type = "join" <=> u \in n[c].on
               /\ LastOf(r, M) = {} => (u \in T => u \in n[c].on) /\ (u \in n[c].on => u \in T \/ l)
  BY DEF MemberAt
<1> HIDE DEF M, r, m, k, l
<1>5. CASE LastOf(r, M) # {}
  BY <1>1, <1>2, <1>5
<1>6. CASE LastOf(r, M) = {} /\ m \in M
  <2>1. LastOf(q, M) = {m}
    BY <1>1, <1>6
  <2>2. m.type = "join" <=> u \in n[c].on
    BY <1>2, <2>1
  <2> QED BY <1>3, <1>6, <2>2
<1>7. CASE LastOf(r, M) = {} /\ m \notin M
  <2>1. LastOf(q, M) = {}
    BY <1>1, <1>7
  <2> QED BY <1>2, <1>3, <1>7, <2>1
<1> QED BY <1>5, <1>6, <1>7

\* The KICK of services stays on its way until the user is out.
LEMMA KickStays ==
    ASSUME TypeOK, NetUser \/ NetReceive, NEW c \in Chans, NEW u \in Users,
           Sent(Msg("kick", c, u))
    PROVE  Sent(Msg("kick", c, u))' \/ u \notin net'[c].on
<1>1. CASE NetUser
  <2>1. out' = out
    <3>1. \A x \in Users : NetSignOn(x) \/ NetQuit(x) \/ NetJoin0(x) => out' = out
      BY DEF NetSignOn, NetQuit, NetJoin0
    <3>2. \A d \in Chans, x \in Users : NetJoin(d, x) \/ NetPart(d, x) => out' = out
      BY DEF NetJoin, NetPart
    <3>3. \A d \in Chans, x \in Users, y \in Users : NetKick(d, y, x) \/ NetMode(d, y, x) => out' = out
      BY DEF NetKick, NetMode
    <3> QED BY <1>1, <3>1, <3>2, <3>3 DEF NetUser
  <2> QED BY <2>1 DEF Sent, Queued
<1>2. CASE NetReceive
  <2> DEFINE m == Head(out)
  <2>1. out \in Seq(ToNet) /\ out # <<>> /\ out' = Tail(out)
    BY <1>2 DEF NetReceive, TypeOK
  <2>2. /\ Len(out) \in Nat /\ Len(out') = Len(out) - 1 /\ m = out[1]
        /\ \A i \in 1 .. Len(out) - 1 : out'[i] = out[i + 1]
    BY <2>1, InFront
  <2>3. PICK i \in 1 .. Len(out) : out[i] = Msg("kick", c, u)
    BY DEF Sent, Queued
  <2>4. CASE i > 1
    <3>1. i - 1 \in 1 .. Len(out) - 1 /\ i - 1 + 1 = i
      BY <2>2, <2>4
    <3> QED BY <2>2, <2>3, <3>1 DEF Sent, Queued
  <2>5. CASE i = 1
    <3>1. m.type = "kick" /\ m.chan = c /\ m.user = u
      BY <2>2, <2>3, <2>5 DEF Msg
    <3>2. NetKicked(c, u)
      BY <1>2, <3>1 DEF NetReceive
    <3>3. CASE u \in net[c].on
      <4>1. net' = [net EXCEPT ![c] = NetGone(net[c], u)]
        BY <3>2, <3>3 DEF NetKicked
      <4>2. NetGone(net[c], u).on = net[c].on \ {u}
        BY GoneTypes
      <4> QED BY <4>1, <4>2 DEF TypeOK
    <3>4. CASE u \notin net[c].on
      BY <3>2, <3>4 DEF NetKicked
    <3> QED BY <3>3, <3>4
  <2> QED BY <2>4, <2>5
<1> QED BY <1>1, <1>2

\* cs_mkick() kicks every member.
LEMMA MkickSends ==
    ASSUME TypeOK, NEW c \in Chans, NEW x \in Users, Mkick(c, x), NEW u \in chan[c].on
    PROVE  Sent(Msg("kick", c, u))'
<1> DEFINE us == chan[c].on
           w == Each("kick", c, us)
           g == GhostJoin(c)
<1>1. us \in SUBSET Users /\ g \in ToNet /\ out \in Seq(ToNet) /\ u \in us
  BY MakeOut DEF TypeOK, GhostJoin
<1>2. out' = Append(out, g) \o w
  BY DEF Mkick
<1> HIDE DEF us, g
<1>3. w \in Seq(ToNet) /\ \E i \in 1 .. Len(w) : w[i] = Msg("kick", c, u)
  BY <1>1, EachHas
<1> HIDE DEF w
<1>4. PICK i \in 1 .. Len(w) : w[i] = Msg("kick", c, u)
  BY <1>3
<1>5. PICK v \in Seq(ToNet) : Append(out, g) \o w = out \o v /\ Holds(v, g, w)
  BY <1>1, <1>3, Regroup
<1>6. More(v)
  BY <1>2, <1>5 DEF More
<1>7. \E j \in 1 .. Len(v) : v[j] = Msg("kick", c, u)
  BY <1>4, <1>5 DEF Holds
<1> QED BY <1>6, <1>7, SentMore

\* Every step keeps the members of both ends together.
LEMMA MemberStep ==
    ASSUME Base, MemberInv, [Next]_vars
    PROVE  MemberInv'
<1>0. TypeOK /\ PointersLive /\ KnowInv
  BY DEF Base
<1> SUFFICES ASSUME NEW c \in Chans, NEW u \in Users
             PROVE  MemberAt(in', net', c, u, chan'[c].on, out')
  BY DEF MemberInv
<1> DEFINE x == Msg("kick", c, u)
<1>1. MemberAt(in, net, c, u, chan[c].on, out) /\ in \in Seq(FromNet)
  BY <1>0 DEF MemberInv, TypeOK
<1>2. CASE UNCHANGED vars
  BY <1>1, <1>2 DEF vars
<1>3. CASE (NetUser \/ NetReceive) /\ UNCHANGED <<servVars, rules, changes, before, orderly>>
  <2>1. chan' = chan
    BY <1>3 DEF servVars
  <2>2. SUFFICES MemberAt(in', net', c, u, chan[c].on, out)
    <3>1. u \in net'[c].on /\ Queued(out, x) => Queued(out', x)
      BY <1>0, <1>3, KickStays DEF Sent
    <3> QED BY <2>1, <3>1, MemberWeaker
  <2>3. CASE in' = in /\ Silent(net, online, net', online')
    BY <1>1, <2>3 DEF Silent, MemberAt
  <2>4. ASSUME NEW m \in FromNet, in' = Append(in, m), Says(m, net, online, net', online')
        PROVE  MemberAt(in', net', c, u, chan[c].on, out)
    BY <1>1, <2>4, MemberSays DEF Says
  <2>5. ASSUME NEW l \in FromNet, NEW m \in FromNet, in' = Append(Append(in, l), m),
               Says(l, net, online, net', online'), Says(m, net', online', net', online')
        PROVE  MemberAt(in', net', c, u, chan[c].on, out)
    <3> DEFINE q == Append(in, l)
    <3>1. q \in Seq(FromNet) /\ MemberAt(q, net', c, u, chan[c].on, out)
      BY <1>1, <2>5, MemberSays DEF Says
    <3>2. SaysPlace(m, net', net') /\ in' = Append(q, m)
      BY <2>5 DEF Says
    <3> HIDE DEF q
    <3> QED BY <3>1, <3>2, MemberSays
  <2> QED BY <1>0, <1>3, <2>3, <2>4, <2>5, ServerSays DEF Sends
<1>4. CASE Receive
  <2>1. in # <<>> /\ in' = Tail(in) /\ net' = net
    BY <1>0, <1>4, Heard DEF netVars
  <2>2. Queued(out, x) => Queued(out', x)
    BY <1>0, <1>4, HeardSends, SentMore DEF Sent
  <2>3. Head(in).type = "join" => Head(in).user \in users
    BY <1>0, <1>1, <1>4, <2>1, Heard, KnowHeard DEF KnowInv
  <2>4. Head(in) \in AboutOf(c, u) /\ Head(in).type = "join" => u \in users
    BY <2>3 DEF AboutOf
  <2>5. /\ Head(in) \notin AboutOf(c, u) => (u \in chan'[c].on <=> u \in chan[c].on)
        /\ Leaves(Head(in), c, u) => u \notin chan'[c].on
        /\ Head(in) \in AboutOf(c, u) /\ Head(in).type = "join" => u \in chan'[c].on \/ Queued(out', x)
    BY <1>0, <1>4, <2>4, HeardPlaces DEF Sent
  <2> QED BY <1>1, <2>1, <2>2, <2>5, MemberHeard
<1>5. CASE Commands \/ \E d \in Chans : EndGhost(d) \/ Change(d)
  <2>1. in' = in /\ net' = net
    BY <1>0, <1>5, Commanded DEF netVars
  <2>2. Queued(out, x) => Queued(out', x)
    BY <1>0, <1>5, CommandSends, SentMore DEF Sent
  <2>3. (u \in chan'[c].on => u \in chan[c].on) /\ (u \in chan[c].on => u \in chan'[c].on \/ Queued(out', x))
    <3>1. CASE SamePlaces
      BY <3>1 DEF SamePlaces
    <3>2. ASSUME NEW d \in Chans, NEW y \in Users, Mkick(d, y), Leave(d, chan[d].on)
          PROVE  (u \in chan'[c].on => u \in chan[c].on) /\ (u \in chan[c].on => u \in chan'[c].on \/ Queued(out', x))
      <4>1. u \in chan'[c].on <=> u \in chan[c].on /\ ~(c = d /\ u \in chan[d].on)
        BY <1>0, <3>2, LeaveDoes
      <4>2. c = d /\ u \in chan[c].on => Queued(out', x)
        BY <1>0, <3>2, MkickSends DEF Sent
      <4> QED BY <4>1, <4>2
    <3> QED BY <1>0, <1>5, <3>1, <3>2, Commanded
  <2> QED BY <1>1, <2>1, <2>2, <2>3, MemberWeaker
<1> QED BY <1>2, <1>3, <1>4, <1>5 DEF Next

\* ... in every state.
LEMMA MemberHolds ==
    ASSUME MaxChans <= Slots
    PROVE  Spec => []MemberInv
<1>1. Init => MemberInv
  <2> SUFFICES ASSUME Init, NEW c \in Chans, NEW u \in Users
               PROVE  MemberAt(in, net, c, u, chan[c].on, out)
    BY DEF MemberInv
  <2>1. in = <<>> /\ net[c].on = {} /\ chan[c].on = {}
    BY DEF Init
  <2> QED BY <2>1, LastEmpty DEF MemberAt
<1>2. Base /\ MemberInv /\ [Next]_vars => MemberInv'
  BY MemberStep
<1> QED BY <1>1, <1>2, BaseHolds, PTL DEF Spec

\* Once nothing is under way services know exactly who is in a channel, however
\* kicks, parts, joins and quits crossed.
THEOREM MembersKnown ==
    ASSUME MaxChans <= Slots
    PROVE  Spec => []MembersAgree
<1>1. TypeOK /\ MemberInv => MembersAgree
  <2> SUFFICES ASSUME TypeOK, MemberInv, Quiet, NEW c \in Chans PROVE chan[c].on = net[c].on
    BY DEF MembersAgree
  <2>1. chan[c].on \subseteq Users /\ net[c].on \subseteq Users
    BY DEF TypeOK
  <2>2. ASSUME NEW u \in Users PROVE u \in chan[c].on <=> u \in net[c].on
    <3>1. in = <<>> /\ out = <<>> /\ MemberAt(in, net, c, u, chan[c].on, out)
      BY DEF Quiet, MemberInv
    <3>2. ~Queued(<<>>, Msg("kick", c, u))
      BY DEF Queued
    <3> QED BY <3>1, <3>2, LastEmpty DEF MemberAt
  <2> QED BY <2>1, <2>2
<1> QED BY <1>1, MemberHolds, TypeCorrect, PTL
-----------------------------------------------------------------------------
(***************************************************************************)
(* Nobody who is not let in stays.                                         *)
(***************************************************************************)

\* addUserToChan() lets u into c.
May(c, u) ==
    rules[c].reg =>
        /\ Level(c, u) # -1
        /\ ~rules[c].closed \/ u \in Opers
        /\ Level(c, u) >= rules[c].restrict \/ Level(c, u) >= MFOUNDER

\* Whom it does not let in, and who was not there when the rules changed, is not
\* in the channel of services, or a message that takes it out is on its way.
KeptAt(c, u) ==
    u \in chan[c].on \ before[c] /\ ~May(c, u) => \E i \in 1 .. Len(in) : Leaves(in[i], c, u)

KeptInv == \A c \in Chans, u \in Users : KeptAt(c, u)

\* The access that the rules of the channel give to u.
Access(c, u) == IF rules[c].xfer \/ (rules[c].closed /\ u \notin Opers) THEN 0 ELSE rules[c].access[u]

\* A level is a number, and that of the rules for a user services know.
LEMMA LevelIs ==
    ASSUME TypeOK, NEW c \in Chans, NEW u \in Users
    PROVE  /\ rules[c].restrict \in Int /\ Access(c, u) \in Int /\ Level(c, u) \in Int
           /\ Level(c, u) = IF u \in users THEN Access(c, u) ELSE 0
<1>1. rules[c] \in Rule
  BY RuleTypes
<1>2. rules[c].restrict \in Int /\ rules[c].access[u] \in Int
  BY <1>1 DEF Rule, Levels, FOUNDER
<1> QED BY <1>2 DEF Level, Access

\* Who is in the channel of services and is not let in.
LEMMA RefusedIs ==
    ASSUME TypeOK, NEW c \in Chans, NEW u \in Users, NEW first \in BOOLEAN, ~Refused(c, u, first)
    PROVE  May(c, u)
BY LevelIs DEF Refused, May, MFOUNDER

\* A message further back that takes a user out stays.
LEMMA LeavesStays ==
    ASSUME NEW q \in Seq(FromNet), NEW c, NEW u, NEW i \in 1 .. Len(q), Leaves(q[i], c, u)
    PROVE  /\ \A m \in FromNet : \E j \in 1 .. Len(Append(q, m)) : Leaves(Append(q, m)[j], c, u)
           /\ q # <<>> =>
                Leaves(Head(q), c, u) \/ \E j \in 1 .. Len(Tail(q)) : Leaves(Tail(q)[j], c, u)
<1>1. ASSUME NEW m \in FromNet
      PROVE  \E j \in 1 .. Len(Append(q, m)) : Leaves(Append(q, m)[j], c, u)
  <2>1. i \in 1 .. Len(Append(q, m)) /\ Append(q, m)[i] = q[i]
    OBVIOUS
  <2> QED BY <2>1
<1>2. ASSUME q # <<>>
      PROVE  Leaves(Head(q), c, u) \/ \E j \in 1 .. Len(Tail(q)) : Leaves(Tail(q)[j], c, u)
  <2> DEFINE r == Tail(q)
  <2>1. /\ Len(r) = Len(q) - 1 /\ Head(q) = q[1] /\ Len(q) \in Nat
        /\ \A j \in 1 .. Len(q) - 1 : r[j] = q[j + 1]
    BY <1>2, InFront
  <2> HIDE DEF r
  <2>2. CASE i = 1
    BY <2>1, <2>2
  <2>3. CASE i > 1
    <3>1. i - 1 \in 1 .. Len(r) /\ i - 1 + 1 = i
      BY <2>1, <2>3
    <3>2. r[i - 1] = q[i]
      BY <2>1, <3>1
    <3>3. \E j \in 1 .. Len(r) : Leaves(r[j], c, u)
      BY <3>1, <3>2
    <3> QED BY <3>3 DEF r
  <2> QED BY <2>2, <2>3
<1> QED BY <1>1, <1>2

\* Every step keeps out whom the rules do not let in.
LEMMA KeptStep ==
    ASSUME Base, MemberInv, KeptInv, [Next]_vars
    PROVE  KeptInv'
<1>0. TypeOK /\ PointersLive /\ in \in Seq(FromNet)
  BY DEF Base, TypeOK
<1> SUFFICES ASSUME NEW c \in Chans, NEW u \in Users, u \in chan'[c].on \ before'[c], ~May(c, u)'
             PROVE  \E i \in 1 .. Len(in') : Leaves(in'[i], c, u)
  BY DEF KeptInv, KeptAt
<1>1. ASSUME u \in chan[c].on \ before[c], ~May(c, u)
      PROVE  \E i \in 1 .. Len(in) : Leaves(in[i], c, u)
  BY <1>1 DEF KeptInv, KeptAt
<1>2. CASE UNCHANGED vars
  BY <1>1, <1>2 DEF vars, May, Level
<1>3. CASE (NetUser \/ NetReceive) /\ UNCHANGED <<servVars, rules, changes, before, orderly>>
  <2>1. u \in chan[c].on \ before[c] /\ ~May(c, u)
    BY <1>3 DEF servVars, May, Level
  <2>2. PICK i \in 1 .. Len(in) : Leaves(in[i], c, u)
    BY <1>1, <2>1
  <2>3. CASE in' = in
    BY <2>2, <2>3
  <2>4. ASSUME NEW m \in FromNet, in' = Append(in, m)
        PROVE  \E j \in 1 .. Len(in') : Leaves(in'[j], c, u)
    BY <1>0, <2>2, <2>4, LeavesStays
  <2>5. ASSUME NEW l \in FromNet, NEW m \in FromNet, in' = Append(Append(in, l), m)
        PROVE  \E j \in 1 .. Len(in') : Leaves(in'[j], c, u)
    <3> DEFINE q == Append(in, l)
    <3>1. q \in Seq(FromNet) /\ \E j \in 1 .. Len(q) : Leaves(q[j], c, u)
      BY <1>0, <2>2, LeavesStays
    <3>2. in' = Append(q, m)
      BY <2>5
    <3> HIDE DEF q
    <3>3. PICK j \in 1 .. Len(q) : Leaves(q[j], c, u)
      BY <3>1
    <3> QED BY <3>1, <3>2, <3>3, LeavesStays
  <2> QED BY <1>0, <1>3, <2>3, <2>4, <2>5, ServerSays DEF Sends
<1>4. CASE Receive
  <2> DEFINE m == Head(in)
  <2>1. /\ in # <<>> /\ in' = Tail(in) /\ rules' = rules /\ before' = before
        /\ m \in FromNet /\ m.user \in Users /\ Hears(m) /\ Signed(m, users, users')
    BY <1>0, <1>4, Heard
  <2>2. /\ m \notin AboutOf(c, u) => (u \in chan'[c].on <=> u \in chan[c].on)
        /\ Leaves(m, c, u) => u \notin chan'[c].on
        /\ m \in AboutOf(c, u) /\ m.type = "join" =>
             (u \in chan'[c].on => ~Refused(c, u, chan[c].on = {}))
    BY <1>0, <1>4, HeardPlaces
  <2>3. ASSUME m \in AboutOf(c, u), m.type = "join" PROVE FALSE
    <3>1. May(c, u)
      BY <1>0, <2>2, <2>3, RefusedIs
    <3>2. m.user = u
      BY <2>3 DEF AboutOf
    <3>3. users' = users
      <4> HIDE DEF m
      <4> QED BY <2>1, <2>3 DEF Hears
    <3> QED BY <2>1, <3>1, <3>3 DEF May, Level
  <2>4. ~Leaves(m, c, u) /\ m \notin AboutOf(c, u) /\ u \in chan[c].on
    BY <2>2, <2>3 DEF Leaves
  <2>5. u \in users /\ u \in users'
    <3>1. u \in users
      BY <1>0, <2>4 DEF PointersLive
    <3>2. m \in SignOf(u) => m.type = "nick" \/ m \in AboutOf(c, u)
      <4> HIDE DEF m
      <4> QED BY DEF SignOf, AboutOf
    <3> QED BY <2>1, <2>4, <3>1, <3>2 DEF Signed
  <2>6. ~May(c, u) /\ u \notin before[c]
    BY <2>1, <2>5 DEF May, Level
  <2>7. PICK i \in 1 .. Len(in) : Leaves(in[i], c, u)
    BY <1>1, <2>4, <2>6
  <2> QED BY <1>0, <2>1, <2>4, <2>7, LeavesStays
<1>5. CASE Commands \/ \E d \in Chans : EndGhost(d) \/ Change(d)
  <2>1. in' = in /\ net' = net /\ users' = users
    BY <1>0, <1>5, Commanded DEF netVars
  <2>2. u \in chan[c].on
    <3>1. CASE SamePlaces
      BY <3>1 DEF SamePlaces
    <3>2. ASSUME NEW d \in Chans, Leave(d, chan[d].on) PROVE u \in chan[c].on
      BY <1>0, <3>2, LeaveDoes
    <3> QED BY <1>0, <1>5, <3>1, <3>2, Commanded
  <2>3. CASE rules'[c] = rules[c] /\ before'[c] = before[c]
    <3>1. ~May(c, u) /\ u \notin before[c]
      BY <2>1, <2>3 DEF May, Level
    <3> QED BY <1>1, <2>1, <2>2, <3>1
  <2>4. CASE Change(c)
    <3>1. u \notin net[c].on
      BY <1>0, <2>4 DEF Change, TypeOK
    <3>2. MemberAt(in, net, c, u, chan[c].on, out)
      BY DEF MemberInv
    <3>3. PICK m \in LastOf(in, AboutOf(c, u)) : m.type # "join"
      BY <2>2, <3>1, <3>2 DEF MemberAt
    <3>4. \E i \in 1 .. Len(in) : Leaves(in[i], c, u)
      BY <3>3 DEF LastOf, Leaves
    <3> QED BY <2>1, <3>4
  <2>5. ASSUME NEW d \in Chans, d # c, Change(d) PROVE rules'[c] = rules[c] /\ before'[c] = before[c]
    BY <1>0, <2>5 DEF Change, TypeOK
  <2>6. ASSUME NEW d \in Chans, EndGhost(d) PROVE rules'[c] = rules[c] /\ before'[c] = before[c]
    BY <2>6 DEF EndGhost
  <2>7. ASSUME Commands PROVE rules'[c] = rules[c] /\ before'[c] = before[c]
    BY <2>7 DEF Commands, Mdeop, Mkick, Op, Deop
  <2> QED BY <1>5, <2>3, <2>4, <2>5, <2>6, <2>7
<1> QED BY <1>2, <1>3, <1>4, <1>5 DEF Next

\* Whom addUserToChan() does not let in is not in the channel once nothing is under
\* way, on whichever of its two paths the join came.
THEOREM Restricted ==
    ASSUME MaxChans <= Slots
    PROVE  Spec => []KeptOut
<1>1. Init => KeptInv
  BY DEF Init, KeptInv, KeptAt
<1>2. Base /\ MemberInv /\ KeptInv /\ [Next]_vars => KeptInv'
  BY KeptStep
<1>3. Base /\ MembersAgree /\ KeptInv => KeptOut
  <2> SUFFICES ASSUME Base, MembersAgree, KeptInv, Quiet, NEW c \in Chans, NEW u \in net[c].on \ before[c]
               PROVE  May(c, u)
    BY DEF KeptOut, May
  <2>1. u \in Users /\ u \in chan[c].on /\ in = <<>>
    BY DEF Base, TypeOK, MembersAgree, Quiet
  <2>2. KeptAt(c, u)
    BY <2>1 DEF KeptInv
  <2> QED BY <2>1, <2>2 DEF KeptAt
<1> QED BY <1>1, <1>2, <1>3, BaseHolds, MemberHolds, MembersKnown, PTL DEF Spec
-----------------------------------------------------------------------------
(***************************************************************************)
(* The operators of a guarded channel have the access for it.              *)
(***************************************************************************)

\* The channel is guarded, and its rules do not let u be an operator.
Unfit(c, u) ==
    rules[c].reg /\ rules[c].guard /\ ~rules[c].xfer /\ Access(c, u) < AOP

\* Of the messages of q one says that u is an operator of c, and it and those
\* behind it do not say where u is.
OpAt(q, i, c, u) ==
    /\ q[i].type = "op" /\ q[i].chan = c /\ q[i].user = u
    /\ \A j \in i .. Len(q) : q[j] \notin AboutOf(c, u)
OpLast(q, c, u) == \E i \in 1 .. Len(q) : OpAt(q, i, c, u)

\* A user that may not, and was not in the channel at the last change, is not
\* about to be opped by services; and if it is an operator, services are about to
\* read so, or are about to have it deopped or kicked.
GuardAt(c, u) ==
    Unfit(c, u) /\ u \notin before[c] =>
        /\ ~Sent(Msg("op", c, u))
        /\ u \in net[c].ops =>
              OpLast(in, c, u) \/ Sent(Msg("deop", c, u)) \/ Sent(Msg("kick", c, u))

GuardInv == \A c \in Chans, u \in Users : GuardAt(c, u)

\* What a message that says nothing of the place of u does to OpLast.
LEMMA OpLastAppend ==
    ASSUME NEW q \in Seq(FromNet), NEW m \in FromNet, NEW c, NEW u, m \notin AboutOf(c, u),
           OpLast(q, c, u) \/ (m.type = "op" /\ m.chan = c /\ m.user = u)
    PROVE  OpLast(Append(q, m), c, u)
<1> DEFINE r == Append(q, m)
<1>1. /\ Len(r) = Len(q) + 1 /\ Len(q) \in Nat /\ r[Len(q) + 1] = m
      /\ \A i \in 1 .. Len(q) : r[i] = q[i]
  OBVIOUS
<1> SUFFICES OpLast(r, c, u)
  OBVIOUS
<1> HIDE DEF r
<1>2. CASE m.type = "op" /\ m.chan = c /\ m.user = u
  <2>1. OpAt(r, Len(q) + 1, c, u)
    BY <1>1, <1>2 DEF OpAt
  <2>2. Len(q) + 1 \in 1 .. Len(r)
    BY <1>1
  <2> QED BY <2>1, <2>2 DEF OpLast
<1>3. CASE OpLast(q, c, u)
  <2>1. PICK i \in 1 .. Len(q) : OpAt(q, i, c, u)
    BY <1>3 DEF OpLast
  <2>2. i \in 1 .. Len(r) /\ r[i] = q[i]
    BY <1>1
  <2>3. ASSUME NEW j \in i .. Len(r) PROVE r[j] \notin AboutOf(c, u)
    <3>1. CASE j \in 1 .. Len(q)
      <4>1. j \in i .. Len(q) /\ r[j] = q[j]
        BY <1>1, <3>1
      <4> QED BY <2>1, <4>1 DEF OpAt
    <3>2. CASE j = Len(q) + 1
      BY <1>1, <3>2
    <3> QED BY <1>1, <3>1, <3>2
  <2>4. OpAt(r, i, c, u)
    BY <2>1, <2>2, <2>3 DEF OpAt
  <2> QED BY <2>2, <2>4 DEF OpLast
<1> QED BY <1>2, <1>3

\* When the head is read, the message is still there or it was the head.
LEMMA OpLastTail ==
    ASSUME NEW q \in Seq(FromNet), q # <<>>, NEW c, NEW u, OpLast(q, c, u)
    PROVE  \/ OpLast(Tail(q), c, u)
           \/ /\ Head(q).type = "op" /\ Head(q).chan = c /\ Head(q).user = u
              /\ LastOf(q, AboutOf(c, u)) = {}
<1> DEFINE r == Tail(q)
<1>1. /\ Len(r) = Len(q) - 1 /\ Head(q) = q[1] /\ Len(q) \in Nat
      /\ \A j \in 1 .. Len(q) - 1 : r[j] = q[j + 1]
  BY InFront
<1>2. PICK i \in 1 .. Len(q) : OpAt(q, i, c, u)
  BY DEF OpLast
<1> SUFFICES \/ OpLast(r, c, u)
             \/ /\ Head(q).type = "op" /\ Head(q).chan = c /\ Head(q).user = u
                /\ LastOf(q, AboutOf(c, u)) = {}
  OBVIOUS
<1> HIDE DEF r
<1>3. CASE i = 1
  <2>1. \A j \in 1 .. Len(q) : q[j] \notin AboutOf(c, u)
    BY <1>2, <1>3 DEF OpAt
  <2>2. LastOf(q, AboutOf(c, u)) = {}
    BY <2>1 DEF LastOf
  <2> QED BY <1>1, <1>2, <1>3, <2>2 DEF OpAt
<1>4. CASE i > 1
  <2>1. i - 1 \in 1 .. Len(r) /\ r[i - 1] = q[i]
    <3>1. i - 1 \in 1 .. Len(q) - 1 /\ i - 1 + 1 = i
      BY <1>1, <1>4
    <3> QED BY <1>1, <3>1
  <2>2. ASSUME NEW j \in i - 1 .. Len(r) PROVE r[j] \notin AboutOf(c, u)
    <3>1. j \in 1 .. Len(q) - 1 /\ j + 1 \in i .. Len(q)
      BY <1>1, <1>4, <2>2
    <3> QED BY <1>1, <1>2, <3>1 DEF OpAt
  <2>3. OpAt(r, i - 1, c, u)
    BY <1>2, <2>1, <2>2 DEF OpAt
  <2> QED BY <2>1, <2>3 DEF OpLast
<1> QED BY <1>3, <1>4

\* A user is made an operator by the server with a message that says so, or by
\* services, and as long as it is one no message takes it out.
LEMMA ServerOps ==
    ASSUME TypeOK, NetInv, NetUser \/ NetReceive, NEW c \in Chans, NEW u \in Users,
           ~Sent(Msg("op", c, u)), u \in net'[c].ops
    PROVE  \/ OpLast(in', c, u)
           \/ u \in net[c].ops /\ (OpLast(in, c, u) => OpLast(in', c, u))
<1> DEFINE Goal == \/ OpLast(in', c, u)
                   \/ u \in net[c].ops /\ (OpLast(in, c, u) => OpLast(in', c, u))
<1> SUFFICES Goal
  OBVIOUS
<1>1. /\ in \in Seq(FromNet) /\ out \in Seq(ToNet)
      /\ net \in [Chans -> [on : SUBSET Users, ops : SUBSET Users, cs : BOOLEAN]]
      /\ net[c].ops \subseteq net[c].on
  BY DEF TypeOK, NetInv
<1>2. ASSUME u \in net[c].ops, in' = in PROVE Goal
  BY <1>2
<1>3. ASSUME u \in net[c].ops, NEW m \in FromNet, in' = Append(in, m), m \notin AboutOf(c, u)
      PROVE  Goal
  BY <1>1, <1>3, OpLastAppend
<1>4. ASSUME NEW l \in FromNet, NEW m \in FromNet, in' = Append(Append(in, l), m),
             l \notin AboutOf(c, u), m \notin AboutOf(c, u), u \in net[c].ops
      PROVE  Goal
  <2> DEFINE q == Append(in, l)
  <2>1. q \in Seq(FromNet) /\ in' = Append(q, m) /\ (OpLast(in, c, u) => OpLast(q, c, u))
    BY <1>1, <1>4, OpLastAppend
  <2> HIDE DEF q
  <2>2. OpLast(q, c, u) => OpLast(in', c, u)
    BY <1>4, <2>1, OpLastAppend
  <2> QED BY <1>4, <2>1, <2>2
<1>5. ASSUME NEW d \in Chans, NEW v \in Users, net' = [net EXCEPT ![d] = NetGone(net[d], v)]
      PROVE  u \in net[c].ops /\ ~(d = c /\ v = u)
  <2>1. \A e \in Chans : net'[e].ops = IF e = d THEN net[e].ops \ {v} ELSE net[e].ops
    <3>1. NetGone(net[d], v).ops = net[d].ops \ {v}
      BY GoneTypes
    <3> QED BY <1>1, <1>5, <3>1
  <2> QED BY <2>1
<1>6. ASSUME NEW v \in Users, NEW t \in {"nick", "quit", "join0"},
             in' = Append(in, [type |-> t, user |-> v]), u \in net[c].ops, t # "nick" => v # u
      PROVE  Goal
  <2> DEFINE m == [type |-> t, user |-> v]
  <2>1. m \in FromNet /\ m.type = t /\ m.user = v
    BY DEF FromNet
  <2>2. in' = Append(in, m)
    BY <1>6
  <2> HIDE DEF m
  <2>3. m \notin AboutOf(c, u)
    BY <1>6, <2>1 DEF AboutOf
  <2> QED BY <1>3, <1>6, <2>1, <2>2, <2>3
<1>7. ASSUME NEW v \in Users, NetSignOn(v) \/ NetQuit(v) \/ NetJoin0(v) PROVE Goal
  <2>1. CASE NetSignOn(v)
    <3>1. in' = Append(in, [type |-> "nick", user |-> v]) /\ u \in net[c].ops
      BY <2>1 DEF NetSignOn
    <3> QED BY <1>6, <3>1
  <2>2. CASE NetQuit(v) \/ NetJoin0(v)
    <3>1. net' = [e \in Chans |-> NetGone(net[e], v)]
      BY <2>2 DEF NetQuit, NetJoin0
    <3>2. u \in net[c].ops /\ v # u
      <4>1. net'[c].ops = net[c].ops \ {v}
        BY <3>1, GoneTypes
      <4> QED BY <4>1
    <3>3. \/ in' = Append(in, [type |-> "quit", user |-> v])
          \/ in' = Append(in, [type |-> "join0", user |-> v])
      BY <2>2 DEF NetQuit, NetJoin0
    <3> QED BY <1>6, <3>2, <3>3
  <2> QED BY <1>7, <2>1, <2>2
<1>8. ASSUME NEW d \in Chans, NEW v \in Users, NEW x \in Users \cup {"server"},
             NEW t \in {"part", "kick", "op", "deop", "join"}, ~(d = c /\ v = u) \/ t \in {"op", "deop"}
      PROVE  /\ Told(t, d, v, x) \in FromNet
             /\ Told(t, d, v, x) \notin AboutOf(c, u)
  <2> DEFINE m == Told(t, d, v, x)
  <2>1. m \in FromNet /\ m.type = t /\ m.chan = d /\ m.user = v
    BY MakeIn DEF Told
  <2> HIDE DEF m
  <2>2. m \notin AboutOf(c, u)
    BY <1>8, <2>1 DEF AboutOf
  <2> QED BY <2>1, <2>2 DEF m
<1>9. ASSUME NEW d \in Chans, NEW v \in Users, NetJoin(d, v) PROVE Goal
  <2> DEFINE j == Told("join", d, v, v)
             o == Told("op", d, v, "server")
  <2>1. j \in FromNet /\ o \in FromNet /\ o \notin AboutOf(c, u)
    BY <1>8, MakeIn
  <2>2. o.type = "op" /\ o.chan = d /\ o.user = v
    BY DEF Told
  <2>3. /\ v \notin net[d].on
        /\ in' = in \o <<j, o>> \/ in' = in \o <<j>> \o <<>>
    <3>1. in \o <<j>> \o <<o>> = in \o <<j, o>>
      BY <1>1, <2>1
    <3> QED BY <1>9, <3>1 DEF NetJoin
  <2>4. \/ net'[c].ops = net[c].ops
        \/ c = d /\ in' = in \o <<j, o>> /\ net'[c].ops = net[c].ops \cup {v}
    <3>1. in \o <<j>> \o <<o>> = in \o <<j, o>>
      BY <1>1, <2>1
    <3> QED BY <1>1, <1>9, <3>1 DEF NetJoin
  <2>5. ~(d = c /\ v = u) => j \notin AboutOf(c, u)
    BY <1>8
  <2> HIDE DEF j, o
  <2>6. in' = Append(Append(in, j), o) \/ in' = Append(in, j)
    <3>1. in \o <<j>> = Append(in, j) /\ Append(in, j) \in Seq(FromNet)
      BY <1>1, <2>1, Behind
    <3>2. Append(in, j) \o <<>> = Append(in, j)
      BY <3>1
    <3>3. in \o <<j, o>> = Append(Append(in, j), o)
      BY <1>1, <2>1, Behind
    <3> QED BY <2>3, <3>1, <3>2, <3>3
  <2>7. CASE u \in net[c].ops
    <3>1. ~(d = c /\ v = u)
      BY <1>1, <2>3, <2>7
    <3> QED BY <1>3, <1>4, <2>1, <2>5, <2>6, <2>7, <3>1
  <2>8. CASE u \notin net[c].ops
    <3>1. c = d /\ u = v /\ in' = in \o <<j, o>>
      BY <2>4, <2>8
    <3> DEFINE q == Append(in, j)
    <3>2. q \in Seq(FromNet) /\ in' = Append(q, o)
      BY <1>1, <2>1, <3>1, Behind
    <3> HIDE DEF q
    <3>3. OpLast(in', c, u)
      BY <2>1, <2>2, <3>1, <3>2, OpLastAppend
    <3> QED BY <3>3
  <2> QED BY <2>7, <2>8
<1>10. ASSUME NEW d \in Chans, NEW v \in Users, NetPart(d, v) PROVE Goal
  <2>1. u \in net[c].ops /\ ~(d = c /\ v = u) /\ in' = Append(in, Told("part", d, v, v))
    BY <1>5, <1>10 DEF NetPart
  <2> QED BY <1>3, <1>8, <2>1
<1>11. ASSUME NEW d \in Chans, NEW v \in Users, NEW x \in Users, NetKick(d, x, v) PROVE Goal
  <2> DEFINE l == Told("kick", d, v, x)
             m == Told("part", d, v, v)
  <2>1. u \in net[c].ops /\ ~(d = c /\ v = u) /\ in' = in \o <<l, m>>
    BY <1>5, <1>11 DEF NetKick
  <2>2. l \in FromNet /\ m \in FromNet /\ l \notin AboutOf(c, u) /\ m \notin AboutOf(c, u)
    BY <1>8, <2>1
  <2> HIDE DEF l, m
  <2>3. in' = Append(Append(in, l), m)
    BY <1>1, <2>1, <2>2, Behind
  <2> QED BY <1>4, <2>1, <2>2, <2>3
<1>12. ASSUME NEW d \in Chans, NEW v \in Users, NEW x \in Users, NetMode(d, x, v) PROVE Goal
  <2> DEFINE l == Told("op", d, v, x)
             m == Told("deop", d, v, x)
  <2>1. l \in FromNet /\ m \in FromNet /\ l \notin AboutOf(c, u) /\ m \notin AboutOf(c, u)
    BY <1>8
  <2>2. l.type = "op" /\ l.chan = d /\ l.user = v
    BY DEF Told
  <2>3. \/ in' = Append(in, m) /\ net'[c].ops \subseteq net[c].ops
        \/ in' = Append(in, l) /\ (net'[c].ops = net[c].ops \/ (d = c /\ net'[c].ops = net[c].ops \cup {v}))
    BY <1>1, <1>12 DEF NetMode
  <2> HIDE DEF l, m
  <2>4. CASE u \in net[c].ops
    BY <1>3, <2>1, <2>3, <2>4
  <2>5. CASE u \notin net[c].ops
    <3>1. in' = Append(in, l) /\ d = c /\ u = v
      BY <2>3, <2>5
    <3>2. OpLast(in', c, u)
      BY <1>1, <2>1, <2>2, <3>1, OpLastAppend
    <3> QED BY <3>2
  <2> QED BY <2>4, <2>5
<1>13. CASE NetReceive
  <2> DEFINE m == Head(out)
  <2>1. m \in ToNet /\ out # <<>> /\ m = out[1] /\ 1 \in 1 .. Len(out)
    BY <1>1, <1>13 DEF NetReceive
  <2>2. m.chan \in Chans /\ (m.type \in {"kick", "op", "deop"} => m.user \in Users /\ m = Msg(m.type, m.chan, m.user))
    <3> HIDE DEF m
    <3> QED BY <2>1, OutFields
  <2>3. CASE m.type = "kick" /\ NetKicked(m.chan, m.user)
    <3> HIDE DEF m
    <3>1. CASE net' = [net EXCEPT ![m.chan] = NetGone(@, m.user)] /\ in' = Append(in, Told("part", m.chan, m.user, m.user))
      <4>1. u \in net[c].ops /\ ~(m.chan = c /\ m.user = u)
        BY <1>5, <2>2, <2>3, <3>1
      <4> QED BY <1>3, <1>8, <2>2, <2>3, <3>1, <4>1
    <3>2. CASE UNCHANGED <<net, in>>
      BY <1>2, <3>2
    <3> QED BY <2>3, <3>1, <3>2 DEF NetKicked
  <2>4. CASE m.type = "op" /\ net' = [net EXCEPT ![m.chan].ops = @ \cup ({m.user} \cap net[m.chan].on)] /\ in' = in
    <3>1. ~(m.chan = c /\ m.user = u)
      BY <2>1, <2>2, <2>4 DEF Sent, Queued
    <3> HIDE DEF m
    <3>2. u \in net[c].ops
      <4>1. net'[c].ops \subseteq IF m.chan = c THEN net[c].ops \cup {m.user} ELSE net[c].ops
        BY <1>1, <2>2, <2>4
      <4> QED BY <3>1, <4>1
    <3> QED BY <1>2, <2>4, <3>2
  <2>5. CASE net' = [net EXCEPT ![m.chan].ops = @ \ {m.user}] /\ in' = in
    <3> HIDE DEF m
    <3>1. u \in net[c].ops
      BY <1>1, <2>2, <2>5
    <3> QED BY <1>2, <2>5, <3>1
  <2>6. CASE net' = [net EXCEPT ![m.chan].cs = (m.type = "csjoin")] /\ in' = in
    <3> HIDE DEF m
    <3>1. u \in net[c].ops
      BY <1>1, <2>2, <2>6
    <3> QED BY <1>2, <2>6, <3>1
  <2> HIDE DEF Goal
  <2> QED BY <1>13, <2>3, <2>4, <2>5, <2>6 DEF NetReceive
<1> HIDE DEF Goal
<1> QED BY <1>7, <1>9, <1>10, <1>11, <1>12, <1>13 DEF NetUser

\* The server adds nothing to what services sent.
LEMMA ServerReads ==
    ASSUME TypeOK, NetUser \/ NetReceive, NEW x, Sent(x)'
    PROVE  Sent(x)
<1>1. CASE NetUser
  <2>1. out' = out
    <3>1. \A v \in Users : NetSignOn(v) \/ NetQuit(v) \/ NetJoin0(v) => out' = out
      BY DEF NetSignOn, NetQuit, NetJoin0
    <3>2. \A d \in Chans, v \in Users : NetJoin(d, v) \/ NetPart(d, v) => out' = out
      BY DEF NetJoin, NetPart
    <3>3. \A d \in Chans, v \in Users, y \in Users : NetKick(d, y, v) \/ NetMode(d, y, v) => out' = out
      BY DEF NetKick, NetMode
    <3> QED BY <1>1, <3>1, <3>2, <3>3 DEF NetUser
  <2> QED BY <2>1 DEF Sent, Queued
<1>2. CASE NetReceive
  <2>1. out \in Seq(ToNet) /\ out # <<>> /\ out' = Tail(out)
    BY <1>2 DEF NetReceive, TypeOK
  <2>2. /\ Len(out) \in Nat /\ Len(out') = Len(out) - 1
        /\ \A i \in 1 .. Len(out) - 1 : out'[i] = out[i + 1]
    BY <2>1, InFront
  <2>3. PICK i \in 1 .. Len(out') : out'[i] = x
    BY DEF Sent, Queued
  <2>4. i + 1 \in 1 .. Len(out) /\ out[i + 1] = x
    BY <2>2, <2>3
  <2> QED BY <2>4 DEF Sent, Queued
<1> QED BY <1>1, <1>2

\* The MODE -o of services stays on its way until the user is no operator.
LEMMA DeopStays ==
    ASSUME TypeOK, NetUser \/ NetReceive, NEW c \in Chans, NEW u \in Users,
           Sent(Msg("deop", c, u))
    PROVE  Sent(Msg("deop", c, u))' \/ u \notin net'[c].ops
<1>1. CASE NetUser
  <2>1. out' = out
    <3>1. \A x \in Users : NetSignOn(x) \/ NetQuit(x) \/ NetJoin0(x) => out' = out
      BY DEF NetSignOn, NetQuit, NetJoin0
    <3>2. \A d \in Chans, x \in Users : NetJoin(d, x) \/ NetPart(d, x) => out' = out
      BY DEF NetJoin, NetPart
    <3>3. \A d \in Chans, x \in Users, y \in Users : NetKick(d, y, x) \/ NetMode(d, y, x) => out' = out
      BY DEF NetKick, NetMode
    <3> QED BY <1>1, <3>1, <3>2, <3>3 DEF NetUser
  <2> QED BY <2>1 DEF Sent, Queued
<1>2. CASE NetReceive
  <2> DEFINE m == Head(out)
  <2>1. out \in Seq(ToNet) /\ out # <<>> /\ out' = Tail(out)
    BY <1>2 DEF NetReceive, TypeOK
  <2>2. /\ Len(out) \in Nat /\ Len(out') = Len(out) - 1 /\ m = out[1]
        /\ \A i \in 1 .. Len(out) - 1 : out'[i] = out[i + 1]
    BY <2>1, InFront
  <2>3. PICK i \in 1 .. Len(out) : out[i] = Msg("deop", c, u)
    BY DEF Sent, Queued
  <2>4. CASE i > 1
    <3>1. i - 1 \in 1 .. Len(out) - 1 /\ i - 1 + 1 = i
      BY <2>2, <2>4
    <3> QED BY <2>2, <2>3, <3>1 DEF Sent, Queued
  <2>5. CASE i = 1
    <3>1. m.type = "deop" /\ m.chan = c /\ m.user = u
      BY <2>2, <2>3, <2>5 DEF Msg
    <3>2. net' = [net EXCEPT ![c].ops = @ \ {u}]
      BY <1>2, <3>1 DEF NetReceive
    <3> QED BY <3>2 DEF TypeOK
  <2> QED BY <2>4, <2>5
<1> QED BY <1>1, <1>2

\* Services that read that an unfit user is an operator have it deopped, or are
\* about to have it kicked.
LEMMA HeardOp ==
    ASSUME TypeOK, NetInv, MemberInv, Receive, NEW c \in Chans, NEW u \in Users,
           Unfit(c, u), u \in net[c].ops,
           Head(in).type = "op", Head(in).chan = c, Head(in).user = u,
           LastOf(in, AboutOf(c, u)) = {}
    PROVE  Sent(Msg("deop", c, u))' \/ Sent(Msg("kick", c, u))
<1> DEFINE x == Msg("deop", c, u)
<1>1. OnOp(c, u)
  BY DEF Receive
<1>2. u \in net[c].on /\ MemberAt(in, net, c, u, chan[c].on, out)
  BY DEF NetInv, MemberInv
<1>3. u \in chan[c].on \/ Sent(Msg("kick", c, u))
  BY <1>2 DEF MemberAt, Sent
<1>4. ~MayHave(c, u)
  <2>1. Level(c, u) < AOP
    BY LevelIs DEF Unfit, AOP
  <2> QED BY <2>1, LevelIs DEF Unfit, MayHave, AOP
<1>5. ASSUME u \in chan[c].on PROVE Sent(x)'
  <2>1. out' = Append(out, x)
    BY <1>1, <1>4, <1>5 DEF OnOp
  <2>2. out \in Seq(ToNet) /\ x \in ToNet
    BY MakeOut DEF TypeOK
  <2> HIDE DEF x
  <2>3. \E i \in 1 .. Len(Append(out, x)) : Append(out, x)[i] = x
    BY <2>2, Behind
  <2> QED BY <2>1, <2>3 DEF Sent, Queued, x
<1> QED BY <1>3, <1>5

\* What services put behind their queue ops no unfit user.
LEMMA UnfitUnsent ==
    ASSUME TypeOK, NEW c \in Chans, NEW u \in Users, Unfit(c, u), ~Sent(Msg("op", c, u)),
           NEW w \in Seq(ToNet), More(w), OpsFit(w)
    PROVE  ~Sent(Msg("op", c, u))'
<1> DEFINE x == Msg("op", c, u)
<1>1. SUFFICES ASSUME Sent(x)' PROVE FALSE
  OBVIOUS
<1>2. PICK i \in 1 .. Len(w) : w[i] = x
  BY <1>1, SentMore
<1>3. Level(c, u) >= AOP
  BY <1>2 DEF OpsFit
<1> QED BY <1>3, LevelIs DEF Unfit, AOP

\* Every step keeps the guard.
LEMMA GuardStep ==
    ASSUME Base, MemberInv, GuardInv, [Next]_vars
    PROVE  GuardInv'
<1>0. TypeOK /\ NetInv /\ NetInv' /\ in \in Seq(FromNet)
  BY NetStep DEF Base, TypeOK
<1> SUFFICES ASSUME NEW c \in Chans, NEW u \in Users PROVE GuardAt(c, u)'
  BY DEF GuardInv
<1> DEFINE bad == Unfit(c, u) /\ u \notin before[c]
           o == Sent(Msg("op", c, u))
           d == Sent(Msg("deop", c, u))
           k == Sent(Msg("kick", c, u))
<1>1. bad => ~o /\ (u \in net[c].ops => OpLast(in, c, u) \/ d \/ k)
  BY DEF GuardInv, GuardAt
<1>2. SUFFICES ASSUME bad'
               PROVE  ~o' /\ (u \in net'[c].ops => OpLast(in', c, u) \/ d' \/ k')
  BY DEF GuardAt
<1>3. ASSUME rules'[c] = rules[c], before'[c] = before[c] PROVE bad
  BY <1>2, <1>3 DEF Unfit, Access
<1>4. CASE UNCHANGED vars
  <2>1. bad /\ (o' <=> o) /\ (d' <=> d) /\ (k' <=> k) /\ in' = in /\ net' = net
    BY <1>3, <1>4 DEF vars, Sent
  <2> QED BY <1>1, <2>1
<1>5. CASE (NetUser \/ NetReceive) /\ UNCHANGED <<servVars, rules, changes, before, orderly>>
  <2>1. bad /\ ~o
    BY <1>1, <1>3, <1>5
  <2>2. ~o'
    BY <1>0, <1>5, <2>1, ServerReads
  <2>3. u \in net'[c].ops => \/ OpLast(in', c, u)
                             \/ u \in net[c].ops /\ (OpLast(in, c, u) => OpLast(in', c, u))
    BY <1>0, <1>5, <2>1, ServerOps
  <2>4. u \in net'[c].ops /\ d => d'
    BY <1>0, <1>5, DeopStays
  <2>5. u \in net'[c].ops /\ k => k'
    <3>1. u \in net'[c].ops => u \in net'[c].on
      BY <1>0 DEF NetInv
    <3> QED BY <1>0, <1>5, <3>1, KickStays
  <2> HIDE DEF o, d, k
  <2> QED BY <1>1, <2>1, <2>2, <2>3, <2>4, <2>5
<1>6. CASE Receive
  <2>1. /\ rules' = rules /\ before' = before /\ net' = net
        /\ in # <<>> /\ in' = Tail(in)
    BY <1>0, <1>6, Heard DEF netVars
  <2>2. bad
    BY <1>3, <2>1
  <2>3. PICK w \in Seq(ToNet) : More(w) /\ OpsFit(w)
    BY <1>0, <1>6, HeardSends
  <2>4. ~o'
    BY <1>0, <1>1, <2>2, <2>3, UnfitUnsent
  <2>5. (d => d') /\ (k => k')
    BY <1>0, <2>3, SentMore
  <2>6. ASSUME u \in net[c].ops, OpLast(in, c, u) PROVE OpLast(in', c, u) \/ d' \/ k'
    <3>1. CASE OpLast(Tail(in), c, u)
      BY <2>1, <3>1
    <3>2. CASE /\ Head(in).type = "op" /\ Head(in).chan = c /\ Head(in).user = u
               /\ LastOf(in, AboutOf(c, u)) = {}
      BY <1>0, <1>6, <2>2, <2>5, <2>6, <3>2, HeardOp
    <3> QED BY <1>0, <2>1, <2>6, <3>1, <3>2, OpLastTail
  <2> HIDE DEF o, d, k
  <2> QED BY <1>1, <2>1, <2>2, <2>4, <2>5, <2>6
<1>7. CASE Commands \/ \E e \in Chans : EndGhost(e) \/ Change(e)
  <2>1. in' = in /\ net' = net
    BY <1>0, <1>7, Commanded DEF netVars
  <2>2. PICK w \in Seq(ToNet) : More(w) /\ OpsFit(w)
    BY <1>0, <1>7, CommandSends
  <2>3. CASE rules'[c] = rules[c] /\ before'[c] = before[c]
    <3>1. bad
      BY <1>3, <2>3
    <3>2. ~o'
      BY <1>0, <1>1, <2>2, <3>1, UnfitUnsent
    <3>3. (d => d') /\ (k => k')
      BY <1>0, <2>2, SentMore
    <3> HIDE DEF o, d, k
    <3> QED BY <1>1, <2>1, <3>1, <3>2, <3>3
  <2>4. CASE Change(c)
    <3>1. before'[c] = net[c].on \cup {v \in Users : \E i \in DOMAIN out : out[i] = Msg("op", c, v)}
      BY <1>0, <2>4 DEF Change, TypeOK
    <3>2. u \notin net'[c].ops
      BY <1>0, <1>2, <2>1, <3>1 DEF NetInv
    <3>3. out' = out /\ DOMAIN out = 1 .. Len(out)
      BY <1>0, <2>4 DEF Change, TypeOK
    <3>4. ~o'
      BY <1>2, <3>1, <3>3 DEF Sent, Queued
    <3> QED BY <3>2, <3>4
  <2>5. ASSUME NEW e \in Chans, e # c, Change(e) PROVE rules'[c] = rules[c] /\ before'[c] = before[c]
    BY <1>0, <2>5 DEF Change, TypeOK
  <2>6. ASSUME NEW e \in Chans, EndGhost(e) PROVE rules'[c] = rules[c] /\ before'[c] = before[c]
    BY <2>6 DEF EndGhost
  <2>7. ASSUME Commands PROVE rules'[c] = rules[c] /\ before'[c] = before[c]
    BY <2>7 DEF Commands, Mdeop, Mkick, Op, Deop
  <2> QED BY <1>7, <2>3, <2>4, <2>5, <2>6, <2>7
<1> QED BY <1>4, <1>5, <1>6, <1>7 DEF Next

\* OPGUARD (chanserv.h:77): once nothing is under way, the operators of a guarded
\* channel have the access for it, whoever opped them and whatever crossed.
THEOREM GuardKept ==
    ASSUME MaxChans <= Slots
    PROVE  Spec => []Guarded
<1>1. Init => GuardInv
  <2> SUFFICES ASSUME Init, NEW c \in Chans, NEW u \in Users PROVE GuardAt(c, u)
    BY DEF GuardInv
  <2>1. out = <<>> /\ net[c].ops = {}
    BY DEF Init
  <2>2. ~Sent(Msg("op", c, u))
    BY <2>1 DEF Sent, Queued
  <2> QED BY <2>1, <2>2 DEF GuardAt
<1>2. Base /\ MemberInv /\ GuardInv /\ [Next]_vars => GuardInv'
  BY GuardStep
<1>3. Base /\ GuardInv => Guarded
  <2> SUFFICES ASSUME Base, GuardInv, Quiet, NEW c \in Chans,
                      rules[c].reg /\ rules[c].guard /\ ~rules[c].xfer,
                      NEW u \in net[c].ops \ before[c]
               PROVE  Level(c, u) >= AOP
    BY DEF Guarded
  <2>1. TypeOK /\ u \in Users /\ u \in online /\ in = <<>> /\ out = <<>>
    BY DEF Base, NetInv, TypeOK, Quiet
  <2>2. ~OpLast(in, c, u) /\ ~Sent(Msg("deop", c, u)) /\ ~Sent(Msg("kick", c, u))
    BY <2>1 DEF OpLast, Sent, Queued
  <2>3. ~Unfit(c, u)
    BY <2>1, <2>2 DEF GuardInv, GuardAt
  <2>4. Known(in, users, u)
    BY <2>1 DEF Base, KnowInv, KnowAll
  <2>5. u \in users
    BY <2>1, <2>4, LastEmpty DEF Known
  <2> QED BY <2>1, <2>3, <2>5, LevelIs DEF Unfit, AOP
<1> QED BY <1>1, <1>2, <1>3, BaseHolds, MemberHolds, PTL DEF Spec
=============================================================================
