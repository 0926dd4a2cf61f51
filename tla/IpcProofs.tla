------------------------------ MODULE IpcProofs ------------------------------
(***************************************************************************)
(* Theorems about Ipc: what a connection may do and what it proved for it, *)
(* which keys are taken, and which commands are done; and how LineBuffer,  *)
(* which Ipc extends, cuts the uplink's stream into lines.                 *)
(***************************************************************************)
EXTENDS Ipc, FoldLemmas

\* The worlds there may be.
Worlds ==
    [con : [Conns -> {NoCon} \cup Con], links : Seq(Conns), reg : [Names -> {NoReg} \cup Reg],
     cookies : Nat, read : [Conns -> Nat], live : SUBSET Names, stale : BOOLEAN,
     done : [Conns -> Seq(Entry)], cut : [Conns -> SUBSET Nat]]

(***************************************************************************)
(* What a session proved, of the commands S a client sent and the list D   *)
(* of those that were done.                                                *)
(***************************************************************************)

Cmd(S, D, k) == S[D[k].at]
Login(c) == c.kind = "SYSTEM LOGIN" /\ c.user \in DOMAIN Privs
Answered(c, cookie) == c.kind = "SYSTEM PASS" /\ c.answer = Answer(cookie, SysPassword)
Shown(c, ok) == c.kind = "CHPASSKEY" /\ ok

\* Nobody logged in after the k-th of the first n.
Since(S, D, k, n) == \A m \in k + 1 .. n : ~Login(Cmd(S, D, m))

Known(S, D, n, user) ==
    \E k \in 1 .. n : Login(Cmd(S, D, k)) /\ Cmd(S, D, k).user = user /\ Since(S, D, k, n)

Entitled(S, D, n, rights) ==
    \E k, j \in 1 .. n :
        /\ k < j /\ Login(Cmd(S, D, k)) /\ Answered(Cmd(S, D, j), D[j].cookie)
        /\ rights \subseteq Privs[Cmd(S, D, k).user] /\ Since(S, D, k, n)

Keyed(S, D, n) == \E k \in 1 .. n : Shown(Cmd(S, D, k), D[k].ok) /\ Since(S, D, k, n)

\* What the fields of a connection stand for.
SessionOk(S, D, c) ==
    /\ c.user # "" => Known(S, D, Len(D), c.user)
    /\ c.gpriv # {} => Entitled(S, D, Len(D), c.gpriv)
    /\ "SETPASS" \in c.opriv => Keyed(S, D, Len(D))

\* A command that was granted was entitled to by those before it.
Justified(S, D, i) ==
    D[i].ok =>
        /\ Needs(Cmd(S, D, i)) # {} => Entitled(S, D, i - 1, Needs(Cmd(S, D, i)))
        /\ Cmd(S, D, i).kind = "ALTER" /\ Cmd(S, D, i).field = "PASS" => Keyed(S, D, i - 1)

DoneOk(S, D) == \A i \in 1 .. Len(D) : D[i].at \in DOMAIN S /\ Justified(S, D, i)

\* A name whose last key is spent has none.
Spent(w) == \A o \in Names \ w.live : w.reg[o] = NoReg \/ w.reg[o].chpw_key = 0

\* The parts that every command keeps.
Core(w) ==
    /\ w \in Worlds /\ Spent(w) /\ ~w.stale
    /\ \A p \in Conns : DoneOk(said[p], w.done[p])
    /\ \A p \in Conns : w.con[p] \in Con => SessionOk(said[p], w.done[p], w.con[p])
-----------------------------------------------------------------------------
(***************************************************************************)
(* What one command does to its connection, c to d.                        *)
(***************************************************************************)

NewLogin(m, d) == Login(m) /\ d.user = m.user /\ d.gpriv = {} /\ d.opriv = {}
NewAnswer(m, c, d) ==
    /\ Answered(m, d.cookie) /\ c.user # "" /\ d.user = c.user /\ d.gpriv = Privs[c.user] /\ d.opriv = {}
NewKey(m, ok, c, d) == Shown(m, ok) /\ d.user = c.user /\ d.gpriv = c.gpriv
NoGain(m, c, d) ==
    /\ ~Login(m) /\ d.user \in {"", c.user} /\ d.gpriv = c.gpriv
    /\ "SETPASS" \in d.opriv => "SETPASS" \in c.opriv
Gains(m, ok, c, d) ==
    NewLogin(m, d) \/ NewAnswer(m, c, d) \/ NewKey(m, ok, c, d) \/ NoGain(m, c, d)

Elsewhere(v, w, p) ==
    /\ v.links = w.links /\ v.read = w.read /\ v.cut = w.cut /\ v.done = w.done
    /\ \A x \in Conns \ {p} : v.con[x] = w.con[x]

Kept(v, w, p) == v \in Worlds /\ v.con[p] \in Con /\ Elsewhere(v, w, p)
SameAccounts(v, w) == v.reg = w.reg /\ v.live = w.live /\ v.stale = w.stale

\* An edit of the connection alone.
LEMMA EditIs ==
    ASSUME NEW w \in Worlds, NEW p \in Conns, NEW d \in Con, NEW v \in Worlds,
           v.con = [w.con EXCEPT ![p] = d], v.links = w.links, v.read = w.read, v.cut = w.cut, v.done = w.done
    PROVE  Kept(v, w, p) /\ v.con[p] = d
<1>1. w.con \in [Conns -> {NoCon} \cup Con]
  BY DEF Worlds
<1> QED BY <1>1 DEF Kept, Elsewhere

\* A new cookie.
LEMMA DrawIs ==
    ASSUME NEW w \in Worlds, NEW p \in Conns, w.con[p] \in Con
    PROVE  /\ Kept(Draw(w, p), w, p) /\ SameAccounts(Draw(w, p), w)
           /\ Draw(w, p).con[p] = [w.con[p] EXCEPT !.cookie = w.cookies + 1]
<1> DEFINE d == [w.con[p] EXCEPT !.cookie = w.cookies + 1]
           v == Draw(w, p)
<1>1. v.con = [w.con EXCEPT ![p] = d]
  BY DEF Worlds, Draw
<1>2. SameAccounts(v, w) /\ v.links = w.links /\ v.read = w.read /\ v.cut = w.cut /\ v.done = w.done
  BY DEF Worlds, SameAccounts, Draw
<1>3. d \in Con /\ v \in Worlds
  <2>1. w.cookies + 1 \in Nat
    BY DEF Worlds
  <2>2. d \in Con
    BY <2>1 DEF Con
  <2>3. v = [w EXCEPT !.cookies = w.cookies + 1, !.con[p].cookie = w.cookies + 1]
    BY DEF Draw, Worlds
  <2> HIDE DEF v
  <2>4. v \in Worlds
    BY <2>1, <2>3 DEF Worlds, Con
  <2> QED BY <2>2, <2>4
<1> HIDE DEF d, v
<1> QED BY <1>1, <1>2, <1>3, EditIs DEF d, v

\* AUTH SYSTEM LOGIN
LEMMA SysLoginIs ==
    ASSUME NEW w \in Worlds, NEW p \in Conns, w.con[p] \in Con, NEW user
    PROVE  LET v == authSysLogin(w, p, user) IN
           /\ Kept(v, w, p) /\ SameAccounts(v, w)
           /\ user \in DOMAIN Privs => v.con[p].user = user /\ v.con[p].gpriv = {} /\ v.con[p].opriv = {}
           /\ user \notin DOMAIN Privs => /\ v.con[p].user = w.con[p].user /\ v.con[p].gpriv = w.con[p].gpriv
                                          /\ v.con[p].opriv = w.con[p].opriv
<1>1. CASE user \in DOMAIN Privs
  <2> DEFINE u == [w EXCEPT !.con[p].user = user, !.con[p].gpriv = {}, !.con[p].opriv = {}]
             d == [w.con[p] EXCEPT !.user = user, !.gpriv = {}, !.opriv = {}]
             v == Draw(u, p)
  <2>1. u.con = [w.con EXCEPT ![p] = d]
    BY DEF Worlds
  <2>2. u \in Worlds /\ d \in Con
    BY <1>1 DEF Worlds, Con
  <2>3. SameAccounts(u, w) /\ u.links = w.links /\ u.read = w.read /\ u.cut = w.cut /\ u.done = w.done
    BY DEF Worlds, SameAccounts
  <2>4. authSysLogin(w, p, user) = v
    BY <1>1 DEF authSysLogin
  <2>5. d.user = user /\ d.gpriv = {} /\ d.opriv = {}
    BY DEF Con
  <2> HIDE DEF d, u
  <2>6. Kept(u, w, p) /\ u.con[p] = d
    BY <2>1, <2>2, <2>3, EditIs
  <2>7. Kept(v, u, p) /\ SameAccounts(v, u) /\ v.con[p] = [d EXCEPT !.cookie = u.cookies + 1]
    BY <2>2, <2>6, DrawIs
  <2>8. v.con[p].user = user /\ v.con[p].gpriv = {} /\ v.con[p].opriv = {}
    BY <2>2, <2>5, <2>7 DEF Con
  <2> HIDE DEF v
  <2>9. Kept(v, w, p) /\ SameAccounts(v, w)
    BY <2>3, <2>6, <2>7 DEF Kept, Elsewhere, SameAccounts
  <2> QED BY <1>1, <2>4, <2>8, <2>9
<1>2. CASE user \notin DOMAIN Privs
  <2>1. authSysLogin(w, p, user) = Draw(w, p)
    BY <1>2 DEF authSysLogin
  <2>2. LET d == [w.con[p] EXCEPT !.cookie = w.cookies + 1] IN
        d.user = w.con[p].user /\ d.gpriv = w.con[p].gpriv /\ d.opriv = w.con[p].opriv
    BY DEF Con
  <2> QED BY <1>2, <2>1, <2>2, DrawIs
<1> QED BY <1>1, <1>2

\* AUTH SYSTEM PASS
LEMMA SysPassIs ==
    ASSUME NEW w \in Worlds, NEW p \in Conns, w.con[p] \in Con, NEW answer
    PROVE  LET v == authSysPass(w, p, answer) IN
           /\ Kept(v, w, p) /\ SameAccounts(v, w) /\ v.con[p].cookie = w.con[p].cookie
           /\ SysAnswered(w, p, answer) =>
                 /\ v.con[p].user = w.con[p].user /\ v.con[p].gpriv = Privs[w.con[p].user] /\ v.con[p].opriv = {}
           /\ ~SysAnswered(w, p, answer) =>
                 /\ v.con[p].user = "" /\ v.con[p].gpriv = w.con[p].gpriv /\ v.con[p].opriv = w.con[p].opriv
<1> DEFINE c == w.con[p]
<1>1. CASE SysAnswered(w, p, answer)
  <2> DEFINE v == [w EXCEPT !.con[p].pass = TRUE, !.con[p].gpriv = Privs[w.con[p].user], !.con[p].opriv = {}]
             d == [c EXCEPT !.pass = TRUE, !.gpriv = Privs[c.user], !.opriv = {}]
  <2>1. c.user \in DOMAIN Privs /\ Privs[c.user] \in Range(Privs)
    <3>1. c.user \in DOMAIN Privs
      BY <1>1 DEF SysAnswered, Con
    <3> QED BY <3>1 DEF Range
  <2>2. v.con = [w.con EXCEPT ![p] = d]
    BY DEF Worlds
  <2>3. v \in Worlds /\ d \in Con
    BY <2>1 DEF Worlds, Con
  <2>4. SameAccounts(v, w) /\ v.links = w.links /\ v.read = w.read /\ v.cut = w.cut /\ v.done = w.done
    BY DEF Worlds, SameAccounts
  <2>5. authSysPass(w, p, answer) = v
    BY <1>1 DEF authSysPass
  <2>6. d.user = c.user /\ d.gpriv = Privs[c.user] /\ d.opriv = {} /\ d.cookie = c.cookie
    BY DEF Con
  <2> HIDE DEF d, v
  <2> QED BY <1>1, <2>2, <2>3, <2>4, <2>5, <2>6, EditIs
<1>2. CASE ~SysAnswered(w, p, answer)
  <2> DEFINE v == [w EXCEPT !.con[p].user = ""]
             d == [c EXCEPT !.user = ""]
  <2>1. v.con = [w.con EXCEPT ![p] = d]
    BY DEF Worlds
  <2>2. v \in Worlds /\ d \in Con
    BY DEF Worlds, Con
  <2>3. SameAccounts(v, w) /\ v.links = w.links /\ v.read = w.read /\ v.cut = w.cut /\ v.done = w.done
    BY DEF Worlds, SameAccounts
  <2>4. authSysPass(w, p, answer) = v
    BY <1>2 DEF authSysPass
  <2>5. d.user = "" /\ d.gpriv = c.gpriv /\ d.opriv = c.opriv /\ d.cookie = c.cookie
    BY DEF Con
  <2> HIDE DEF d, v
  <2>6. Kept(v, w, p) /\ v.con[p] = d
    BY <2>1, <2>2, <2>3, EditIs
  <2> QED BY <1>2, <2>3, <2>4, <2>5, <2>6
<1> QED BY <1>1, <1>2

Freed == left.focus.freed \in Names \cup {""}

\* AUTH OBJECT LOGIN
LEMMA ObjLoginIs ==
    ASSUME NEW w \in Worlds, NEW p \in Conns, w.con[p] \in Con, NEW o \in Names, Freed
    PROVE  LET v == authObjLogin(w, p, o) IN
           /\ Kept(v, w, p) /\ SameAccounts(v, w)
           /\ v.con[p].user = w.con[p].user /\ v.con[p].gpriv = w.con[p].gpriv /\ v.con[p].opriv \in {w.con[p].opriv, {}}
<1> DEFINE c == w.con[p]
           name == IF LoginRight(o) \in c.gpriv THEN o ELSE IF c.objName = "" THEN "" ELSE left.focus.freed
           u == [w EXCEPT !.con[p].opriv = {}, !.con[p].objName =
                     IF LoginRight(o) \in w.con[p].gpriv THEN o ELSE IF @ = "" THEN "" ELSE left.focus.freed]
           d == [c EXCEPT !.opriv = {}, !.objName = name]
<1>1. name \in Names \cup {""}
  BY DEF Freed
<1>2. u.con = [w.con EXCEPT ![p] = d]
  BY DEF Worlds, Con
<1>3. d \in Con
  <2> HIDE DEF name
  <2> QED BY <1>1 DEF Con
<1>4. u.cookies = w.cookies /\ SameAccounts(u, w) /\ u.links = w.links /\ u.read = w.read /\ u.cut = w.cut /\ u.done = w.done
  BY DEF Worlds, SameAccounts
<1>5. u \in Worlds
  <2>1. u = [w EXCEPT !.con = [w.con EXCEPT ![p] = d]]
    BY <1>2 DEF Worlds
  <2>2. [w.con EXCEPT ![p] = d] \in [Conns -> {NoCon} \cup Con]
    <3> HIDE DEF d
    <3> QED BY <1>3 DEF Worlds
  <2> HIDE DEF u
  <2> QED BY <2>1, <2>2 DEF Worlds
<1>6. d.user = c.user /\ d.gpriv = c.gpriv /\ d.opriv = {}
  BY DEF Con
<1>7. authObjLogin(w, p, o) = Draw(IF Registered(w, o) THEN u ELSE w, p)
  BY DEF authObjLogin
<1> HIDE DEF d, u
<1>8. Kept(u, w, p) /\ u.con[p] = d
  BY <1>2, <1>3, <1>4, <1>5, EditIs
<1>9. ASSUME NEW x \in {u, w} PROVE LET v == Draw(x, p) IN
         /\ Kept(v, w, p) /\ SameAccounts(v, w) /\ v.con[p].user = x.con[p].user
         /\ v.con[p].gpriv = x.con[p].gpriv /\ v.con[p].opriv = x.con[p].opriv
  <2> DEFINE v == Draw(x, p)
  <2>1. x \in Worlds /\ x.con[p] \in Con /\ Elsewhere(x, w, p) /\ SameAccounts(x, w)
    BY <1>4, <1>8 DEF Kept, Elsewhere, SameAccounts
  <2>2. Kept(v, x, p) /\ SameAccounts(v, x) /\ v.con[p] = [x.con[p] EXCEPT !.cookie = x.cookies + 1]
    BY <2>1, DrawIs
  <2>3. v.con[p].user = x.con[p].user /\ v.con[p].gpriv = x.con[p].gpriv /\ v.con[p].opriv = x.con[p].opriv
    BY <2>1, <2>2 DEF Con
  <2> HIDE DEF v
  <2>4. Kept(v, w, p) /\ SameAccounts(v, w)
    BY <2>1, <2>2 DEF Kept, Elsewhere, SameAccounts
  <2> QED BY <2>3, <2>4 DEF v
<1>10. CASE Registered(w, o)
  BY <1>6, <1>7, <1>8, <1>9, <1>10
<1>11. CASE ~Registered(w, o)
  BY <1>7, <1>9, <1>11
<1> QED BY <1>10, <1>11

\* AUTH OBJECT CHPASSKEY
LEMMA ObjKeyIs ==
    ASSUME NEW w \in Worlds, NEW p \in Conns, w.con[p] \in Con, NEW key, Spent(w)
    PROVE  LET v == authObjKey(w, p, key) IN
           /\ Kept(v, w, p) /\ SameAccounts(v, w)
           /\ v.con[p].user = w.con[p].user /\ v.con[p].gpriv = w.con[p].gpriv
           /\ ~KeyFits(w, p, key) => v.con[p].opriv = w.con[p].opriv
<1> DEFINE c == w.con[p]
<1>1. CASE KeyFits(w, p, key)
  <2> DEFINE v == [w EXCEPT !.con[p].opriv = {"SETPASS"}, !.stale = @ \/ w.con[p].objName \notin w.live]
             d == [c EXCEPT !.opriv = {"SETPASS"}]
  <2>1. c.objName \in w.live
    <3>1. Registered(w, c.objName) /\ w.reg[c.objName].chpw_key # 0
      BY <1>1 DEF KeyFits
    <3>2. c.objName \in Names /\ w.reg[c.objName] # NoReg
      BY <3>1 DEF Registered, Con
    <3> QED BY <3>1, <3>2 DEF Spent
  <2>2. v.con = [w.con EXCEPT ![p] = d]
    BY DEF Worlds
  <2>3. v.stale = w.stale
    <3>1. w.stale \in BOOLEAN /\ v.stale = (w.stale \/ c.objName \notin w.live)
      BY DEF Worlds
    <3> QED BY <2>1, <3>1
  <2>4. v.reg = w.reg /\ v.live = w.live /\ v.links = w.links /\ v.read = w.read /\ v.cut = w.cut /\ v.done = w.done
    BY DEF Worlds
  <2>5. v \in Worlds /\ d \in Con
    <3>1. d \in Con
      BY DEF Con
    <3>2. (w.stale \/ w.con[p].objName \notin w.live) \in BOOLEAN
      OBVIOUS
    <3>3. v \in Worlds
      BY DEF Worlds, Con
    <3> QED BY <3>1, <3>3
  <2>6. authObjKey(w, p, key) = v
    BY <1>1 DEF authObjKey
  <2>7. d.user = c.user /\ d.gpriv = c.gpriv
    BY DEF Con
  <2> HIDE DEF d, v
  <2>8. Kept(v, w, p) /\ v.con[p] = d
    BY <2>2, <2>4, <2>5, EditIs
  <2> QED BY <1>1, <2>3, <2>4, <2>6, <2>7, <2>8 DEF SameAccounts
<1>2. CASE ~KeyFits(w, p, key)
  <2> DEFINE v == [w EXCEPT !.con[p].objName = ""]
             d == [c EXCEPT !.objName = ""]
  <2>1. v.con = [w.con EXCEPT ![p] = d]
    BY DEF Worlds
  <2>2. v \in Worlds /\ d \in Con
    BY DEF Worlds, Con
  <2>3. SameAccounts(v, w) /\ v.links = w.links /\ v.read = w.read /\ v.cut = w.cut /\ v.done = w.done
    BY DEF Worlds, SameAccounts
  <2>4. authObjKey(w, p, key) = v
    BY <1>2 DEF authObjKey
  <2>5. d.user = c.user /\ d.gpriv = c.gpriv /\ d.opriv = c.opriv
    BY DEF Con
  <2> HIDE DEF d, v
  <2>6. Kept(v, w, p) /\ v.con[p] = d
    BY <2>1, <2>2, <2>3, EditIs
  <2> QED BY <1>2, <2>3, <2>4, <2>5, <2>6
<1> QED BY <1>1, <1>2

\* AUTH OBJECT PASS
LEMMA ObjPassIs ==
    ASSUME NEW w \in Worlds, NEW p \in Conns, w.con[p] \in Con, NEW answer
    PROVE  LET v == authObjPass(w, p, answer) IN
           /\ Kept(v, w, p) /\ SameAccounts(v, w)
           /\ v.con[p].user = w.con[p].user /\ v.con[p].gpriv = w.con[p].gpriv
           /\ v.con[p].opriv \in {w.con[p].opriv, {"OWNER"}}
<1> DEFINE c == w.con[p]
           own == [w EXCEPT !.con[p].opriv = {"OWNER"}]
           not == [w EXCEPT !.con[p].objName = ""]
           d == [c EXCEPT !.opriv = {"OWNER"}]
           e == [c EXCEPT !.objName = ""]
<1>1. own.con = [w.con EXCEPT ![p] = d] /\ not.con = [w.con EXCEPT ![p] = e]
  BY DEF Worlds
<1>2. own \in Worlds /\ d \in Con
  BY DEF Worlds, Con
<1>3. not \in Worlds /\ e \in Con
  BY DEF Worlds, Con
<1>4. /\ SameAccounts(own, w) /\ own.links = w.links /\ own.read = w.read /\ own.cut = w.cut /\ own.done = w.done
      /\ SameAccounts(not, w) /\ not.links = w.links /\ not.read = w.read /\ not.cut = w.cut /\ not.done = w.done
  BY DEF Worlds, SameAccounts
<1>5. /\ d.user = c.user /\ d.gpriv = c.gpriv /\ d.opriv = {"OWNER"}
      /\ e.user = c.user /\ e.gpriv = c.gpriv /\ e.opriv = c.opriv
  BY DEF Con
<1>6. authObjPass(w, p, answer) = own \/ authObjPass(w, p, answer) = not
  BY DEF authObjPass
<1> HIDE DEF own, not, d, e
<1>7. Kept(own, w, p) /\ own.con[p] = d
  BY <1>1, <1>2, <1>4, EditIs
<1>8. Kept(not, w, p) /\ not.con[p] = e
  BY <1>1, <1>3, <1>4, EditIs
<1> QED BY <1>4, <1>5, <1>6, <1>7, <1>8

\* No connection is touched, and no key comes back.
Calm(v, w) ==
    /\ v \in Worlds /\ v.con = w.con /\ v.links = w.links /\ v.read = w.read /\ v.cut = w.cut /\ v.done = w.done
    /\ v.stale = w.stale /\ Spent(v)

\* A new password, set on IRC or by ALTER.
LEMMA SetPasswordIs ==
    ASSUME NEW w \in Worlds, Spent(w), NEW o \in Names, w.reg[o] # NoReg, NEW pass \in {"old", "new"}
    PROVE  Calm(SetPassword(w, o, pass), w)
<1> DEFINE r == [w.reg[o] EXCEPT !.pass = pass, !.force = FALSE, !.chpw_key = 0]
           v == SetPassword(w, o, pass)
<1>1. w.reg \in [Names -> {NoReg} \cup Reg] /\ w.reg[o] \in Reg /\ w.cookies \in Nat
  BY DEF Worlds
<1>2. r \in Reg /\ r.chpw_key = 0
  BY <1>1 DEF Reg, Passwords
<1>3. v.reg = [w.reg EXCEPT ![o] = r]
  BY <1>1 DEF Worlds, SetPassword
<1>4. /\ v.con = w.con /\ v.links = w.links /\ v.read = w.read /\ v.cut = w.cut /\ v.done = w.done
      /\ v.stale = w.stale /\ v.live = w.live \ {o}
  BY DEF Worlds, SetPassword
<1>5. v \in Worlds
  BY <1>1 DEF Worlds, SetPassword, Reg, Passwords
<1> HIDE DEF v, r
<1>6. Spent(v)
  <2> SUFFICES ASSUME NEW x \in Names \ v.live PROVE v.reg[x] = NoReg \/ v.reg[x].chpw_key = 0
    BY DEF Spent
  <2>1. CASE x = o
    BY <1>1, <1>2, <1>3, <2>1
  <2>2. CASE x # o
    BY <1>1, <1>3, <1>4, <2>2 DEF Spent
  <2> QED BY <2>1, <2>2
<1> QED BY <1>4, <1>5, <1>6 DEF Calm, v

\* ALTER
LEMMA AlterIs ==
    ASSUME NEW w \in Worlds, Spent(w), NEW p \in Conns, NEW o \in Names, NEW f
    PROVE  Calm(alterObj(w, p, o, f), w)
<1>1. CASE ~MayAlter(w, p, o, f)
  <2>1. alterObj(w, p, o, f) = w
    BY <1>1 DEF alterObj
  <2> QED BY <2>1 DEF Calm
<1>2. CASE MayAlter(w, p, o, f) /\ f = "PASS"
  <2>1. alterObj(w, p, o, f) = SetPassword(w, o, "new") /\ w.reg[o] # NoReg
    BY <1>2 DEF alterObj, MayAlter, Registered
  <2> QED BY <2>1, SetPasswordIs
<1>3. CASE MayAlter(w, p, o, f) /\ f # "PASS"
  <2> DEFINE r == [w.reg[o] EXCEPT !.set = @ \cup {f}]
             v == alterRnick(w, o, f)
  <2>1. alterObj(w, p, o, f) = v /\ w.reg[o] # NoReg /\ f \in DOMAIN rnickQueryTable
    BY <1>3 DEF alterObj, MayAlter, Registered
  <2>2. w.reg \in [Names -> {NoReg} \cup Reg] /\ w.reg[o] \in Reg
    BY <2>1 DEF Worlds
  <2>3. r \in Reg /\ r.chpw_key = w.reg[o].chpw_key
    BY <2>1, <2>2 DEF Reg
  <2>4. v.reg = [w.reg EXCEPT ![o] = r]
    BY <2>2 DEF Worlds, alterRnick
  <2>5. /\ v.con = w.con /\ v.links = w.links /\ v.read = w.read /\ v.cut = w.cut /\ v.done = w.done
        /\ v.stale = w.stale /\ v.live = w.live
    BY DEF Worlds, alterRnick
  <2>6. v \in Worlds
    BY <2>1, <2>2 DEF Worlds, alterRnick, Reg
  <2> HIDE DEF v, r
  <2>7. Spent(v)
    <3> SUFFICES ASSUME NEW x \in Names \ v.live PROVE v.reg[x] = NoReg \/ v.reg[x].chpw_key = 0
      BY DEF Spent
    <3>1. CASE x = o
      BY <2>1, <2>2, <2>3, <2>4, <2>5, <3>1 DEF Spent
    <3>2. CASE x # o
      BY <2>2, <2>4, <2>5, <3>2 DEF Spent
    <3> QED BY <3>1, <3>2
  <2> QED BY <2>1, <2>5, <2>6, <2>7 DEF Calm
<1> QED BY <1>1, <1>2, <1>3

\* MAKE
LEMMA MakeIs ==
    ASSUME NEW w \in Worlds, Spent(w), NEW o \in Names, NEW force
    PROVE  Calm(makeMessage(w, o, force), w)
<1>1. CASE ~MayMake(w, o, force)
  <2>1. makeMessage(w, o, force) = w
    BY <1>1 DEF makeMessage
  <2> QED BY <2>1 DEF Calm
<1>2. CASE MayMake(w, o, force)
  <2> DEFINE r == NewReg("made")
             v == makeMessage(w, o, force)
  <2>1. v = [w EXCEPT !.cookies = @ + 1, !.reg[o] = r, !.live = @ \ {o}]
    BY <1>2 DEF makeMessage
  <2>2. r \in Reg /\ r.chpw_key = 0
    BY DEF Reg, NewReg, Passwords
  <2>3. w.reg \in [Names -> {NoReg} \cup Reg] /\ w.cookies + 1 \in Nat
    BY DEF Worlds
  <2> HIDE DEF r, v
  <2>4. v.reg = [w.reg EXCEPT ![o] = r]
    BY <2>1 DEF Worlds
  <2>5. /\ v.con = w.con /\ v.links = w.links /\ v.read = w.read /\ v.cut = w.cut /\ v.done = w.done
        /\ v.stale = w.stale /\ v.live = w.live \ {o}
    BY <2>1 DEF Worlds
  <2>6. v \in Worlds
    BY <2>1, <2>2, <2>3 DEF Worlds
  <2>7. Spent(v)
    <3> SUFFICES ASSUME NEW x \in Names \ v.live PROVE v.reg[x] = NoReg \/ v.reg[x].chpw_key = 0
      BY DEF Spent
    <3>1. CASE x = o
      BY <2>2, <2>3, <2>4, <3>1
    <3>2. CASE x # o
      BY <2>3, <2>4, <2>5, <3>2 DEF Spent
    <3> QED BY <3>1, <3>2
  <2> QED BY <2>5, <2>6, <2>7 DEF Calm, v
<1> QED BY <1>1, <1>2

\* QUIT
LEMMA QuitIs ==
    ASSUME NEW w \in Worlds, NEW p \in Conns, w.con[p] \in Con
    PROVE  LET v == Quit(w, p) IN
           /\ Kept(v, w, p) /\ SameAccounts(v, w) /\ v.con[p].user = w.con[p].user
           /\ v.con[p].gpriv = w.con[p].gpriv /\ v.con[p].opriv = w.con[p].opriv
<1> DEFINE v == Quit(w, p)
           d == [w.con[p] EXCEPT !.open = FALSE]
<1>1. v.con = [w.con EXCEPT ![p] = d]
  BY DEF Worlds, Quit
<1>2. d \in Con /\ v \in Worlds
  BY DEF Worlds, Con, Quit
<1>3. SameAccounts(v, w) /\ v.links = w.links /\ v.read = w.read /\ v.cut = w.cut /\ v.done = w.done
  BY DEF Worlds, SameAccounts, Quit
<1>4. d.user = w.con[p].user /\ d.gpriv = w.con[p].gpriv /\ d.opriv = w.con[p].opriv
  BY DEF Con
<1> HIDE DEF d, v
<1>5. Kept(v, w, p) /\ v.con[p] = d
  BY <1>1, <1>2, <1>3, EditIs
<1> QED BY <1>3, <1>4, <1>5 DEF v

\* Whatever the command, it edits its own connection and the accounts; the session
\* gains nothing but by a login, by the answer to one or by a key.
LEMMA PerformIs ==
    ASSUME NEW w \in Worlds, Spent(w), NEW p \in Conns, w.con[p] \in Con, NEW m \in Command, Freed
    PROVE  LET v == Perform(w, p, m) IN
           /\ Kept(v, w, p) /\ Spent(v) /\ v.stale = w.stale
           /\ Gains(m, Granted(w, p, m), w.con[p], v.con[p])
<1> DEFINE v == Perform(w, p, m)
           c == w.con[p]
           d == v.con[p]
           ok == Granted(w, p, m)
           Done == Kept(v, w, p) /\ Spent(v) /\ v.stale = w.stale /\ Gains(m, ok, c, d)
<1> SUFFICES Done
  OBVIOUS
<1>1. SameAccounts(v, w) => Spent(v) /\ v.stale = w.stale
  BY DEF SameAccounts, Spent
<1> HIDE DEF ok
<1>2. ASSUME Calm(v, w), m.kind # "SYSTEM LOGIN"
      PROVE  Done
  <2>1. Kept(v, w, p) /\ v.con = w.con /\ Spent(v) /\ v.stale = w.stale
    BY <1>2 DEF Calm, Kept, Elsewhere
  <2>2. Gains(m, ok, c, d)
    BY <1>2, <2>1 DEF Gains, NoGain, Login
  <2> HIDE DEF v
  <2> QED BY <2>1, <2>2
<1>3. CASE m.kind = "SYSTEM LOGIN"
  <2>1. v = authSysLogin(w, p, m.user)
    BY <1>3 DEF Perform
  <2>2. /\ Kept(v, w, p) /\ SameAccounts(v, w)
        /\ m.user \in DOMAIN Privs => d.user = m.user /\ d.gpriv = {} /\ d.opriv = {}
        /\ m.user \notin DOMAIN Privs => d.user = c.user /\ d.gpriv = c.gpriv /\ d.opriv = c.opriv
    BY <2>1, SysLoginIs
  <2> HIDE DEF v
  <2>3. Gains(m, ok, c, d)
    BY <1>3, <2>2 DEF Gains, NewLogin, NoGain, Login
  <2> QED BY <1>1, <2>2, <2>3
<1>4. CASE m.kind = "SYSTEM PASS"
  <2>1. v = authSysPass(w, p, m.answer)
    BY <1>4 DEF Perform
  <2>2. /\ Kept(v, w, p) /\ SameAccounts(v, w) /\ d.cookie = c.cookie
        /\ SysAnswered(w, p, m.answer) => d.user = c.user /\ d.gpriv = Privs[c.user] /\ d.opriv = {}
        /\ ~SysAnswered(w, p, m.answer) => d.user = "" /\ d.gpriv = c.gpriv /\ d.opriv = c.opriv
    <3> DEFINE u == authSysPass(w, p, m.answer)
               answered == SysAnswered(w, p, m.answer)
    <3>1. /\ Kept(u, w, p) /\ SameAccounts(u, w) /\ u.con[p].cookie = c.cookie
          /\ answered => u.con[p].user = c.user /\ u.con[p].gpriv = Privs[c.user] /\ u.con[p].opriv = {}
          /\ ~answered => u.con[p].user = "" /\ u.con[p].gpriv = c.gpriv /\ u.con[p].opriv = c.opriv
      BY SysPassIs
    <3> HIDE DEF v, u, answered
    <3> QED BY <2>1, <3>1 DEF u, answered
  <2> HIDE DEF v
  <2>3. Gains(m, ok, c, d)
    <3>1. CASE SysAnswered(w, p, m.answer)
      BY <1>4, <2>2, <3>1 DEF Gains, NewAnswer, Answered, SysAnswered
    <3>2. CASE ~SysAnswered(w, p, m.answer)
      BY <1>4, <2>2, <3>2 DEF Gains, NoGain, Login
    <3> QED BY <3>1, <3>2
  <2> QED BY <1>1, <2>2, <2>3
<1>5. CASE m.kind = "OBJECT LOGIN"
  <2>1. v = authObjLogin(w, p, m.name) /\ m.name \in Names
    BY <1>5 DEF Perform, Command
  <2>2. /\ Kept(v, w, p) /\ SameAccounts(v, w)
        /\ d.user = c.user /\ d.gpriv = c.gpriv /\ d.opriv \in {c.opriv, {}}
    BY <2>1, ObjLoginIs
  <2> HIDE DEF v
  <2>3. Gains(m, ok, c, d)
    BY <1>5, <2>2 DEF Gains, NoGain, Login
  <2> QED BY <1>1, <2>2, <2>3
<1>6. CASE m.kind = "CHPASSKEY"
  <2>1. v = authObjKey(w, p, m.key) /\ ok = KeyFits(w, p, m.key)
    BY <1>6 DEF Perform, Granted, ok
  <2>2. /\ Kept(v, w, p) /\ SameAccounts(v, w)
        /\ d.user = c.user /\ d.gpriv = c.gpriv
        /\ ~KeyFits(w, p, m.key) => d.opriv = c.opriv
    BY <2>1, ObjKeyIs
  <2> HIDE DEF v
  <2>3. Gains(m, ok, c, d)
    BY <1>6, <2>1, <2>2 DEF Gains, NewKey, Shown, NoGain, Login
  <2> QED BY <1>1, <2>2, <2>3
<1>7. CASE m.kind = "OBJECT PASS"
  <2>1. v = authObjPass(w, p, m.answer)
    BY <1>7 DEF Perform
  <2>2. /\ Kept(v, w, p) /\ SameAccounts(v, w)
        /\ d.user = c.user /\ d.gpriv = c.gpriv /\ d.opriv \in {c.opriv, {"OWNER"}}
    BY <2>1, ObjPassIs
  <2> HIDE DEF v
  <2>3. Gains(m, ok, c, d)
    <3>1. "SETPASS" \in d.opriv => "SETPASS" \in c.opriv
      BY <2>2
    <3> HIDE DEF c, d
    <3> QED BY <1>7, <2>2, <3>1 DEF Gains, NoGain, Login
  <2> QED BY <1>1, <2>2, <2>3
<1>8. CASE m.kind = "ALTER"
  <2>1. v = alterObj(w, p, m.name, m.field) /\ m.name \in Names
    BY <1>8 DEF Perform, Command
  <2>2. Calm(v, w)
    BY <2>1, AlterIs
  <2> QED BY <1>2, <1>8, <2>2
<1>9. CASE m.kind = "MAKE"
  <2>1. v = makeMessage(w, m.name, m.force) /\ m.name \in Names
    BY <1>9 DEF Perform, Command
  <2>2. Calm(v, w)
    BY <2>1, MakeIs
  <2> QED BY <1>2, <1>9, <2>2
<1>10. CASE m.kind = "QUIT"
  <2>1. v = Quit(w, p)
    BY <1>10 DEF Perform
  <2>2. /\ Kept(v, w, p) /\ SameAccounts(v, w)
        /\ d.user = c.user /\ d.gpriv = c.gpriv /\ d.opriv = c.opriv
    BY <2>1, QuitIs
  <2> HIDE DEF v
  <2>3. Gains(m, ok, c, d)
    BY <1>10, <2>2 DEF Gains, NoGain, Login
  <2> QED BY <1>1, <2>2, <2>3
<1>11. CASE m.kind \in {"HELP", "QUERY", "QUERY AKILL", "LOG"}
  <2>1. v = w
    BY <1>11 DEF Perform
  <2>2. Calm(v, w)
    BY <2>1 DEF Calm
  <2> QED BY <1>2, <1>11, <2>2
<1>12. m.kind \in {"SYSTEM LOGIN", "SYSTEM PASS", "OBJECT PASS", "OBJECT LOGIN", "CHPASSKEY", "QUERY", "ALTER",
                   "MAKE", "QUIT", "HELP", "LOG", "QUERY AKILL"}
  BY DEF Command
<1> HIDE DEF Done
<1> QED BY <1>3, <1>4, <1>5, <1>6, <1>7, <1>8, <1>9, <1>10, <1>11, <1>12

\* What is granted is within the rights of the session.
LEMMA GrantedNeeds ==
    ASSUME NEW w, NEW p, NEW m \in Command, Granted(w, p, m)
    PROVE  /\ Needs(m) \subseteq w.con[p].gpriv
           /\ m.kind = "ALTER" /\ m.field = "PASS" => "SETPASS" \in w.con[p].opriv
<1>1. CASE m.kind = "QUERY"
  BY <1>1 DEF Granted, Needs
<1>2. CASE m.kind = "ALTER"
  BY <1>2 DEF Granted, Needs, MayAlter
<1>3. CASE m.kind = "OBJECT LOGIN"
  BY <1>3 DEF Granted, Needs
<1>4. CASE m.kind = "QUERY AKILL"
  BY <1>4 DEF Granted, Needs
<1>5. CASE m.kind = "LOG"
  BY <1>5 DEF Granted, Needs
<1>6. CASE m.kind \notin {"QUERY", "ALTER", "OBJECT LOGIN", "QUERY AKILL", "LOG"}
  BY <1>6 DEF Needs
<1> QED BY <1>1, <1>2, <1>3, <1>4, <1>5, <1>6
-----------------------------------------------------------------------------
(***************************************************************************)
(* What a session proved, when it goes on.                                 *)
(***************************************************************************)

\* What is said of the first commands stays when more are sent and done.
LEMMA PastStays ==
    ASSUME NEW S, NEW T, NEW D, NEW E, NEW n \in Nat,
           \A k \in 1 .. n : E[k] = D[k] /\ T[D[k].at] = S[D[k].at]
    PROVE  /\ \A user : Known(S, D, n, user) => Known(T, E, n, user)
           /\ \A rights : Entitled(S, D, n, rights) => Entitled(T, E, n, rights)
           /\ Keyed(S, D, n) => Keyed(T, E, n)
<1>1. \A k \in 1 .. n : Cmd(T, E, k) = Cmd(S, D, k) /\ E[k] = D[k]
  BY DEF Cmd
<1>2. ASSUME NEW k \in 1 .. n, Since(S, D, k, n) PROVE Since(T, E, k, n)
  <2>1. \A m \in k + 1 .. n : m \in 1 .. n
    OBVIOUS
  <2> QED BY <1>1, <1>2, <2>1 DEF Since
<1> QED BY <1>1, <1>2 DEF Known, Entitled, Keyed

\* One more is done.
LEMMA SessionGoesOn ==
    ASSUME NEW S \in Seq(Command), NEW D \in Seq(Entry), NEW e \in Entry, e.at \in DOMAIN S,
           DoneOk(S, D), NEW c \in Con, NEW d \in Con, SessionOk(S, D, c),
           Gains(S[e.at], e.ok, c, d), d.cookie = e.cookie,
           e.ok => /\ Needs(S[e.at]) \subseteq c.gpriv
                   /\ S[e.at].kind = "ALTER" /\ S[e.at].field = "PASS" => "SETPASS" \in c.opriv
    PROVE  DoneOk(S, Append(D, e)) /\ SessionOk(S, Append(D, e), d)
<1> DEFINE n == Len(D)
           E == Append(D, e)
           m == S[e.at]
<1>1. n \in Nat /\ Len(E) = n + 1 /\ E[n + 1] = e /\ \A k \in 1 .. n : E[k] = D[k]
  OBVIOUS
<1>2. /\ \A user : Known(S, D, n, user) => Known(S, E, n, user)
      /\ \A rights : Entitled(S, D, n, rights) => Entitled(S, E, n, rights)
      /\ Keyed(S, D, n) => Keyed(S, E, n)
  <2> HIDE DEF E, n
  <2> QED BY <1>1, PastStays
<1>3. Cmd(S, E, n + 1) = m
  BY <1>1 DEF Cmd
<1> HIDE DEF E, n
<1>4. ASSUME NEW i \in 1 .. n PROVE E[i].at \in DOMAIN S /\ Justified(S, E, i)
  <2>1. D[i].at \in DOMAIN S /\ Justified(S, D, i) /\ E[i] = D[i] /\ Cmd(S, E, i) = Cmd(S, D, i)
    BY <1>1 DEF DoneOk, n, Cmd
  <2>2. i - 1 \in Nat /\ \A k \in 1 .. i - 1 : E[k] = D[k]
    BY <1>1
  <2>3. /\ \A rights : Entitled(S, D, i - 1, rights) => Entitled(S, E, i - 1, rights)
        /\ Keyed(S, D, i - 1) => Keyed(S, E, i - 1)
    BY <2>2, PastStays
  <2> QED BY <2>1, <2>3 DEF Justified
<1>5. Justified(S, E, n + 1)
  <2> SUFFICES ASSUME e.ok
               PROVE  /\ Needs(m) # {} => Entitled(S, E, n, Needs(m))
                      /\ m.kind = "ALTER" /\ m.field = "PASS" => Keyed(S, E, n)
    <3>1. (n + 1) - 1 = n
      BY <1>1
    <3> QED BY <1>1, <1>3, <3>1 DEF Justified
  <2>1. Needs(m) \subseteq c.gpriv /\ (m.kind = "ALTER" /\ m.field = "PASS" => "SETPASS" \in c.opriv)
    OBVIOUS
  <2>2. ASSUME Needs(m) # {} PROVE Entitled(S, E, n, Needs(m))
    <3>1. Entitled(S, E, n, c.gpriv)
      BY <1>2, <2>1, <2>2 DEF SessionOk, n
    <3> HIDE DEF m
    <3> QED BY <2>1, <3>1 DEF Entitled
  <2>3. ASSUME m.kind = "ALTER", m.field = "PASS" PROVE Keyed(S, E, n)
    BY <1>2, <2>1, <2>3 DEF SessionOk, n
  <2> QED BY <2>2, <2>3
<1>6. DoneOk(S, E)
  <2> SUFFICES ASSUME NEW i \in 1 .. n + 1 PROVE E[i].at \in DOMAIN S /\ Justified(S, E, i)
    BY <1>1 DEF DoneOk
  <2>1. CASE i = n + 1
    BY <1>1, <1>5, <2>1
  <2>2. CASE i # n + 1
    <3>1. i \in 1 .. n
      BY <1>1, <2>2
    <3> QED BY <1>4, <3>1
  <2> QED BY <2>1, <2>2
\* nothing was logged in by this command
<1>7. ASSUME ~Login(m)
      PROVE  /\ \A user : Known(S, D, n, user) => Known(S, E, n + 1, user)
             /\ \A rights : Entitled(S, D, n, rights) => Entitled(S, E, n + 1, rights)
             /\ Keyed(S, D, n) => Keyed(S, E, n + 1)
  <2>1. ASSUME NEW k \in 1 .. n, Since(S, E, k, n) PROVE Since(S, E, k, n + 1)
    <3> SUFFICES ASSUME NEW x \in k + 1 .. n + 1 PROVE ~Login(Cmd(S, E, x))
      BY DEF Since
    <3>1. CASE x = n + 1
      BY <1>3, <1>7, <3>1
    <3>2. CASE x # n + 1
      <4>1. x \in k + 1 .. n
        BY <1>1, <3>2
      <4> QED BY <2>1, <4>1 DEF Since
    <3> QED BY <3>1, <3>2
  <2>2. \A k \in 1 .. n : k \in 1 .. n + 1
    BY <1>1
  <2> QED BY <1>2, <2>1, <2>2 DEF Known, Entitled, Keyed
<1>8. Since(S, E, n + 1, n + 1)
  BY <1>1 DEF Since
<1>9. n + 1 \in 1 .. n + 1 /\ \A k \in 1 .. n : k \in 1 .. n + 1 /\ k < n + 1
  BY <1>1
<1>10. SessionOk(S, E, d)
  <2> SUFFICES /\ d.user # "" => Known(S, E, n + 1, d.user)
               /\ d.gpriv # {} => Entitled(S, E, n + 1, d.gpriv)
               /\ "SETPASS" \in d.opriv => Keyed(S, E, n + 1)
    BY <1>1 DEF SessionOk
  <2>1. /\ c.user # "" => Known(S, D, n, c.user)
        /\ c.gpriv # {} => Entitled(S, D, n, c.gpriv)
        /\ "SETPASS" \in c.opriv => Keyed(S, D, n)
    BY DEF SessionOk, n
  <2> HIDE DEF m
  <2>2. CASE NewLogin(m, d)
    <3>1. Login(m) /\ d.user = m.user /\ d.gpriv = {} /\ d.opriv = {}
      BY <2>2 DEF NewLogin
    <3>2. Known(S, E, n + 1, m.user)
      BY <1>3, <1>8, <1>9, <3>1 DEF Known
    <3> QED BY <3>1, <3>2
  <2>3. CASE NewAnswer(m, c, d)
    <3>1. Answered(m, e.cookie) /\ c.user # "" /\ d.user = c.user /\ d.gpriv = Privs[c.user] /\ d.opriv = {} /\ ~Login(m)
      BY <2>3 DEF NewAnswer, Answered, Login
    <3>2. PICK k \in 1 .. n : Login(Cmd(S, E, k)) /\ Cmd(S, E, k).user = c.user /\ Since(S, E, k, n)
      BY <1>2, <2>1, <3>1 DEF Known
    <3>3. Known(S, E, n + 1, d.user)
      BY <1>7, <2>1, <3>1
    <3>4. Since(S, E, k, n + 1)
      <4> SUFFICES ASSUME NEW x \in k + 1 .. n + 1 PROVE ~Login(Cmd(S, E, x))
        BY DEF Since
      <4>1. x = n + 1 \/ x \in k + 1 .. n
        BY <1>1
      <4> QED BY <1>3, <3>1, <3>2, <4>1 DEF Since
    <3>5. Entitled(S, E, n + 1, d.gpriv)
      <4>1. Answered(Cmd(S, E, n + 1), E[n + 1].cookie)
        BY <1>1, <1>3, <3>1
      <4> QED BY <1>9, <3>1, <3>2, <3>4, <4>1 DEF Entitled
    <3> QED BY <3>1, <3>3, <3>5
  <2>4. CASE NewKey(m, e.ok, c, d)
    <3>1. Shown(m, e.ok) /\ d.user = c.user /\ d.gpriv = c.gpriv /\ ~Login(m)
      BY <2>4 DEF NewKey, Shown, Login
    <3>2. Keyed(S, E, n + 1)
      BY <1>1, <1>3, <1>8, <1>9, <3>1 DEF Keyed
    <3> QED BY <1>7, <2>1, <3>1, <3>2
  <2>5. CASE NoGain(m, c, d)
    BY <1>7, <2>1, <2>5 DEF NoGain
  <2> QED BY <2>2, <2>3, <2>4, <2>5 DEF Gains, m
<1> QED BY <1>6, <1>10 DEF E

\* A command is granted or it is not.
LEMMA GrantedBool ==
    ASSUME NEW w, NEW p, NEW m \in Command
    PROVE  Granted(w, p, m) \in BOOLEAN
<1>1. CASE m.kind \in {"SYSTEM LOGIN", "QUIT", "HELP"}
  BY <1>1 DEF Granted
<1>2. CASE m.kind = "SYSTEM PASS"
  BY <1>2 DEF Granted, SysAnswered
<1>3. CASE m.kind = "OBJECT LOGIN"
  BY <1>3 DEF Granted
<1>4. CASE m.kind = "CHPASSKEY"
  BY <1>4 DEF Granted, KeyFits
<1>5. CASE m.kind = "OBJECT PASS"
  BY <1>5 DEF Granted, ObjAnswered
<1>6. CASE m.kind = "QUERY"
  BY <1>6 DEF Granted
<1>7. CASE m.kind = "QUERY AKILL"
  <2>1. Granted(w, p, m) = ("QUERY_AKILL_LIST" \in w.con[p].gpriv)
    BY <1>7 DEF Granted
  <2> QED BY <2>1
<1>8. CASE m.kind = "ALTER"
  BY <1>8 DEF Granted, MayAlter
<1>9. CASE m.kind = "LOG"
  BY <1>9 DEF Granted
<1>10. CASE m.kind = "MAKE"
  BY <1>10 DEF Granted, MayMake
<1> QED BY <1>1, <1>2, <1>3, <1>4, <1>5, <1>6, <1>7, <1>8, <1>9, <1>10 DEF Command

\* What became of a command is noted.
LEMMA NoteIs ==
    ASSUME NEW w \in Worlds, NEW p \in Conns, w.con[p] \in Con, NEW i \in Nat, NEW ok \in BOOLEAN
    PROVE  LET v == Note(w, p, i, ok)
               e == [at |-> i, ok |-> ok, cookie |-> w.con[p].cookie]
           IN
           /\ v \in Worlds /\ e \in Entry /\ v.done[p] = Append(w.done[p], e)
           /\ \A x \in Conns \ {p} : v.done[x] = w.done[x]
           /\ v.con = w.con /\ v.links = w.links /\ v.read = w.read /\ v.cut = w.cut
           /\ v.reg = w.reg /\ v.live = w.live /\ v.stale = w.stale
<1> DEFINE e == [at |-> i, ok |-> ok, cookie |-> w.con[p].cookie]
           v == Note(w, p, i, ok)
<1>1. e \in Entry
  BY DEF Entry, Con
<1>2. w.done \in [Conns -> Seq(Entry)]
  BY DEF Worlds
<1>3. v = [w EXCEPT !.done = [w.done EXCEPT ![p] = Append(w.done[p], e)]]
  BY <1>2 DEF Note, Worlds
<1> HIDE DEF e, v
<1>4. [w.done EXCEPT ![p] = Append(w.done[p], e)] \in [Conns -> Seq(Entry)]
  BY <1>1, <1>2
<1>5. v \in Worlds
  BY <1>3, <1>4 DEF Worlds
<1>6. /\ v.done = [w.done EXCEPT ![p] = Append(w.done[p], e)]
      /\ v.con = w.con /\ v.links = w.links /\ v.read = w.read /\ v.cut = w.cut
      /\ v.reg = w.reg /\ v.live = w.live /\ v.stale = w.stale
  BY <1>3 DEF Worlds
<1> QED BY <1>1, <1>2, <1>5, <1>6 DEF e, v

Said == said \in [Conns -> Seq(Command)] /\ Freed

\* One command of a connection is handled.
LEMMA HandleIs ==
    ASSUME NEW w, Core(w), NEW p \in Conns, w.con[p] \in Con, NEW i \in DOMAIN said[p], Said
    PROVE  LET v == Handle(w, p, i) IN
           /\ Core(v) /\ v.con[p] \in Con /\ v.links = w.links /\ v.read = w.read /\ v.cut = w.cut
           /\ \A x \in Conns \ {p} : v.con[x] = w.con[x] /\ v.done[x] = w.done[x]
           /\ \E e \in Entry : e.at = i /\ v.done[p] = Append(w.done[p], e)
<1> DEFINE m == said[p][i]
           heard == m.kind \in Open \/ (w.con[p].user # "" /\ w.con[p].pass)
           ok == heard /\ Granted(w, p, m)
           u == IF heard THEN Perform(w, p, m) ELSE w
           v == Note(u, p, i, ok)
           e == [at |-> i, ok |-> ok, cookie |-> u.con[p].cookie]
           c == w.con[p]
           d == u.con[p]
<1>1. w \in Worlds /\ Spent(w) /\ ~w.stale /\ said[p] \in Seq(Command) /\ m \in Command /\ i \in Nat /\ Freed
  BY DEF Core, Said
<1>2. Granted(w, p, m) \in BOOLEAN
  BY <1>1, GrantedBool
<1>3. Handle(w, p, i) = v
  <2>1. CASE heard
    <3>1. ok = Granted(w, p, m)
      <4> HIDE DEF m
      <4> QED BY <1>2, <2>1
    <3> QED BY <2>1, <3>1 DEF Handle
  <2>2. CASE ~heard
    <3>1. ok = FALSE
      BY <2>2
    <3> QED BY <2>2, <3>1 DEF Handle
  <2> QED BY <2>1, <2>2
<1>4. Kept(u, w, p) /\ Spent(u) /\ u.stale = w.stale /\ Gains(m, ok, c, d)
  <2>1. CASE heard
    <3>1. u = Perform(w, p, m) /\ ok = Granted(w, p, m)
      <4> HIDE DEF m
      <4> QED BY <1>2, <2>1
    <3> HIDE DEF heard, ok, u, m
    <3>2. LET x == Perform(w, p, m) IN
             Kept(x, w, p) /\ Spent(x) /\ x.stale = w.stale /\ Gains(m, Granted(w, p, m), w.con[p], x.con[p])
      BY <1>1, PerformIs
    <3> QED BY <3>1, <3>2
  <2>2. CASE ~heard
    <3>1. u = w
      BY <2>2
    <3>2. Kept(u, w, p)
      BY <1>1, <3>1 DEF Kept, Elsewhere
    <3>3. ~Login(m)
      BY <2>2 DEF Login, Open
    <3> HIDE DEF heard, ok, u, m
    <3> QED BY <1>1, <3>1, <3>2, <3>3 DEF Gains, NoGain
  <2> QED BY <2>1, <2>2
<1>5. ok => /\ Needs(m) \subseteq c.gpriv
            /\ m.kind = "ALTER" /\ m.field = "PASS" => "SETPASS" \in c.opriv
  <2> HIDE DEF m
  <2> QED BY <1>1, GrantedNeeds
<1>6. ok \in BOOLEAN
  OBVIOUS
<1> HIDE DEF u, ok, heard
<1>7. u \in Worlds /\ d \in Con /\ Elsewhere(u, w, p)
  BY <1>4 DEF Kept
<1>8. /\ v \in Worlds /\ e \in Entry /\ v.done[p] = Append(u.done[p], e)
      /\ \A x \in Conns \ {p} : v.done[x] = u.done[x]
      /\ v.con = u.con /\ v.links = u.links /\ v.read = u.read /\ v.cut = u.cut
      /\ v.reg = u.reg /\ v.live = u.live /\ v.stale = u.stale
  <2> HIDE DEF m
  <2> QED BY <1>1, <1>6, <1>7, NoteIs
<1>9. e.at = i /\ e.ok = ok /\ e.cookie = d.cookie
  OBVIOUS
<1>10. w.done[p] \in Seq(Entry) /\ DoneOk(said[p], w.done[p]) /\ SessionOk(said[p], w.done[p], c)
  BY <1>1 DEF Core, Worlds
<1>11. DoneOk(said[p], Append(w.done[p], e)) /\ SessionOk(said[p], Append(w.done[p], e), d)
  <2>1. said[p][e.at] = m
    BY <1>9
  <2> HIDE DEF e, m, c, d
  <2> QED BY <1>1, <1>4, <1>5, <1>7, <1>8, <1>9, <1>10, <2>1, SessionGoesOn DEF c
<1> HIDE DEF v, e
<1>12. v.done[p] = Append(w.done[p], e) /\ v.links = w.links /\ v.read = w.read /\ v.cut = w.cut
  BY <1>7, <1>8 DEF Elsewhere
<1>13. \A x \in Conns \ {p} : v.con[x] = w.con[x] /\ v.done[x] = w.done[x]
  BY <1>7, <1>8 DEF Elsewhere
<1>14. Core(v)
  <2>1. Spent(v) /\ ~v.stale
    BY <1>1, <1>4, <1>8 DEF Spent
  <2>2. ASSUME NEW x \in Conns
        PROVE  DoneOk(said[x], v.done[x]) /\ (v.con[x] \in Con => SessionOk(said[x], v.done[x], v.con[x]))
    <3>1. CASE x = p
      BY <1>8, <1>11, <1>12, <3>1
    <3>2. CASE x # p
      BY <1>13, <3>2 DEF Core
    <3> QED BY <3>1, <3>2
  <2> QED BY <1>8, <2>1, <2>2 DEF Core
<1> QED BY <1>3, <1>7, <1>8, <1>9, <1>12, <1>13, <1>14
-----------------------------------------------------------------------------
(***************************************************************************)
(* What is read is done.                                                   *)
(***************************************************************************)

Ordered(D) == \A j, k \in 1 .. Len(D) : j < k => D[j].at < D[k].at
Ats(D) == {D[k].at : k \in 1 .. Len(D)}

\* One more at the end.
LEMMA OrderedAppend ==
    ASSUME NEW D \in Seq(Entry), NEW e \in Entry, Ordered(D), \A a \in Ats(D) : a < e.at
    PROVE  Ordered(Append(D, e)) /\ Ats(Append(D, e)) = Ats(D) \cup {e.at}
<1> DEFINE n == Len(D)
           E == Append(D, e)
<1>1. n \in Nat /\ Len(E) = n + 1 /\ E[n + 1] = e /\ \A k \in 1 .. n : E[k] = D[k]
  OBVIOUS
<1> HIDE DEF E, n
<1>2. \A k \in 1 .. n + 1 : k \in 1 .. n \/ k = n + 1
  BY <1>1
<1>3. \A k \in 1 .. n : k \in 1 .. n + 1
  BY <1>1
<1>4. n + 1 \in 1 .. n + 1
  BY <1>1
<1>5. Ats(E) = Ats(D) \cup {e.at}
  BY <1>1, <1>2, <1>3, <1>4 DEF Ats, n
<1>6. Ordered(E)
  <2> SUFFICES ASSUME NEW j \in 1 .. n + 1, NEW k \in 1 .. n + 1, j < k PROVE E[j].at < E[k].at
    BY <1>1 DEF Ordered
  <2>1. j \in 1 .. n
    BY <1>1
  <2>2. CASE k \in 1 .. n
    BY <1>1, <2>1, <2>2 DEF Ordered, n
  <2>3. CASE k = n + 1
    BY <1>1, <2>1, <2>3 DEF Ats, n
  <2> QED BY <1>2, <2>2, <2>3
<1> QED BY <1>5, <1>6 DEF E

\* What a turn may read of a connection.
Legal(p, r) ==
    /\ r.halves \in Nat /\ r.seam \in Nat /\ r.eof \in BOOLEAN /\ r.broken \in BOOLEAN
    /\ read[p] \in Nat /\ read[p] + r.halves <= 2 * Len(said[p])

\* The commands read whole are behind all that was read before, and what was read
\* is whole or cut.
LEMMA WholeIs ==
    ASSUME Said, NEW p \in Conns, NEW r, Legal(p, r)
    PROVE  /\ DOMAIN said[p] = 1 .. Len(said[p]) /\ Len(said[p]) \in Nat /\ said[p] \in Seq(Command)
           /\ \A i \in Whole(p, r) : i \in DOMAIN said[p] /\ read[p] < 2 * i - 1 /\ 2 * i <= read[p] + r.halves
           /\ \A i \in DOMAIN said[p] :
                 read[p] < 2 * i /\ 2 * i <= read[p] + r.halves => i \in Whole(p, r) \cup Split(p, r)
           /\ Split(p, r) \subseteq DOMAIN said[p]
<1>1. said[p] \in Seq(Command)
  BY DEF Said
<1> DEFINE S == DOMAIN said[p]
<1>2. S = 1 .. Len(said[p]) /\ Len(said[p]) \in Nat /\ S \subseteq Nat
  BY <1>1
<1>3. read[p] \in Nat /\ r.halves \in Nat /\ r.seam \in Nat
  BY DEF Legal
<1>4. Touched(p, r) = {i \in S : read[p] < 2 * i /\ 2 * i - 1 <= read[p] + r.halves}
  BY DEF Touched
<1> HIDE DEF S
<1>5. ASSUME NEW i \in Whole(p, r) PROVE i \in S /\ read[p] < 2 * i - 1 /\ 2 * i <= read[p] + r.halves
  <2>1. i \in Touched(p, r) /\ i \notin Split(p, r)
    BY DEF Whole
  <2>2. i \in S /\ ~ (2 * i - 1 <= read[p]) /\ ~ (read[p] + r.halves < 2 * i)
    BY <1>4, <2>1 DEF Split
  <2>3. i \in Nat
    BY <1>2, <2>2
  <2> QED BY <1>3, <2>2, <2>3
<1>6. ASSUME NEW i \in S, read[p] < 2 * i, 2 * i <= read[p] + r.halves
      PROVE  i \in Whole(p, r) \cup Split(p, r)
  <2>1. i \in Nat
    BY <1>2
  <2>2. 2 * i - 1 <= read[p] + r.halves
    BY <1>3, <1>6, <2>1
  <2>3. i \in Touched(p, r)
    BY <1>4, <1>6, <2>2
  <2> QED BY <2>3 DEF Whole
<1>7. Split(p, r) \subseteq S
  BY <1>4 DEF Split
<1> QED BY <1>1, <1>2, <1>5, <1>6, <1>7 DEF S

Maps(v, w, p) ==
    /\ v.links = w.links /\ v.read = w.read /\ v.cut = w.cut
    /\ \A x \in Conns \ {p} : v.con[x] = w.con[x] /\ v.done[x] = w.done[x]

\* The commands of a connection are handled, in order.
LEMMA CommandsAre ==
    ASSUME NEW w, Core(w), NEW p \in Conns, w.con[p] \in Con, Said, NEW r, Legal(p, r),
           Ordered(w.done[p]), \A a \in Ats(w.done[p]) : 2 * a <= read[p],
           NEW v, v = Handled(w, p, r)
    PROVE  /\ Core(v) /\ v.con[p] \in Con /\ Maps(v, w, p)
           /\ Ordered(v.done[p]) /\ Ats(v.done[p]) = Ats(w.done[p]) \cup Whole(p, r)
<1> DEFINE S == DOMAIN said[p]
           All == {u \in Worlds : Core(u) /\ u.con[p] \in Con}
           step(u, i) == IF i \in Whole(p, r) THEN Handle(u, p, i) ELSE u
           pick == [T \in SUBSET S |-> Max(T)]
           F == [x \in S \X All |-> step(x[2], x[1])]
           Fit(T, u) == /\ Maps(u, w, p) /\ Ordered(u.done[p])
                        /\ Ats(u.done[p]) = Ats(w.done[p]) \cup (T \cap Whole(p, r))
           W == [T \in SUBSET S |-> {u \in All : Fit(T, u)}]
<1>1. S = 1 .. Len(said[p]) /\ Len(said[p]) \in Nat /\ S \subseteq Nat
  BY WholeIs
<1>2. IsFiniteSet(S)
  BY <1>1, FS_Interval
<1>3. \A T \in SUBSET S : T # {} => Max(T) \in T /\ \A k \in T : k <= Max(T)
  <2> SUFFICES ASSUME NEW T \in SUBSET S, T # {} PROVE Max(T) \in T /\ \A k \in T : k <= Max(T)
    OBVIOUS
  <2>1. T \in SUBSET (1 .. Len(said[p]))
    BY <1>1
  <2>2. \E m \in T : \A k \in T : m >= k
    BY <1>1, <2>1, NatMax
  <2>3. Max(T) \in T /\ \A k \in T : Max(T) >= k
    BY <2>2 DEF Max
  <2> QED BY <2>1, <2>3
<1>4. Picks(pick, S)
  BY <1>3 DEF Picks
<1>5. w \in All
  BY DEF Core
<1> HIDE DEF S
<1>6. ASSUME NEW u \in All, NEW i \in S
      PROVE  /\ step(u, i) \in All
             /\ i \in Whole(p, r) => /\ Maps(step(u, i), u, p)
                                     /\ \E e \in Entry : e.at = i /\ step(u, i).done[p] = Append(u.done[p], e)
  <2>1. CASE i \in Whole(p, r)
    <3>1. LET x == Handle(u, p, i) IN
          /\ Core(x) /\ x.con[p] \in Con /\ x.links = u.links /\ x.read = u.read /\ x.cut = u.cut
          /\ \A y \in Conns \ {p} : x.con[y] = u.con[y] /\ x.done[y] = u.done[y]
          /\ \E e \in Entry : e.at = i /\ x.done[p] = Append(u.done[p], e)
      <4>1. Core(u) /\ u.con[p] \in Con /\ i \in DOMAIN said[p]
        BY DEF S
      <4> HIDE DEF All, S
      <4> QED BY <4>1, HandleIs
    <3> DEFINE x == Handle(u, p, i)
    <3>2. step(u, i) = x
      BY <2>1
    <3> HIDE DEF x, step
    <3>3. x \in Worlds /\ Core(x) /\ x.con[p] \in Con /\ Maps(x, u, p)
      BY <3>1 DEF x, Maps, Core
    <3> QED BY <3>1, <3>2, <3>3 DEF x
  <2>2. CASE i \notin Whole(p, r)
    BY <2>2
  <2> QED BY <2>1, <2>2
<1> HIDE DEF step
<1>7. F \in [S \X All -> All]
  <2>1. ASSUME NEW x \in S \X All PROVE step(x[2], x[1]) \in All
    <3>1. x[1] \in S /\ x[2] \in All
      OBVIOUS
    <3> HIDE DEF All
    <3> QED BY <1>6, <3>1
  <2> HIDE DEF All
  <2> QED BY <2>1
<1> HIDE DEF All
<1>8. PICK g \in [SUBSET S -> All] : Folds(g, S, pick, w, F)
  <2> HIDE DEF pick, F
  <2> QED BY <1>2, <1>4, <1>5, <1>7, FoldExists
<1>9. g = [T \in SUBSET S |-> IF T = {} THEN w ELSE step(g[T \ {Max(T)}], Max(T))]
  <2>1. ASSUME NEW T \in SUBSET S, T # {}
        PROVE  F[<<pick[T], g[T \ {pick[T]}]>>] = step(g[T \ {Max(T)}], Max(T))
    <3>1. pick[T] = Max(T) /\ Max(T) \in S /\ g[T \ {Max(T)}] \in All
      BY <1>3, <2>1
    <3> HIDE DEF pick
    <3>2. <<Max(T), g[T \ {Max(T)}]>> \in S \X All
      BY <3>1
    <3> QED BY <3>1, <3>2
  <2> HIDE DEF F
  <2> QED BY <1>8, <2>1 DEF Folds
<1>10. PICK h : /\ h = [T \in SUBSET S |-> IF T = {} THEN w ELSE step(h[T \ {Max(T)}], Max(T))]
                /\ v = h[S]
  <2> DEFINE q == [i \in S |-> i]
  <2>1. PICK h : /\ h = [T \in SUBSET S |-> IF T = {} THEN w ELSE step(h[T \ {Max(T)}], q[Max(T)])]
                 /\ v = h[S]
    <3>1. g = [T \in SUBSET S |-> IF T = {} THEN w ELSE step(g[T \ {Max(T)}], q[Max(T)])]
      <4>1. \A T \in SUBSET S : T # {} => q[Max(T)] = Max(T)
        BY <1>3
      <4> HIDE DEF q
      <4> QED BY <1>9, <4>1
    <3>2. DOMAIN q = S
      OBVIOUS
    <3> HIDE DEF q
    <3>3. v = FoldLeft(step, w, q)
      BY DEF Handled, FoldLeftDomain, q, S, step
    <3> QED BY <3>1, <3>2, <3>3 DEF FoldLeft, MapThenFoldSet
  <2>2. \A T \in SUBSET S : T # {} => q[Max(T)] = Max(T)
    BY <1>3
  <2> HIDE DEF q
  <2> QED BY <2>1, <2>2
<1>11. h[{}] \in W[{}]
  <2>1. h[{}] = w
    BY <1>10
  <2>2. Fit({}, w)
    BY DEF Maps
  <2> HIDE DEF Fit
  <2> QED BY <1>5, <2>1, <2>2
<1>12. ASSUME NEW T \in SUBSET S, T # {}, h[T \ {pick[T]}] \in W[T \ {pick[T]}]
       PROVE  h[T] \in W[T]
  <2> DEFINE k == Max(T)
             U == T \ {k}
             u == h[U]
             x == step(u, k)
  <2>1. pick[T] = k /\ k \in T /\ k \in S /\ U \in SUBSET S /\ T = U \cup {k} /\ k \notin U /\ \A i \in U : i <= k
    BY <1>3, <1>12
  <2>2. h[T] = x
    BY <1>10, <1>12
  <2>3. u \in All /\ Fit(U, u)
    <3> HIDE DEF pick, k, Fit
    <3> QED BY <1>12, <2>1
  <2> HIDE DEF k, U, u, x, pick
  <2>4. x \in All
    BY <1>6, <2>1, <2>3 DEF x
  <2>5. CASE k \notin Whole(p, r)
    <3>1. x = u
      BY <2>5 DEF x, step
    <3>2. T \cap Whole(p, r) = U \cap Whole(p, r)
      BY <2>1, <2>5
    <3>3. Fit(T, x)
      BY <2>3, <3>1, <3>2
    <3> HIDE DEF Fit
    <3> QED BY <2>2, <2>4, <3>3
  <2>6. CASE k \in Whole(p, r)
    <3>1. PICK e \in Entry : e.at = k /\ x.done[p] = Append(u.done[p], e)
      BY <1>6, <2>1, <2>3, <2>6 DEF x
    <3>2. Maps(x, w, p)
      <4>1. Maps(x, u, p)
        BY <1>6, <2>1, <2>3, <2>6 DEF x
      <4> QED BY <2>3, <4>1 DEF Maps
    <3>3. u.done[p] \in Seq(Entry)
      BY <2>3 DEF All, Worlds
    <3>4. \A a \in Ats(u.done[p]) : a < e.at
      <4> SUFFICES ASSUME NEW a \in Ats(u.done[p]) PROVE a < k
        BY <3>1
      <4>1. k \in Nat /\ read[p] < 2 * k - 1
        BY <1>1, <2>1, <2>6, WholeIs
      <4>2. a \in Nat
        <5> DEFINE D == u.done[p]
        <5>1. PICK j \in 1 .. Len(D) : a = D[j].at
          BY DEF Ats
        <5>2. D \in Seq(Entry)
          BY <3>3
        <5> HIDE DEF D
        <5>3. D[j] \in Entry
          BY <5>1, <5>2
        <5> QED BY <5>1, <5>3 DEF Entry
      <4>3. CASE a \in Ats(w.done[p])
        <5>1. 2 * a <= read[p] /\ read[p] \in Nat
          BY <4>3 DEF Legal
        <5> QED BY <4>1, <4>2, <5>1
      <4>4. CASE a \in U
        <5>1. a <= k /\ a # k
          BY <2>1, <4>4
        <5> QED BY <4>1, <4>2, <5>1
      <4> QED BY <2>3, <4>3, <4>4
    <3>5. Ordered(x.done[p]) /\ Ats(x.done[p]) = Ats(u.done[p]) \cup {k}
      BY <2>3, <3>1, <3>3, <3>4, OrderedAppend
    <3>6. T \cap Whole(p, r) = (U \cap Whole(p, r)) \cup {k}
      BY <2>1, <2>6
    <3>7. Fit(T, x)
      BY <2>3, <3>2, <3>5, <3>6
    <3> HIDE DEF Fit
    <3> QED BY <2>2, <2>4, <3>7
  <2> QED BY <2>5, <2>6
<1>13. h[S] \in W[S]
  <2> HIDE DEF pick, W
  <2> QED BY <1>2, <1>4, <1>11, <1>12, FoldInduct
<1>14. S \cap Whole(p, r) = Whole(p, r)
  BY WholeIs DEF S
<1> QED BY <1>10, <1>13, <1>14 DEF All
-----------------------------------------------------------------------------
(***************************************************************************)
(* One connection is served.                                               *)
(***************************************************************************)

Upto(w, x) ==
    /\ Ordered(w.done[x]) /\ \A a \in Ats(w.done[x]) : 2 * a <= w.read[x]
    /\ w.read[x] <= 2 * Len(said[x])
Covered(w, x) == \A i \in DOMAIN said[x] : 2 * i <= w.read[x] => i \in Ats(w.done[x]) \cup w.cut[x]

\* The list holds the connections there are, each once.
Linked(w) ==
    /\ IsInjective(w.links)
    /\ \A x \in Conns : x \in Range(w.links) <=> w.con[x] \in Con

Good(w) ==
    /\ Core(w) /\ Linked(w)
    /\ \A x \in Conns : Upto(w, x) /\ (x \in Range(w.links) => Covered(w, x))

\* What stands for none is no connection.
LEMMA NoConIs == NoCon \notin Con
<1>1. "user" \notin DOMAIN NoCon
  BY DEF NoCon
<1>2. \A c \in Con : "user" \in DOMAIN c
  BY DEF Con
<1> QED BY <1>1, <1>2

\* delCon()
LEMMA DelConIs ==
    ASSUME NEW w, Core(w), Linked(w), NEW p \in Conns, p \in Range(w.links)
    PROVE  LET v == delCon(w, p) IN
           /\ Core(v) /\ Linked(v) /\ Range(v.links) = Range(w.links) \ {p}
           /\ v.read = w.read /\ v.done = w.done /\ v.cut = w.cut
           /\ \A x \in Conns \ {p} : v.con[x] = w.con[x]
<1> DEFINE v == delCon(w, p)
           L == w.links
<1>1. w \in Worlds /\ L \in Seq(Conns) /\ IsInjective(L) /\ w.con \in [Conns -> {NoCon} \cup Con]
  BY DEF Core, Linked, Worlds
<1>2. RemoveFirst(L, p) \in Seq(Conns) /\ IsInjective(RemoveFirst(L, p)) /\ Range(RemoveFirst(L, p)) = Range(L) \ {p}
  <2> DEFINE I == {i \in 1 .. Len(L) : L[i] = p}
  <2>1. DOMAIN L = 1 .. Len(L) /\ Len(L) \in Nat
    BY <1>1
  <2>2. \E i \in 1 .. Len(L) : L[i] = p
    BY <2>1 DEF Range
  <2>3. I # {} /\ I \in SUBSET (1 .. Len(L))
    BY <2>2
  <2>4. Min(I) \in I
    <3> HIDE DEF I
    <3> QED BY <2>1, <2>3, FirstIs
  <2>5. RemoveFirst(L, p) = RemoveAt(L, Min(I))
    BY <2>2, <2>3 DEF RemoveFirst, SelectInSeq
  <2>6. Min(I) \in DOMAIN L /\ L[Min(I)] = p
    BY <2>1, <2>4
  <2> HIDE DEF I, L
  <2>7. RemoveAt(L, Min(I)) \in Seq(Conns) /\ IsInjective(RemoveAt(L, Min(I)))
        /\ ToSet(RemoveAt(L, Min(I))) = ToSet(L) \ {p}
    BY <1>1, <2>6, Removed
  <2> QED BY <2>5, <2>7 DEF ToSet, Range
<1>3. v = [w EXCEPT !.con = [w.con EXCEPT ![p] = NoCon], !.links = RemoveFirst(L, p)]
  BY <1>1 DEF delCon, Worlds
<1> HIDE DEF v, L
<1>4. [w.con EXCEPT ![p] = NoCon] \in [Conns -> {NoCon} \cup Con]
  BY <1>1
<1>5. v \in Worlds
  BY <1>1, <1>2, <1>3, <1>4 DEF Worlds
<1>6. /\ v.con = [w.con EXCEPT ![p] = NoCon] /\ v.links = RemoveFirst(L, p) /\ v.read = w.read /\ v.done = w.done
      /\ v.cut = w.cut /\ v.reg = w.reg /\ v.live = w.live /\ v.stale = w.stale
  BY <1>1, <1>3 DEF Worlds
<1>7. v.con[p] \notin Con /\ \A x \in Conns \ {p} : v.con[x] = w.con[x]
  BY <1>1, <1>6, NoConIs
<1>8. Core(v)
  BY <1>5, <1>6, <1>7 DEF Core, Spent
<1>9. Linked(v)
  BY <1>2, <1>6, <1>7 DEF Linked, L
<1> QED BY <1>2, <1>6, <1>7, <1>8, <1>9 DEF v, L

\* The greeting changes what no property is about.
LEMMA GreetIs ==
    ASSUME NEW w, Core(w), NEW p \in Conns, w.con[p] \in Con, NEW r, r.broken \in BOOLEAN
    PROVE  LET v == Greet(w, p, r) IN
           /\ Core(v) /\ v.con[p] \in Con /\ v.links = w.links
           /\ v.read = w.read /\ v.done = w.done /\ v.cut = w.cut
           /\ \A x \in Conns \ {p} : v.con[x] = w.con[x]
<1>1. w \in Worlds
  BY DEF Core
<1>2. CASE w.con[p].greeted
  BY <1>1, <1>2 DEF Greet
<1>3. CASE ~w.con[p].greeted
  <2> DEFINE v == [w EXCEPT !.con[p].greeted = TRUE, !.con[p].open = ~r.broken]
             d == [w.con[p] EXCEPT !.greeted = TRUE, !.open = ~r.broken]
  <2>1. Greet(w, p, r) = v
    BY <1>3 DEF Greet
  <2>2. v.con = [w.con EXCEPT ![p] = d]
    BY <1>1 DEF Worlds
  <2>3. d \in Con /\ v \in Worlds
    <3>1. (~r.broken) \in BOOLEAN
      OBVIOUS
    <3> QED BY <1>1, <3>1 DEF Worlds, Con
  <2>4. d.user = w.con[p].user /\ d.gpriv = w.con[p].gpriv /\ d.opriv = w.con[p].opriv
    BY DEF Con
  <2>5. SameAccounts(v, w) /\ v.links = w.links /\ v.read = w.read /\ v.cut = w.cut /\ v.done = w.done
    BY <1>1 DEF Worlds, SameAccounts
  <2> HIDE DEF d, v
  <2>6. v.con[p] = d /\ \A x \in Conns \ {p} : v.con[x] = w.con[x]
    BY <1>1, <2>2 DEF Worlds
  <2>7. SessionOk(said[p], v.done[p], v.con[p])
    BY <2>4, <2>5, <2>6 DEF Core, SessionOk
  <2>8. Core(v)
    BY <2>3, <2>5, <2>6, <2>7 DEF Core, Spent, SameAccounts
  <2> QED BY <2>1, <2>3, <2>5, <2>6, <2>8
<1> QED BY <1>2, <1>3

\* pollAndHandle() for one connection, which was not served in this turn.
LEMMA ServeIs ==
    ASSUME NEW w, Good(w), NEW p \in Conns, w.con[p] \in Con, w.read[p] = read[p], Said,
           NEW r, Legal(p, r)
    PROVE  LET v == Serve(w, p, r) IN
           /\ Good(v) /\ Range(v.links) \subseteq Range(w.links)
           /\ \A x \in Conns \ {p} : v.con[x] = w.con[x] /\ v.read[x] = w.read[x]
<1> DEFINE h == Handled(w, p, r)
           a == [h EXCEPT !.read[p] = @ + r.halves, !.cut[p] = @ \cup Split(p, r)]
           e == [w EXCEPT !.read[p] = @ + r.halves]
<1>1. /\ Core(w) /\ Linked(w) /\ w \in Worlds /\ p \in Range(w.links)
      /\ \A x \in Conns : Upto(w, x) /\ (x \in Range(w.links) => Covered(w, x))
  BY DEF Good, Core, Linked
<1>2. /\ DOMAIN said[p] = 1 .. Len(said[p]) /\ Len(said[p]) \in Nat
      /\ \A i \in Whole(p, r) : i \in DOMAIN said[p] /\ read[p] < 2 * i - 1 /\ 2 * i <= read[p] + r.halves
      /\ \A i \in DOMAIN said[p] :
            read[p] < 2 * i /\ 2 * i <= read[p] + r.halves => i \in Whole(p, r) \cup Split(p, r)
      /\ Split(p, r) \subseteq DOMAIN said[p]
  BY WholeIs
<1>3. read[p] \in Nat /\ r.halves \in Nat /\ r.eof \in BOOLEAN /\ r.broken \in BOOLEAN
      /\ read[p] + r.halves <= 2 * Len(said[p])
  BY DEF Legal
<1>4. /\ Core(h) /\ h.con[p] \in Con /\ Maps(h, w, p)
      /\ Ordered(h.done[p]) /\ Ats(h.done[p]) = Ats(w.done[p]) \cup Whole(p, r)
  <2>1. Ordered(w.done[p]) /\ \A i \in Ats(w.done[p]) : 2 * i <= read[p]
    BY <1>1 DEF Upto
  <2> QED BY <1>1, <2>1, CommandsAre
<1> HIDE DEF h
\* what is read is counted
<1>5. ASSUME NEW u, Core(u)
      PROVE  LET v == [u EXCEPT !.read[p] = @ + r.halves] IN
             /\ Core(v) /\ v.con = u.con /\ v.links = u.links /\ v.done = u.done /\ v.cut = u.cut
             /\ v.read[p] = u.read[p] + r.halves /\ \A x \in Conns \ {p} : v.read[x] = u.read[x]
  <2> DEFINE v == [u EXCEPT !.read[p] = @ + r.halves]
  <2>1. u \in Worlds
    BY <1>5 DEF Core
  <2>2. u.read[p] + r.halves \in Nat
    BY <1>3, <2>1 DEF Worlds
  <2>3. v \in Worlds
    BY <2>1, <2>2 DEF Worlds
  <2>4. /\ v.con = u.con /\ v.links = u.links /\ v.done = u.done /\ v.cut = u.cut
        /\ v.reg = u.reg /\ v.live = u.live /\ v.stale = u.stale
        /\ v.read[p] = u.read[p] + r.halves /\ \A x \in Conns \ {p} : v.read[x] = u.read[x]
    BY <2>1 DEF Worlds
  <2> HIDE DEF v
  <2>5. Core(v)
    BY <1>5, <2>3, <2>4 DEF Core, Spent
  <2> QED BY <2>4, <2>5 DEF v
\* and so is what was cut
<1>6. /\ Core(a) /\ a.con = h.con /\ a.links = h.links /\ a.done = h.done /\ a.cut[p] = h.cut[p] \cup Split(p, r)
      /\ a.read[p] = h.read[p] + r.halves
      /\ \A x \in Conns \ {p} : a.read[x] = h.read[x] /\ a.cut[x] = h.cut[x]
  <2> DEFINE u == [h EXCEPT !.read[p] = @ + r.halves]
             v == [u EXCEPT !.cut[p] = @ \cup Split(p, r)]
  <2>1. /\ Core(u) /\ u.con = h.con /\ u.links = h.links /\ u.done = h.done /\ u.cut = h.cut
        /\ u.read[p] = h.read[p] + r.halves /\ \A x \in Conns \ {p} : u.read[x] = h.read[x]
    BY <1>4, <1>5
  <2>2. a = v
    <3>1. h \in Worlds
      BY <1>4 DEF Core
    <3> QED BY <3>1 DEF Worlds
  <2> HIDE DEF u
  <2>3. u \in Worlds
    BY <2>1 DEF Core
  <2>4. Split(p, r) \subseteq Nat
    BY <1>2
  <2>5. v \in Worlds
    BY <2>3, <2>4 DEF Worlds
  <2>6. /\ v.con = u.con /\ v.links = u.links /\ v.done = u.done /\ v.read = u.read
        /\ v.reg = u.reg /\ v.live = u.live /\ v.stale = u.stale
        /\ v.cut[p] = u.cut[p] \cup Split(p, r) /\ \A x \in Conns \ {p} : v.cut[x] = u.cut[x]
    BY <2>3 DEF Worlds
  <2> HIDE DEF v, a
  <2>7. Core(v)
    BY <2>1, <2>5, <2>6 DEF Core, Spent
  <2> QED BY <2>1, <2>2, <2>6, <2>7
<1> HIDE DEF a
<1>7. h.links = w.links /\ h.read = w.read /\ h.cut = w.cut
      /\ \A x \in Conns \ {p} : h.con[x] = w.con[x] /\ h.done[x] = w.done[x]
  BY <1>4 DEF Maps
<1>8. \A x \in Conns \ {p} : /\ a.con[x] = w.con[x] /\ a.done[x] = w.done[x] /\ a.read[x] = w.read[x]
                             /\ a.cut[x] = w.cut[x]
  BY <1>6, <1>7
<1>9. a.con[p] \in Con /\ a.links = w.links /\ a.read[p] = read[p] + r.halves
      /\ Ordered(a.done[p]) /\ Ats(a.done[p]) = Ats(w.done[p]) \cup Whole(p, r) /\ a.cut[p] = w.cut[p] \cup Split(p, r)
  BY <1>4, <1>6, <1>7
<1>10. \A x \in Ats(w.done[p]) : x \in Nat /\ 2 * x <= read[p]
  <2> SUFFICES ASSUME NEW x \in Ats(w.done[p]) PROVE x \in Nat /\ 2 * x <= read[p]
    OBVIOUS
  <2> DEFINE D == w.done[p]
  <2>1. PICK j \in 1 .. Len(D) : x = D[j].at
    BY DEF Ats
  <2>2. D \in Seq(Entry)
    BY <1>1 DEF Worlds
  <2> HIDE DEF D
  <2>3. D[j] \in Entry
    BY <2>1, <2>2
  <2> QED BY <1>1, <2>1, <2>3 DEF Entry, Upto
<1>11. Upto(a, p) /\ Covered(a, p)
  <2>1. \A x \in Ats(a.done[p]) : 2 * x <= a.read[p]
    <3> SUFFICES ASSUME NEW x \in Ats(a.done[p]) PROVE 2 * x <= read[p] + r.halves
      BY <1>9
    <3>1. CASE x \in Ats(w.done[p])
      <4>1. x \in Nat /\ 2 * x <= read[p]
        BY <1>10, <3>1
      <4> QED BY <1>3, <4>1
    <3>2. CASE x \in Whole(p, r)
      BY <1>2, <3>2
    <3> QED BY <1>9, <3>1, <3>2
  <2>2. Upto(a, p)
    BY <1>3, <1>9, <2>1 DEF Upto
  <2>3. ASSUME NEW i \in DOMAIN said[p], 2 * i <= a.read[p] PROVE i \in Ats(a.done[p]) \cup a.cut[p]
    <3>1. i \in Nat
      BY <1>2
    <3>2. CASE 2 * i <= read[p]
      <4>1. Covered(w, p)
        BY <1>1
      <4>2. i \in Ats(w.done[p]) \cup w.cut[p]
        BY <3>2, <4>1 DEF Covered
      <4> QED BY <1>9, <4>2
    <3>3. CASE ~(2 * i <= read[p])
      <4>1. read[p] < 2 * i
        BY <1>3, <3>1, <3>3
      <4>2. i \in Whole(p, r) \cup Split(p, r)
        BY <1>2, <1>9, <2>3, <4>1
      <4> QED BY <1>9, <4>2
    <3> QED BY <3>2, <3>3
  <2> QED BY <2>2, <2>3 DEF Covered
<1>12. Good(a)
  <2>1. ASSUME NEW x \in Conns PROVE Upto(a, x) /\ (x \in Range(a.links) => Covered(a, x))
    <3>1. CASE x = p
      BY <1>11, <3>1
    <3>2. CASE x # p
      <4>1. Upto(w, x) /\ (x \in Range(w.links) => Covered(w, x))
        BY <1>1
      <4> QED BY <1>8, <1>9, <3>2, <4>1 DEF Upto, Covered
    <3> QED BY <3>1, <3>2
  <2>2. Linked(a)
    <3>1. \A x \in Conns : a.con[x] \in Con <=> w.con[x] \in Con
      BY <1>8, <1>9
    <3> QED BY <1>1, <1>9, <3>1 DEF Linked
  <2> QED BY <1>6, <2>1, <2>2 DEF Good
\* a connection that is gone is not looked at any more
<1>13. ASSUME NEW u, Core(u), Linked(u), p \in Range(u.links), u.links = w.links,
              \A x \in Conns : Upto(u, x), \A x \in Conns \ {p} : x \in Range(u.links) => Covered(u, x),
              \A x \in Conns \ {p} : u.con[x] = w.con[x] /\ u.read[x] = w.read[x]
       PROVE  LET v == delCon(u, p) IN
              /\ Good(v) /\ Range(v.links) \subseteq Range(w.links)
              /\ \A x \in Conns \ {p} : v.con[x] = w.con[x] /\ v.read[x] = w.read[x]
  <2> DEFINE v == delCon(u, p)
  <2>1. /\ Core(v) /\ Linked(v) /\ Range(v.links) = Range(u.links) \ {p}
        /\ v.read = u.read /\ v.done = u.done /\ v.cut = u.cut
        /\ \A x \in Conns \ {p} : v.con[x] = u.con[x]
    BY <1>13, DelConIs
  <2> HIDE DEF v
  <2>2. \A x \in Conns : Upto(v, x)
    BY <1>13, <2>1 DEF Upto
  <2>3. \A x \in Conns : x \in Range(v.links) => Covered(v, x)
    BY <1>13, <2>1 DEF Covered
  <2>4. Good(v)
    BY <2>1, <2>2, <2>3 DEF Good
  <2> QED BY <1>13, <2>1, <2>4 DEF v
<1>14. CASE r.eof
  <2>1. Serve(w, p, r) = delCon(e, p)
    BY <1>14 DEF Serve
  <2>2. /\ Core(e) /\ e.con = w.con /\ e.links = w.links /\ e.done = w.done /\ e.cut = w.cut
        /\ e.read[p] = w.read[p] + r.halves /\ \A x \in Conns \ {p} : e.read[x] = w.read[x]
    BY <1>1, <1>5
  <2> HIDE DEF e
  <2>3. Linked(e)
    BY <1>1, <2>2 DEF Linked
  <2>4. ASSUME NEW x \in Conns PROVE Upto(e, x)
    <3>1. CASE x = p
      <4>1. ASSUME NEW i \in Ats(w.done[p]) PROVE 2 * i <= read[p] + r.halves
        BY <1>3, <1>10
      <4>2. Ordered(w.done[p])
        BY <1>1 DEF Upto
      <4> QED BY <1>3, <2>2, <3>1, <4>1, <4>2 DEF Upto
    <3>2. CASE x # p
      BY <1>1, <2>2, <3>2 DEF Upto
    <3> QED BY <3>1, <3>2
  <2>5. ASSUME NEW x \in Conns \ {p}, x \in Range(e.links) PROVE Covered(e, x)
    BY <1>1, <2>2, <2>5 DEF Covered
  <2> QED BY <1>1, <1>13, <2>1, <2>2, <2>3, <2>4, <2>5
<1>15. CASE ~r.eof /\ ~a.con[p].open
  <2>1. Serve(w, p, r) = delCon(a, p)
    BY <1>15 DEF Serve, a, h
  <2> QED BY <1>1, <1>8, <1>9, <1>12, <1>13, <2>1 DEF Good
<1>16. CASE ~r.eof /\ a.con[p].open
  <2> DEFINE v == Greet(a, p, r)
  <2>1. Serve(w, p, r) = v
    BY <1>16 DEF Serve, a, h
  <2>2. /\ Core(v) /\ v.con[p] \in Con /\ v.links = a.links
        /\ v.read = a.read /\ v.done = a.done /\ v.cut = a.cut
        /\ \A x \in Conns \ {p} : v.con[x] = a.con[x]
    BY <1>3, <1>6, <1>9, GreetIs
  <2> HIDE DEF v
  <2>3. Linked(v)
    <3>1. \A x \in Conns : v.con[x] \in Con <=> a.con[x] \in Con
      BY <1>9, <2>2
    <3> QED BY <1>12, <2>2, <3>1 DEF Linked, Good
  <2>4. \A x \in Conns : Upto(v, x) /\ (x \in Range(v.links) => Covered(v, x))
    BY <1>12, <2>2 DEF Upto, Covered, Good
  <2>5. Good(v)
    BY <2>2, <2>3, <2>4 DEF Good
  <2> QED BY <1>8, <1>9, <2>1, <2>2, <2>5
<1> QED BY <1>3, <1>14, <1>15, <1>16
-----------------------------------------------------------------------------
(***************************************************************************)
(* One turn of the loop.                                                   *)
(***************************************************************************)

\* addCon()
LEMMA AddConIs ==
    ASSUME NEW w, Good(w), NEW p \in Conns, p \notin Range(w.links), said[p] = <<>>
    PROVE  LET v == addCon(w, p) IN
           /\ Good(v) /\ Range(v.links) = Range(w.links) \cup {p} /\ v.read = w.read
           /\ \A x \in Conns \ {p} : v.con[x] = w.con[x]
<1> DEFINE v == addCon(w, p)
           L == w.links
<1>1. /\ Core(w) /\ Linked(w) /\ w \in Worlds /\ L \in Seq(Conns) /\ IsInjective(L) /\ w.con \in [Conns -> {NoCon} \cup Con]
      /\ \A x \in Conns : Upto(w, x) /\ (x \in Range(L) => Covered(w, x))
  BY DEF Good, Core, Linked, Worlds
<1> HIDE DEF L
<1>2. <<p>> \o L \in Seq(Conns) /\ IsInjective(<<p>> \o L) /\ Range(<<p>> \o L) = Range(L) \cup {p}
  <2>1. p \notin ToSet(L)
    BY DEF ToSet, Range, L
  <2>2. <<p>> \o L \in Seq(Conns) /\ IsInjective(<<p>> \o L) /\ ToSet(<<p>> \o L) = ToSet(L) \cup {p}
    BY <1>1, <2>1, AtHead
  <2> QED BY <2>2 DEF ToSet, Range
<1>3. NewCon \in Con
  BY DEF NewCon, Con
<1>4. v = [w EXCEPT !.con = [w.con EXCEPT ![p] = NewCon], !.links = <<p>> \o L]
  BY <1>1 DEF addCon, Worlds, L
<1> HIDE DEF v
<1>5. [w.con EXCEPT ![p] = NewCon] \in [Conns -> {NoCon} \cup Con]
  BY <1>1, <1>3
<1>6. v \in Worlds
  BY <1>1, <1>2, <1>4, <1>5 DEF Worlds
<1>7. /\ v.con = [w.con EXCEPT ![p] = NewCon] /\ v.links = <<p>> \o L /\ v.read = w.read /\ v.done = w.done
      /\ v.cut = w.cut /\ v.reg = w.reg /\ v.live = w.live /\ v.stale = w.stale
  BY <1>1, <1>4 DEF Worlds
<1>8. v.con[p] = NewCon /\ \A x \in Conns \ {p} : v.con[x] = w.con[x]
  BY <1>1, <1>7
<1>9. SessionOk(said[p], v.done[p], NewCon)
  BY DEF SessionOk, NewCon
<1>10. Core(v)
  BY <1>1, <1>6, <1>7, <1>8, <1>9 DEF Core, Spent
<1>11. Linked(v)
  BY <1>1, <1>2, <1>3, <1>7, <1>8 DEF Linked, L
<1>12. Covered(v, p)
  BY DEF Covered
<1>13. \A x \in Conns : Upto(v, x) /\ (x \in Range(v.links) => Covered(v, x))
  BY <1>1, <1>2, <1>7, <1>12 DEF Upto, Covered
<1> QED BY <1>2, <1>7, <1>8, <1>10, <1>11, <1>13 DEF Good, v, L

\* Nobody, or a client who was never here, wants in.
Coming(w, new) == new = {} \/ \E q \in Conns : new = {q} /\ q \notin Range(w.links) /\ said[q] = <<>>

\* A connection that has just been accepted waits for the next turn.
LEMMA PollIs ==
    ASSUME NEW w, Good(w), w.read = read, Said, NEW new, NEW p, NEW r, p \in Conns => Legal(p, r),
           Coming(w, new), NEW v, v = pollAndHandle(w, new, p, r)
    PROVE  /\ Good(v) /\ Range(v.links) \subseteq Range(w.links) \cup new
           /\ \A x \in Conns \ Range(w.links) : v.read[x] = w.read[x]
<1>0. ASSUME NEW u, Good(u), NEW x \in Conns, u.con[x] \in Con, u.read[x] = read[x], NEW s, Legal(x, s)
      PROVE  /\ Good(Serve(u, x, s)) /\ Range(Serve(u, x, s).links) \subseteq Range(u.links)
             /\ \A z \in Conns \ {x} : Serve(u, x, s).con[z] = u.con[z] /\ Serve(u, x, s).read[z] = u.read[z]
  BY <1>0, ServeIs
<1> DEFINE q == w.links
           S == DOMAIN q
           base == IF new = {} THEN w ELSE addCon(w, CHOOSE x \in new : TRUE)
           All == {u \in Worlds : Good(u)}
           step(u, i) == IF w.con[q[i]].open THEN Serve(u, q[i], IF q[i] = p THEN r ELSE NoRead) ELSE u
           pick == [T \in SUBSET S |-> Max(T)]
           F == [x \in S \X All |-> IF step(x[2], x[1]) \in All THEN step(x[2], x[1]) ELSE x[2]]
           Rest(T) == {x \in Conns : \A i \in T : x # q[i]}
           Fit(T, u) == /\ Range(u.links) \subseteq Range(q) \cup new
                        /\ \A x \in Rest(T) : /\ u.read[x] = w.read[x]
                                              /\ x \notin new => u.con[x] = w.con[x]
           W == [T \in SUBSET S |-> {u \in All : Fit(T, u)}]
<1>1. /\ w \in Worlds /\ q \in Seq(Conns) /\ IsInjective(q)
      /\ \A x \in Conns : (x \in Range(q) <=> w.con[x] \in Con) /\ Upto(w, x)
      /\ S = 1 .. Len(q) /\ Len(q) \in Nat /\ S \subseteq Nat
  BY DEF Good, Core, Linked, Worlds
<1>2. IsFiniteSet(S)
  BY <1>1, FS_Interval
<1>3. \A T \in SUBSET S : T # {} => Max(T) \in T /\ \A k \in T : k <= Max(T)
  <2> SUFFICES ASSUME NEW T \in SUBSET S, T # {} PROVE Max(T) \in T /\ \A k \in T : k <= Max(T)
    OBVIOUS
  <2>1. T \in SUBSET (1 .. Len(q))
    BY <1>1
  <2>2. \E m \in T : \A k \in T : m >= k
    BY <1>1, <2>1, NatMax
  <2>3. Max(T) \in T /\ \A k \in T : Max(T) >= k
    BY <2>2 DEF Max
  <2> QED BY <1>1, <2>3
<1>4. Picks(pick, S)
  BY <1>3 DEF Picks
<1>5. base \in All /\ Fit({}, base)
  <2>1. CASE new = {}
    BY <1>1, <2>1
  <2>2. CASE new # {}
    <3>1. PICK y \in Conns : new = {y} /\ y \notin Range(w.links) /\ said[y] = <<>>
      BY <2>2 DEF Coming
    <3>2. base = addCon(w, y)
      BY <3>1
    <3> DEFINE a == addCon(w, y)
    <3>3. /\ Good(a) /\ Range(a.links) = Range(w.links) \cup {y} /\ a.read = w.read
          /\ \A x \in Conns \ {y} : a.con[x] = w.con[x]
      BY <3>1, AddConIs
    <3> HIDE DEF base, a
    <3>4. a \in Worlds
      BY <3>3 DEF Good, Core
    <3> QED BY <3>1, <3>2, <3>3, <3>4 DEF a
  <2> QED BY <2>1, <2>2
<1> HIDE DEF base
<1>6. ASSUME NEW T \in SUBSET S, T # {}, NEW u \in W[T \ {pick[T]}]
      PROVE  step(u, pick[T]) \in W[T]
  <2> DEFINE k == pick[T]
             x == q[k]
             U == T \ {k}
             s == IF x = p THEN r ELSE NoRead
  <2>1. k \in T /\ k \in S /\ x \in Conns /\ x \in Range(q) /\ U \in SUBSET S /\ T = U \cup {k} /\ k \notin U
    <3>1. k \in T
      BY <1>3, <1>6
    <3> HIDE DEF pick
    <3> QED BY <1>1, <3>1 DEF Range
  <2> HIDE DEF k
  <2>2. u \in Worlds /\ Good(u) /\ Fit(U, u)
    <3> HIDE DEF Fit
    <3> QED BY <2>1 DEF k
  <2>3. x \in Rest(U)
    <3>1. \A i \in U : q[i] # q[k]
      BY <1>1, <2>1 DEF IsInjective
    <3> QED BY <2>1, <3>1
  <2>4. \A y \in Rest(T) : y \in Rest(U) /\ y # x
    BY <2>1
  <2>5. CASE ~w.con[x].open
    <3>1. step(u, k) = u
      BY <2>5
    <3>2. Fit(T, u)
      <4> HIDE DEF Rest
      <4> QED BY <2>2, <2>4
    <3> HIDE DEF Fit, step
    <3> QED BY <2>2, <3>1, <3>2 DEF k
  <2>6. CASE w.con[x].open
    <3>1. step(u, k) = Serve(u, x, s)
      BY <2>6
    <3>2. x \notin new
      BY <2>1 DEF Coming
    <3>3. u.read[x] = read[x] /\ u.con[x] = w.con[x] /\ w.con[x] \in Con
      <4> HIDE DEF Rest
      <4> QED BY <1>1, <2>1, <2>2, <2>3, <3>2
    <3>4. Legal(x, s)
      <4>1. CASE x = p
        <5>1. s = r /\ p \in Conns
          BY <2>1, <4>1
        <5> HIDE DEF s, x
        <5> QED BY <4>1, <5>1
      <4>2. CASE x # p
        <5>1. read[x] \in Nat /\ read[x] <= 2 * Len(said[x])
          BY <1>1, <2>1 DEF Upto, Worlds
        <5>2. s = NoRead
          BY <4>2
        <5> HIDE DEF s
        <5> QED BY <5>1, <5>2 DEF Legal, NoRead
      <4> QED BY <4>1, <4>2
    <3> DEFINE y == Serve(u, x, s)
    <3>5. /\ Good(y) /\ Range(y.links) \subseteq Range(u.links)
          /\ \A z \in Conns \ {x} : y.con[z] = u.con[z] /\ y.read[z] = u.read[z]
      <4>1. x \in Conns /\ Good(u) /\ u.con[x] \in Con /\ u.read[x] = read[x]
        BY <2>1, <2>2, <3>3
      <4> HIDE DEF x, s, W, All, S, q, base, step, pick, F, Rest, Fit
      <4>2. /\ Good(Serve(u, x, s)) /\ Range(Serve(u, x, s).links) \subseteq Range(u.links)
            /\ \A z \in Conns \ {x} : Serve(u, x, s).con[z] = u.con[z] /\ Serve(u, x, s).read[z] = u.read[z]
        BY ONLY <3>4, <4>1, <1>0, SMTT(60)
      <4> QED BY <4>2
    <3> HIDE DEF y, s
    <3>6. Fit(T, y)
      <4>1. \A z \in Rest(T) : z \in Conns
        OBVIOUS
      <4> HIDE DEF Rest
      <4> QED BY <2>2, <2>4, <3>5, <4>1
    <3>7. y \in Worlds
      BY <3>5 DEF Good, Core
    <3> HIDE DEF Fit, step
    <3> QED BY <3>1, <3>5, <3>6, <3>7 DEF k, y
  <2> QED BY <2>5, <2>6
<1>7. \A T \in SUBSET S : \A u \in W[T] : u \in All
  OBVIOUS
<1>8. base \in W[{}]
  <2> HIDE DEF Fit, All
  <2> QED BY <1>5
<1> HIDE DEF step, W
<1>9. F \in [S \X All -> All]
  <2> HIDE DEF All
  <2> QED OBVIOUS
<1> HIDE DEF All
<1>10. PICK g \in [SUBSET S -> All] : Folds(g, S, pick, base, F)
  <2> HIDE DEF pick, F
  <2> QED BY <1>2, <1>4, <1>5, <1>9, FoldExists
\* the steps stay in All, so g is the fold of the code
<1>11. \A T \in SUBSET S : g[T] \in W[T] /\ (T # {} => g[T] = step(g[T \ {pick[T]}], pick[T]))
  <2> DEFINE P == [T \in SUBSET S |-> g[T] \in W[T] /\ (T # {} => g[T] = step(g[T \ {pick[T]}], pick[T]))]
  <2>1. P[{}]
    BY <1>8, <1>10 DEF Folds
  <2>2. ASSUME NEW T \in SUBSET S, T # {}, P[T \ {pick[T]}] PROVE P[T]
    <3> DEFINE k == pick[T]
               u == g[T \ {k}]
    <3>1. k \in S /\ T \ {k} \in SUBSET S /\ u \in All
      BY <1>4, <1>10, <2>2 DEF Picks
    <3>2. u \in W[T \ {k}]
      <4> HIDE DEF pick
      <4> QED BY <2>2, <3>1
    <3>3. step(u, k) \in W[T]
      <4> HIDE DEF pick
      <4> QED BY <1>6, <2>2, <3>2
    <3>4. g[T] = F[<<k, u>>]
      <4> HIDE DEF F, pick
      <4> QED BY <1>10, <2>2 DEF Folds
    <3> HIDE DEF pick, k, u
    <3>5. g[T] = step(u, k)
      BY <1>7, <3>1, <3>3, <3>4
    <3> HIDE DEF F
    <3> QED BY <2>2, <3>3, <3>5 DEF k, u
  <2>3. \A T \in SUBSET S : P[T]
    <3> HIDE DEF P, pick
    <3> QED BY <1>2, <1>4, <2>1, <2>2, SubsetInduction
  <2> QED BY <2>3
<1>12. g = [T \in SUBSET S |-> IF T = {} THEN base ELSE step(g[T \ {Max(T)}], Max(T))]
  <2>1. \A T \in SUBSET S : pick[T] = Max(T)
    OBVIOUS
  <2> HIDE DEF pick, F
  <2> QED BY <1>10, <1>11, <2>1 DEF Folds
<1>13. PICK h : /\ h = [T \in SUBSET S |-> IF T = {} THEN base ELSE step(h[T \ {Max(T)}], Max(T))]
                /\ v = h[S]
  <2>1. v = FoldLeft(LAMBDA u, x : IF w.con[x].open THEN Serve(u, x, IF x = p THEN r ELSE NoRead) ELSE u, base, q)
    BY DEF pollAndHandle, base
  <2> QED BY <1>12, <2>1 DEF FoldLeft, MapThenFoldSet, step
<1>14. h[{}] \in W[{}]
  BY <1>8, <1>13
<1>15. ASSUME NEW T \in SUBSET S, T # {}, h[T \ {pick[T]}] \in W[T \ {pick[T]}]
       PROVE  h[T] \in W[T]
  <2>1. pick[T] = Max(T)
    OBVIOUS
  <2>2. h[T] = step(h[T \ {pick[T]}], pick[T])
    BY <1>13, <1>15, <2>1
  <2> HIDE DEF pick
  <2> QED BY <1>6, <1>15, <2>2
<1>16. h[S] \in W[S]
  <2> HIDE DEF pick
  <2> QED BY <1>2, <1>4, <1>14, <1>15, FoldInduct
<1>17. v \in All /\ Fit(S, v)
  <2> HIDE DEF Fit
  <2> QED BY <1>13, <1>16 DEF W
<1>18. \A x \in Conns \ Range(q) : x \in Rest(S)
  BY DEF Range
<1> QED BY <1>17, <1>18 DEF All
-----------------------------------------------------------------------------
(***************************************************************************)
(* The inductive invariant.                                                *)
(***************************************************************************)

\* Only the last key sent for a name is good, and no other was taken.
Keys == ~stale /\ \A o \in Names \ live : reg[o] = NoReg \/ reg[o].chpw_key = 0

\* What each session has, and what was granted, was proved.
Proven ==
    \A p \in Conns : /\ DoneOk(said[p], done[p])
                     /\ con[p] \in Con => SessionOk(said[p], done[p], con[p])

\* links holds the connections there are, each once.
Lists == IsInjective(links) /\ \A p \in Conns : p \in Range(links) <=> con[p] \in Con

\* What is done was read before, in the order it was sent.
Orders ==
    \A p \in Conns : /\ Ordered(done[p]) /\ \A a \in Ats(done[p]) : 2 * a <= read[p]
                     /\ read[p] <= 2 * Len(said[p])

\* Nothing that was read is forgotten while there is the connection.
NoneMissed ==
    \A p \in Range(links) : \A i \in DOMAIN said[p] : 2 * i <= read[p] => i \in Ats(done[p]) \cup cut[p]

\* Who did not connect yet sent nothing.
Fresh == \A p \in left.conns : p \notin Range(links) /\ read[p] = 0 /\ said[p] = <<>>

IInv == TypeOK /\ Keys /\ Proven /\ Lists /\ Orders /\ NoneMissed /\ Fresh

\* The world of now.
LEMMA WorldIs ==
    /\ World.con = con /\ World.links = links /\ World.reg = reg /\ World.cookies = cookies
    /\ World.read = read /\ World.live = live /\ World.stale = stale /\ World.done = done /\ World.cut = cut
BY DEF World

\* The invariant says of the variables what Good() says of the world.
LEMMA WorldGood ==
    ASSUME IInv
    PROVE  Good(World) /\ Said
<1>1. TypeOK /\ Keys /\ Proven /\ Lists /\ Orders /\ NoneMissed
  BY DEF IInv
<1>2. World \in Worlds
  BY <1>1 DEF TypeOK, World, Worlds
<1>3. Core(World)
  BY <1>1, <1>2, WorldIs DEF Core, Keys, Proven, Spent
<1>4. Linked(World)
  BY <1>1, WorldIs DEF Lists, Linked
<1>5. \A x \in Conns : Upto(World, x) /\ (x \in Range(World.links) => Covered(World, x))
  BY <1>1, WorldIs DEF Orders, NoneMissed, Upto, Covered
<1>6. Said
  <2>1. left.focus \in Focuses
    BY <1>1 DEF TypeOK
  <2>2. left.focus.freed \in Names \cup {""}
    BY <2>1, IpcAssumption DEF Names
  <2> QED BY <1>1, <2>2 DEF Said, Freed, TypeOK
<1> QED BY <1>3, <1>4, <1>5, <1>6 DEF Good

\* What a turn may read is legal.
LEMMA ReadsIs ==
    ASSUME IInv, NEW p \in Conns, NEW r \in Reads(p) \cup {NoRead}
    PROVE  Legal(p, r)
<1>1. read[p] \in Nat /\ said[p] \in Seq(Command) /\ read[p] <= 2 * Len(said[p])
  BY DEF IInv, TypeOK, Orders
<1>2. Len(said[p]) \in Nat
  BY <1>1
<1> DEFINE rest == 2 * Len(said[p]) - read[p]
<1>3. rest \in Nat /\ read[p] + rest = 2 * Len(said[p])
  BY <1>1, <1>2
<1>4. CASE r = NoRead
  BY <1>1, <1>2, <1>4 DEF NoRead, Legal
<1>5. CASE \E h \in 1 .. rest : \E s \in 0 .. h - 1 : r = [NoRead EXCEPT !.halves = h, !.seam = s]
  <2>0. PICK h \in 1 .. rest : \E s \in 0 .. h - 1 : r = [NoRead EXCEPT !.halves = h, !.seam = s]
    BY <1>5
  <2>1. PICK s \in 0 .. h - 1 : r = [NoRead EXCEPT !.halves = h, !.seam = s]
    BY <2>0
  <2>2. h \in Nat /\ s \in Nat /\ read[p] + h <= 2 * Len(said[p])
    BY <1>1, <1>2, <1>3, <2>1
  <2>3. r.halves = h /\ r.seam = s /\ r.eof = FALSE /\ r.broken = FALSE
    BY <2>1 DEF NoRead
  <2> QED BY <1>1, <2>2, <2>3 DEF Legal
<1>6. CASE r = End(p)
  <2>1. r.halves = rest /\ r.seam = 0 /\ r.eof = TRUE /\ r.broken = FALSE
    BY <1>6 DEF End, NoRead
  <2> HIDE DEF rest
  <2>2. read[p] + r.halves = 2 * Len(said[p]) /\ r.halves \in Nat /\ r.seam \in Nat
    BY <1>3, <2>1
  <2>3. read[p] + r.halves <= 2 * Len(said[p])
    BY <1>2, <2>2
  <2>4. r.eof \in BOOLEAN /\ r.broken \in BOOLEAN
    BY <2>1
  <2> QED BY <1>1, <2>2, <2>3, <2>4 DEF Legal
<1>7. CASE r = [NoRead EXCEPT !.broken = TRUE]
  BY <1>1, <1>2, <1>7 DEF NoRead, Legal
<1>8. \/ r = NoRead \/ r = End(p) \/ r = [NoRead EXCEPT !.broken = TRUE]
      \/ \E h \in 1 .. rest : \E s \in 0 .. h - 1 : r = [NoRead EXCEPT !.halves = h, !.seam = s]
  <2> SUFFICES ASSUME r \in Reads(p), r # End(p), r # [NoRead EXCEPT !.broken = TRUE]
               PROVE  \E h \in 1 .. rest : \E s \in 0 .. h - 1 : r = [NoRead EXCEPT !.halves = h, !.seam = s]
    OBVIOUS
  <2> DEFINE some == {h \in 1 .. rest : "cut" \in left.focus.ways \/ h % 2 = 0}
             seams(h) == IF "cut" \in left.focus.ways THEN 0 .. h - 1 ELSE {0}
             reads(h) == {[NoRead EXCEPT !.halves = h, !.seam = s] : s \in seams(h)}
  <2>1. r \in UNION {reads(h) : h \in some}
    <3> DEFINE A == UNION {reads(h) : h \in some}
               e == End(p)
               b == [NoRead EXCEPT !.broken = TRUE]
    <3>1. Reads(p) = A \cup (IF gone[p] THEN {e} ELSE {}) \cup (IF gone[p] /\ ~con[p].greeted THEN {b} ELSE {})
      BY DEF Reads
    <3>2. r # e /\ r # b /\ r \in Reads(p)
      OBVIOUS
    <3> HIDE DEF A, e, b
    <3>3. r \in A
      BY <3>1, <3>2
    <3> QED BY <3>3 DEF A
  <2>2. PICK h \in some : r \in reads(h)
    <3> HIDE DEF some, reads
    <3> QED BY <2>1
  <2>3. PICK s \in seams(h) : r = [NoRead EXCEPT !.halves = h, !.seam = s]
    BY <2>2
  <2>4. h \in 1 .. rest
    BY <2>2
  <2>5. s \in 0 .. h - 1
    <3>1. s = 0 \/ s \in 0 .. h - 1
      BY <2>3
    <3> HIDE DEF rest
    <3> QED BY <1>3, <2>4, <3>1
  <2> QED BY <2>3, <2>4, <2>5
<1> QED BY <1>4, <1>5, <1>6, <1>7, <1>8

\* A turn of main()
LEMMA TurnHolds ==
    ASSUME IInv, NEW n, NEW new \in Wanting, NEW wake \in Wakes, Turn(n, new, wake.p, wake.r)
    PROVE  IInv'
<1> DEFINE v == pollAndHandle(World, new, wake.p, wake.r)
<1>1. TypeOK /\ Good(World) /\ Said /\ Fresh
  BY WorldGood DEF IInv
<1>2. wake.p \in Conns => Legal(wake.p, wake.r)
  <2>1. CASE wake.r = NoRead
    BY <2>1, ReadsIs
  <2>2. CASE wake.r # NoRead
    <3>1. wake.p \in Conns /\ wake.r \in Reads(wake.p)
      BY <2>2 DEF Wakes
    <3> QED BY <3>1, ReadsIs
  <2> QED BY <2>1, <2>2
<1>3. new \subseteq left.conns /\ left.conns \subseteq Conns /\ Coming(World, new)
  <2>1. left.conns \subseteq Conns
    BY <1>1 DEF TypeOK
  <2>2. CASE new = {}
    BY <2>1, <2>2 DEF Coming
  <2>3. CASE new # {}
    <3>1. PICK q \in left.conns : new = {q}
      BY <2>3 DEF Wanting
    <3>2. q \in Conns /\ q \notin Range(World.links) /\ said[q] = <<>>
      BY <1>1, <2>1, <3>1, WorldIs DEF Fresh
    <3> QED BY <2>1, <3>1, <3>2 DEF Coming
  <2> QED BY <2>2, <2>3
<1>4. /\ Good(v) /\ Range(v.links) \subseteq Range(links) \cup new
      /\ \A x \in Conns \ Range(links) : v.read[x] = read[x]
  <2> DEFINE w == World
  <2>1. Good(w) /\ w.read = read /\ w.links = links /\ Coming(w, new)
    BY <1>1, <1>3, WorldIs
  <2>2. v = pollAndHandle(w, new, wake.p, wake.r)
    OBVIOUS
  <2> HIDE DEF w, v
  <2>3. /\ Good(v) /\ Range(v.links) \subseteq Range(w.links) \cup new
        /\ \A x \in Conns \ Range(w.links) : v.read[x] = w.read[x]
    BY <1>1, <1>2, <2>1, <2>2, PollIs
  <2> QED BY <2>1, <2>3
<1>5. /\ con' = v.con /\ links' = v.links /\ reg' = v.reg /\ cookies' = v.cookies /\ read' = v.read
      /\ live' = v.live /\ stale' = v.stale /\ done' = v.done /\ cut' = v.cut
      /\ left' = [left EXCEPT !.conns = @ \ new] /\ said' = said /\ gone' = gone /\ mail' = mail
  BY DEF Turn, Becomes
<1> HIDE DEF v
<1>6. v \in Worlds /\ Core(v) /\ Linked(v) /\ \A x \in Conns : Upto(v, x) /\ (x \in Range(v.links) => Covered(v, x))
  BY <1>4 DEF Good, Core
<1>7. TypeOK'
  BY <1>1, <1>5, <1>6 DEF TypeOK, Worlds
<1>8. Keys' /\ Proven'
  BY <1>5, <1>6 DEF Core, Spent, Keys, Proven
<1>9. Lists'
  BY <1>5, <1>6 DEF Lists, Linked
<1>10. Orders'
  BY <1>5, <1>6 DEF Orders, Upto
<1>11. NoneMissed'
  <2>1. Range(v.links) \subseteq Conns
    BY <1>6 DEF Worlds, Range
  <2> QED BY <1>5, <1>6, <2>1 DEF NoneMissed, Covered
<1>12. Fresh'
  <2> SUFFICES ASSUME NEW p \in left'.conns PROVE p \notin Range(links') /\ read'[p] = 0 /\ said'[p] = <<>>
    BY DEF Fresh
  <2>1. p \in left.conns /\ p \notin new
    BY <1>1, <1>5 DEF TypeOK
  <2>2. p \in Conns /\ p \notin Range(links) /\ read[p] = 0 /\ said[p] = <<>>
    BY <1>1, <1>3, <2>1 DEF Fresh
  <2> QED BY <1>4, <1>5, <2>1, <2>2
<1> QED BY <1>7, <1>8, <1>9, <1>10, <1>11, <1>12 DEF IInv
-----------------------------------------------------------------------------
(***************************************************************************)
(* The other steps.                                                        *)
(***************************************************************************)

\* What is proved stays proved when more is said.
LEMMA MoreSaid ==
    ASSUME NEW S \in Seq(Command), NEW m \in Command, NEW D, DoneOk(S, D), Len(D) \in Nat
    PROVE  /\ DoneOk(Append(S, m), D)
           /\ \A c : SessionOk(S, D, c) => SessionOk(Append(S, m), D, c)
<1> DEFINE T == Append(S, m)
           n == Len(D)
<1>1. \A a \in DOMAIN S : a \in DOMAIN T /\ T[a] = S[a]
  OBVIOUS
<1> HIDE DEF T, n
<1>2. \A k \in 1 .. n : D[k].at \in DOMAIN S /\ D[k].at \in DOMAIN T /\ T[D[k].at] = S[D[k].at]
  BY <1>1 DEF DoneOk, n
<1>3. ASSUME NEW l \in Nat, l <= n
      PROVE  /\ \A user : Known(S, D, l, user) => Known(T, D, l, user)
             /\ \A rights : Entitled(S, D, l, rights) => Entitled(T, D, l, rights)
             /\ Keyed(S, D, l) => Keyed(T, D, l)
  <2>1. \A k \in 1 .. l : T[D[k].at] = S[D[k].at]
    <3>1. \A k \in 1 .. l : k \in 1 .. n
      BY <1>3 DEF n
    <3> QED BY <1>2, <3>1
  <2> QED BY <2>1, PastStays
<1>4. ASSUME NEW i \in 1 .. n PROVE D[i].at \in DOMAIN T /\ Justified(T, D, i)
  <2>1. Justified(S, D, i) /\ Cmd(T, D, i) = Cmd(S, D, i)
    BY <1>2 DEF DoneOk, Cmd, n
  <2>2. i - 1 \in Nat /\ i - 1 <= n
    BY DEF n
  <2>3. /\ \A rights : Entitled(S, D, i - 1, rights) => Entitled(T, D, i - 1, rights)
        /\ Keyed(S, D, i - 1) => Keyed(T, D, i - 1)
    BY <1>3, <2>2
  <2> QED BY <1>2, <2>1, <2>3 DEF Justified
<1>5. DoneOk(T, D)
  BY <1>4 DEF DoneOk, n
<1>6. n \in Nat /\ n <= n
  BY DEF n
<1>7. \A c : SessionOk(S, D, c) => SessionOk(T, D, c)
  BY <1>3, <1>6 DEF SessionOk, n
<1> QED BY <1>5, <1>7 DEF T

\* The commands a client may send are commands.
LEMMA CommandsAreTyped ==
    ASSUME IInv, NEW p \in Conns, con[p] \in Con, NEW c \in Commands(p)
    PROVE  c \in Command
<1>1. TypeOK /\ left.focus \in Focuses
  BY DEF IInv, TypeOK
<1>2. left.focus.names \subseteq Names /\ left.focus.users \subseteq Users /\ left.focus.fields \subseteq Fields
  BY <1>1, IpcAssumption DEF Names, Users, Fields
<1>3. \A pass : Answer(con[p].cookie, pass) = <<con[p].cookie, pass>>
  BY DEF Answer
<1>4. con[p].cookie \in Nat
  BY DEF Con
<1>5. \A o \in Names : reg[o].pass \in Passwords /\ mail[o] \in Key
  <2>1. \A x \in Reg : x.pass \in Passwords
    BY DEF Reg
  <2>2. NoReg.pass \in Passwords
    BY DEF NoReg, Passwords
  <2>3. reg \in [Names -> {NoReg} \cup Reg] /\ mail \in [Names -> Key]
    BY <1>1 DEF TypeOK
  <2> QED BY <2>1, <2>2, <2>3
<1> DEFINE f == left.focus
           answers == {Answer(con[p].cookie, pass) : pass \in {SysPassword, "wrong"}}
           objAnswers == {Answer(con[p].cookie, reg[o].pass) : o \in f.names}
<1>6. answers \subseteq Nat \X (Passwords \cup {SysPassword, "wrong"})
  BY <1>3, <1>4
<1>7. objAnswers \subseteq Nat \X (Passwords \cup {SysPassword, "wrong"})
  BY <1>2, <1>3, <1>4, <1>5
<1>8. {mail[o] : o \in f.names} \subseteq Key
  BY <1>2, <1>5
<1>9. c \in [kind : {"SYSTEM LOGIN"}, user : f.users] \cup
            [kind : {"SYSTEM PASS"}, answer : answers] \cup
            [kind : {"OBJECT LOGIN"}, name : f.names] \cup
            [kind : {"OBJECT PASS"}, answer : objAnswers] \cup
            [kind : {"CHPASSKEY"}, key : {mail[o] : o \in f.names}] \cup
            [kind : {"QUERY", "ALTER"}, name : f.names, field : f.fields] \cup
            [kind : {"MAKE"}, name : f.names, force : BOOLEAN] \cup
            [kind : {"QUIT", "HELP", "LOG", "QUERY AKILL"}]
  BY DEF Commands
<1> DEFINE keys == {mail[o] : o \in f.names}
<1> HIDE DEF answers, objAnswers, keys, f
<1>10. [kind : {"SYSTEM LOGIN"}, user : f.users] \subseteq Command
  BY <1>2 DEF Command, f
<1>11. [kind : {"SYSTEM PASS"}, answer : answers] \subseteq Command
  BY <1>6 DEF Command
<1>12. [kind : {"OBJECT LOGIN"}, name : f.names] \subseteq Command
  BY <1>2 DEF Command, f
<1>13. [kind : {"OBJECT PASS"}, answer : objAnswers] \subseteq Command
  BY <1>7 DEF Command
<1>14. [kind : {"CHPASSKEY"}, key : keys] \subseteq Command
  BY <1>8 DEF Command, keys
<1>15. [kind : {"QUERY", "ALTER"}, name : f.names, field : f.fields] \subseteq Command
  BY <1>2 DEF Command, f
<1>16. [kind : {"MAKE"}, name : f.names, force : BOOLEAN] \subseteq Command
  BY <1>2 DEF Command, f
<1>17. [kind : {"QUIT", "HELP", "LOG", "QUERY AKILL"}] \subseteq Command
  BY DEF Command
<1> HIDE DEF answers, objAnswers
<1> QED BY <1>9, <1>10, <1>11, <1>12, <1>13, <1>14, <1>15, <1>16, <1>17 DEF keys

\* A client sends one more command.
LEMMA SayHolds ==
    ASSUME IInv, NEW p \in Conns, Say(p)
    PROVE  IInv'
<1>1. TypeOK /\ Keys /\ Proven /\ Lists /\ Orders /\ NoneMissed /\ Fresh
  BY DEF IInv
<1>2. p \in Range(links) /\ con[p] \in Con
  BY <1>1 DEF Say, Lists
<1>3. PICK c \in Commands(p) : said' = [said EXCEPT ![p] = Append(@, c)]
  BY DEF Say
<1>4. c \in Command
  BY <1>2, CommandsAreTyped
<1>5. said \in [Conns -> Seq(Command)] /\ done \in [Conns -> Seq(Entry)] /\ read \in [Conns -> Nat]
  BY <1>1 DEF TypeOK
<1>6. /\ con' = con /\ links' = links /\ reg' = reg /\ cookies' = cookies /\ read' = read /\ gone' = gone
      /\ left' = left /\ mail' = mail /\ live' = live /\ stale' = stale /\ done' = done /\ cut' = cut
  BY DEF Say
<1>7. /\ said'[p] = Append(said[p], c) /\ said' \in [Conns -> Seq(Command)]
      /\ \A x \in Conns \ {p} : said'[x] = said[x]
  BY <1>3, <1>4, <1>5
<1>8. Len(said'[p]) = Len(said[p]) + 1 /\ Len(said[p]) \in Nat
      /\ DOMAIN said'[p] = DOMAIN said[p] \cup {Len(said[p]) + 1}
  BY <1>4, <1>5, <1>7
<1>9. TypeOK'
  BY <1>1, <1>6, <1>7 DEF TypeOK
<1>10. Keys' /\ Lists'
  BY <1>1, <1>6 DEF Keys, Lists
<1>11. Proven'
  <2> SUFFICES ASSUME NEW x \in Conns
               PROVE  DoneOk(said'[x], done[x]) /\ (con[x] \in Con => SessionOk(said'[x], done[x], con[x]))
    BY <1>6 DEF Proven
  <2>1. DoneOk(said[x], done[x]) /\ (con[x] \in Con => SessionOk(said[x], done[x], con[x]))
    BY <1>1 DEF Proven
  <2>2. CASE x = p
    <3>1. said[p] \in Seq(Command) /\ Len(done[p]) \in Nat
      BY <1>5
    <3>2. /\ DoneOk(Append(said[p], c), done[p])
          /\ \A d : SessionOk(said[p], done[p], d) => SessionOk(Append(said[p], c), done[p], d)
      BY <1>4, <2>1, <2>2, <3>1, MoreSaid
    <3> QED BY <1>7, <2>1, <2>2, <3>2
  <2>3. CASE x # p
    BY <1>7, <2>1, <2>3
  <2> QED BY <2>2, <2>3
<1>12. Orders'
  <2>1. read[p] \in Nat /\ read[p] <= 2 * Len(said[p])
    BY <1>1, <1>5 DEF Orders
  <2>2. read[p] <= 2 * Len(said'[p])
    BY <1>8, <2>1
  <2> QED BY <1>1, <1>6, <1>7, <2>2 DEF Orders
<1>13. NoneMissed'
  <2> SUFFICES ASSUME NEW x \in Range(links), NEW i \in DOMAIN said'[x], 2 * i <= read[x]
               PROVE  i \in Ats(done[x]) \cup cut[x]
    BY <1>6 DEF NoneMissed
  <2>1. x \in Conns
    BY <1>1 DEF TypeOK, Range
  <2>2. CASE i \in DOMAIN said[x]
    BY <1>1, <2>2 DEF NoneMissed
  <2>3. CASE i \notin DOMAIN said[x]
    <3>1. x = p /\ i = Len(said[p]) + 1
      BY <1>7, <1>8, <2>1, <2>3
    <3>2. read[p] \in Nat /\ read[p] <= 2 * Len(said[p])
      BY <1>1, <1>5 DEF Orders
    <3>3. FALSE
      BY <1>8, <3>1, <3>2
    <3> QED BY <3>3
  <2> QED BY <2>2, <2>3
<1>14. Fresh'
  BY <1>1, <1>2, <1>6, <1>7 DEF Fresh, TypeOK
<1> QED BY <1>9, <1>10, <1>11, <1>12, <1>13, <1>14 DEF IInv

\* A step that only changes accounts.
LEMMA AccountHolds ==
    ASSUME IInv, Keys', stale' \in BOOLEAN, reg' \in [Names -> {NoReg} \cup Reg], mail' \in [Names -> Key],
           live' \subseteq Names, cookies' \in Nat, left.events > 0, left' = [left EXCEPT !.events = @ - 1],
           UNCHANGED <<con, links, said, read, gone, done, cut>>
    PROVE  IInv'
<1>1. TypeOK /\ Proven /\ Lists /\ Orders /\ NoneMissed /\ Fresh
  BY DEF IInv
<1>2. /\ left' \in [focus : Focuses, conns : SUBSET Conns, events : Nat]
      /\ left'.conns = left.conns
  <2>1. left \in [focus : Focuses, conns : SUBSET Conns, events : Nat]
    BY <1>1 DEF TypeOK
  <2>2. left.events - 1 \in Nat
    BY <2>1
  <2> QED BY <2>1, <2>2
<1>3. TypeOK'
  BY <1>1, <1>2 DEF TypeOK, Keys
<1>4. Proven' /\ Lists' /\ Orders' /\ NoneMissed' /\ Fresh'
  BY <1>1, <1>2 DEF Proven, Lists, Orders, NoneMissed, Fresh
<1> QED BY <1>3, <1>4 DEF IInv

\* GetAuthChKey()
LEMMA KeyOfIs == \A r \in Reg : KeyOf(r) \in Key
BY DEF KeyOf, Reg, Key

\* ns_getpass(), cs_getpass()
LEMMA GetPassHolds ==
    ASSUME IInv, NEW o \in Names, NEW force \in BOOLEAN, GetPass(o, force)
    PROVE  IInv'
<1> DEFINE again == o \in Nicks /\ reg[o].force /\ reg[o].chpw_key # 0
           key == IF again THEN reg[o].chpw_key ELSE cookies + 1
           r == [reg[o] EXCEPT !.chpw_key = key, !.force = @ \/ force]
<1>1. TypeOK /\ Keys /\ reg[o] \in Reg
  BY DEF IInv, TypeOK, GetPass, Account
<1>2. /\ left.events > 0 /\ left' = [left EXCEPT !.events = @ - 1]
      /\ reg' = [reg EXCEPT ![o] = r] /\ mail' = [mail EXCEPT ![o] = KeyOf(r)] /\ live' = live \cup {o}
      /\ cookies' = cookies + 1 /\ UNCHANGED <<con, links, said, read, gone, stale, done, cut>>
  BY DEF GetPass, Account
<1>3. r \in Reg
  <2>1. key \in Nat
    BY <1>1 DEF TypeOK, Reg
  <2>2. (reg[o].force \/ force) \in BOOLEAN
    OBVIOUS
  <2> HIDE DEF key
  <2> QED BY <1>1, <2>1, <2>2 DEF Reg
<1>4. KeyOf(r) \in Key
  <2> HIDE DEF r
  <2> QED BY <1>3, KeyOfIs
<1> HIDE DEF r
<1>5. /\ reg' \in [Names -> {NoReg} \cup Reg] /\ mail' \in [Names -> Key] /\ live' \subseteq Names
      /\ cookies' \in Nat /\ stale' \in BOOLEAN
  BY <1>1, <1>2, <1>3, <1>4 DEF TypeOK
<1>6. Keys'
  BY <1>1, <1>2 DEF Keys, TypeOK
<1> QED BY <1>2, <1>5, <1>6, AccountHolds

\* ns_identify(), cs_identify()
LEMMA IdentifyHolds ==
    ASSUME IInv, NEW o \in Names, Identify(o)
    PROVE  IInv'
<1> DEFINE r == [reg[o] EXCEPT !.chpw_key = 0]
<1>1. TypeOK /\ Keys /\ reg[o] \in Reg
  BY DEF IInv, TypeOK, Identify, Account
<1>2. /\ left.events > 0 /\ left' = [left EXCEPT !.events = @ - 1]
      /\ reg' = [reg EXCEPT ![o] = r] /\ live' = live \ {o}
      /\ UNCHANGED <<cookies, mail, con, links, said, read, gone, stale, done, cut>>
  BY DEF Identify, Account, Outside
<1>3. r \in Reg /\ r.chpw_key = 0
  BY <1>1 DEF Reg
<1> HIDE DEF r
<1>4. /\ reg' \in [Names -> {NoReg} \cup Reg] /\ mail' \in [Names -> Key] /\ live' \subseteq Names
      /\ cookies' \in Nat /\ stale' \in BOOLEAN
  BY <1>1, <1>2, <1>3 DEF TypeOK
<1>5. Keys'
  BY <1>1, <1>2, <1>3 DEF Keys, TypeOK
<1> QED BY <1>2, <1>4, <1>5, AccountHolds

\* ns_setpass(), cs_setpass()
LEMMA SetPassHolds ==
    ASSUME IInv, NEW o \in Names, SetPass(o)
    PROVE  IInv'
<1>1. TypeOK /\ Keys /\ Good(World)
  BY WorldGood DEF IInv
<1>2. PICK pass \in {"old", "new"} : reg' = SetPassword(World, o, pass).reg
  BY DEF SetPass
<1> DEFINE v == SetPassword(World, o, pass)
<1>3. /\ left.events > 0 /\ left' = [left EXCEPT !.events = @ - 1] /\ reg[o] # NoReg /\ reg[o].chpw_key # 0
      /\ stale' = (stale \/ o \notin live) /\ live' = live \ {o}
      /\ UNCHANGED <<cookies, mail, con, links, said, read, gone, done, cut>>
  BY DEF SetPass, Account, Outside
<1>4. o \in live /\ stale' = FALSE
  <2>1. o \in live /\ ~stale
    BY <1>1, <1>3 DEF Keys
  <2> QED BY <1>3, <2>1
<1>5. World \in Worlds /\ Spent(World) /\ World.reg[o] # NoReg
  BY <1>1, <1>3, WorldIs DEF Good, Core
<1>6. Calm(v, World)
  BY <1>5, SetPasswordIs
<1>7. v.live = live \ {o}
  <2> DEFINE w == World
  <2>1. w \in Worlds /\ w.live = live
    BY <1>5, WorldIs
  <2>2. v = SetPassword(w, o, pass)
    OBVIOUS
  <2> HIDE DEF w, v
  <2> QED BY <2>1, <2>2 DEF SetPassword, Worlds
<1>8. v \in Worlds /\ Spent(v)
  BY <1>6 DEF Calm
<1> HIDE DEF v
<1>9. reg' = v.reg
  BY <1>2 DEF v
<1>10. /\ reg' \in [Names -> {NoReg} \cup Reg] /\ mail' \in [Names -> Key] /\ live' \subseteq Names
       /\ cookies' \in Nat /\ stale' \in BOOLEAN
  BY <1>1, <1>3, <1>4, <1>8, <1>9 DEF TypeOK, Worlds
<1>11. Keys'
  BY <1>3, <1>4, <1>7, <1>8, <1>9 DEF Keys, Spent
<1> QED BY <1>3, <1>10, <1>11, AccountHolds

\* ns_drop()
LEMMA DropHolds ==
    ASSUME IInv, NEW o \in Names, Drop(o)
    PROVE  IInv'
<1>1. TypeOK /\ Keys
  BY DEF IInv
<1>2. /\ left.events > 0 /\ left' = [left EXCEPT !.events = @ - 1]
      /\ reg' = [reg EXCEPT ![o] = NoReg] /\ live' = live \ {o}
      /\ UNCHANGED <<cookies, mail, con, links, said, read, gone, stale, done, cut>>
  BY DEF Drop, Account, Outside
<1>3. /\ reg' \in [Names -> {NoReg} \cup Reg] /\ mail' \in [Names -> Key] /\ live' \subseteq Names
      /\ cookies' \in Nat /\ stale' \in BOOLEAN
  BY <1>1, <1>2 DEF TypeOK
<1>4. Keys'
  BY <1>1, <1>2 DEF Keys, TypeOK
<1> QED BY <1>2, <1>3, <1>4, AccountHolds

\* Every step keeps the invariant.
LEMMA StepHolds ==
    ASSUME IInv, [Next]_vars
    PROVE  IInv'
<1>1. CASE UNCHANGED ipcVars
  <2>1. /\ con' = con /\ links' = links /\ reg' = reg /\ cookies' = cookies /\ said' = said /\ read' = read
        /\ gone' = gone /\ left' = left /\ mail' = mail /\ live' = live /\ stale' = stale /\ done' = done /\ cut' = cut
    BY <1>1 DEF ipcVars
  <2>2. TypeOK' /\ Keys' /\ Proven'
    BY <2>1 DEF IInv, TypeOK, Keys, Proven
  <2>3. Lists' /\ Orders' /\ NoneMissed' /\ Fresh'
    BY <2>1 DEF IInv, Lists, Orders, NoneMissed, Fresh
  <2> QED BY <2>2, <2>3 DEF IInv
<1>2. ASSUME NEW p \in Conns, Say(p) PROVE IInv'
  BY <1>2, SayHolds
<1>3. ASSUME NEW p \in Conns, Close(p) PROVE IInv'
  <2>1. TypeOK
    BY DEF IInv
  <2>2. /\ con' = con /\ links' = links /\ reg' = reg /\ cookies' = cookies /\ said' = said /\ read' = read
        /\ left' = left /\ mail' = mail /\ live' = live /\ stale' = stale /\ done' = done /\ cut' = cut
        /\ gone' = [gone EXCEPT ![p] = TRUE]
    BY <1>3 DEF Close
  <2>3. gone' \in [Conns -> BOOLEAN]
    BY <2>1, <2>2 DEF TypeOK
  <2>4. TypeOK' /\ Keys' /\ Proven'
    BY <2>2, <2>3 DEF IInv, TypeOK, Keys, Proven
  <2>5. Lists' /\ Orders' /\ NoneMissed' /\ Fresh'
    BY <2>2 DEF IInv, Lists, Orders, NoneMissed, Fresh
  <2> QED BY <2>4, <2>5 DEF IInv
<1>4. ASSUME NEW n \in Bytes, NEW new \in Wanting, NEW wake \in Wakes, Turn(n, new, wake.p, wake.r) PROVE IInv'
  BY <1>4, TurnHolds
<1>5. left.focus.names \subseteq Names
  <2>1. left.focus \in Focuses
    BY DEF IInv, TypeOK
  <2> QED BY <2>1, IpcAssumption DEF Names
<1>6. ASSUME NEW o \in left.focus.names,
             Identify(o) \/ SetPass(o) \/ Drop(o) \/ \E force \in BOOLEAN : GetPass(o, force)
      PROVE  IInv'
  BY <1>5, <1>6, IdentifyHolds, SetPassHolds, DropHolds, GetPassHolds
<1>7. CASE UplinkSends
  BY <1>1, <1>7 DEF UplinkSends
<1>8. CASE UNCHANGED vars
  BY <1>1, <1>8 DEF vars
<1> QED BY <1>2, <1>3, <1>4, <1>6, <1>7, <1>8 DEF Next

\* It holds when services start.
LEMMA InitHolds ==
    ASSUME Init
    PROVE  IInv
<1>1. /\ con = [p \in Conns |-> NoCon] /\ links = <<>> /\ reg = [o \in Names |-> NewReg("old")] /\ cookies = 0
      /\ said = [p \in Conns |-> <<>>] /\ read = [p \in Conns |-> 0] /\ gone = [p \in Conns |-> FALSE]
      /\ mail = [o \in Names |-> KeyOf(NewReg(""))] /\ live = {} /\ stale = FALSE
      /\ done = [p \in Conns |-> <<>>] /\ cut = [p \in Conns |-> {}]
      /\ \E f \in Focuses : left = [focus |-> f, conns |-> f.conns, events |-> f.events]
  BY DEF Init
<1>2. NewReg("old") \in Reg /\ NewReg("") \in Reg /\ NewReg("old").chpw_key = 0
  BY DEF NewReg, Reg, Passwords
<1>3. KeyOf(NewReg("")) \in Key
  BY <1>2, KeyOfIs
<1>4. left \in [focus : Focuses, conns : SUBSET Conns, events : Nat]
  <2>1. PICK f \in Focuses : left = [focus |-> f, conns |-> f.conns, events |-> f.events]
    BY <1>1
  <2>2. f.conns \subseteq Conns /\ f.events \in Nat
    BY IpcAssumption
  <2> QED BY <2>1, <2>2
<1> DEFINE empty == <<>>
<1>5. empty \in Seq(Conns) /\ empty \in Seq(Command) /\ empty \in Seq(Entry) /\ Len(empty) = 0 /\ DOMAIN empty = {}
  OBVIOUS
<1>6. /\ links = empty /\ \A p \in Conns : con[p] = NoCon /\ said[p] = empty /\ read[p] = 0 /\ done[p] = empty
      /\ said = [p \in Conns |-> empty] /\ done = [p \in Conns |-> empty]
  BY <1>1
<1> HIDE DEF empty
<1>12. TypeOK
  <2>1. /\ con \in [Conns -> {NoCon} \cup Con] /\ links \in Seq(Conns) /\ live \subseteq Names
        /\ cookies \in Nat /\ stale \in BOOLEAN
    BY <1>1, <1>5, <1>6
  <2>2. reg \in [Names -> {NoReg} \cup Reg] /\ mail \in [Names -> Key]
    BY <1>1, <1>2, <1>3
  <2>3. said \in [Conns -> Seq(Command)] /\ done \in [Conns -> Seq(Entry)]
    BY <1>5, <1>6
  <2>4. read \in [Conns -> Nat] /\ gone \in [Conns -> BOOLEAN] /\ cut \in [Conns -> SUBSET Nat]
    BY <1>1
  <2> QED BY <1>4, <2>1, <2>2, <2>3, <2>4 DEF TypeOK
<1>13. Range(links) = {} /\ IsInjective(links)
  BY <1>5, <1>6 DEF Range, IsInjective
<1>7. Keys
  BY <1>1, <1>2 DEF Keys
<1>8. Proven
  BY <1>5, <1>6, NoConIs DEF Proven, DoneOk
<1>9. Lists
  BY <1>6, <1>13, NoConIs DEF Lists
<1>10. Orders
  BY <1>5, <1>6 DEF Orders, Ordered, Ats
<1>11. NoneMissed /\ Fresh
  <2>1. NoneMissed
    BY <1>13 DEF NoneMissed
  <2>2. \A p \in left.conns : p \in Conns
    BY <1>4
  <2> QED BY <1>6, <1>13, <2>1, <2>2 DEF Fresh, empty
<1> QED BY <1>12, <1>7, <1>8, <1>9, <1>10, <1>11 DEF IInv
-----------------------------------------------------------------------------
(***************************************************************************)
(* The theorems.                                                           *)
(***************************************************************************)

\* The invariant holds of every connection, whatever is sent and however it is read.
THEOREM Holds == Spec => []IInv
<1>1. Init => IInv
  BY InitHolds
<1>2. IInv /\ [Next]_vars => IInv'
  BY StepHolds
<1> QED BY <1>1, <1>2, PTL DEF Spec

\* Every variable keeps its type: no session of authSysMessage() and authObjMessage()
\* has other rights than those of getServicesSysUser() and its keys.
THEOREM TypeCorrect == Spec => []TypeOK
<1>1. IInv => TypeOK
  BY DEF IInv
<1> QED BY <1>1, Holds, PTL

\* The key authObjMessage() or ns_setpass() takes is the last one sent for the name,
\* and nobody identified, set a password or registered the name since.
THEOREM KeysLive == Spec => []KeyLive
<1>1. IInv => KeyLive
  BY DEF IInv, Keys, KeyLive
<1> QED BY <1>1, Holds, PTL

\* What CheckPriv() lets a connection do, and each password it sets, was proved by the
\* answers and keys of that connection since its last login.
THEOREM AllProved == Spec => []RightsProved
<1>1. ASSUME IInv PROVE RightsProved
  <2>1. ASSUME NEW p \in Conns, NEW i \in DOMAIN done[p]
        PROVE  LET C(k) == said[p][done[p][k].at]
                   L(k) == C(k).kind = "SYSTEM LOGIN" /\ C(k).user \in DOMAIN Privs
                   A(k) == C(k).kind = "SYSTEM PASS" /\ C(k).answer = Answer(done[p][k].cookie, SysPassword)
                   K(k) == C(k).kind = "CHPASSKEY" /\ done[p][k].ok
               IN done[p][i].ok =>
                  /\ Needs(C(i)) # {} => \E k, j \in 1 .. i - 1 :
                        /\ k < j /\ L(k) /\ A(j) /\ Needs(C(i)) \subseteq Privs[C(k).user]
                        /\ \A m \in k + 1 .. i - 1 : ~L(m)
                  /\ C(i).kind = "ALTER" /\ C(i).field = "PASS" => \E k \in 1 .. i - 1 :
                        /\ K(k) /\ \A m \in k + 1 .. i - 1 : ~L(m)
    <3> DEFINE S == said[p]
               D == done[p]
    <3>1. D \in Seq(Entry) /\ DoneOk(S, D)
      BY <1>1 DEF IInv, TypeOK, Proven
    <3> HIDE DEF S, D
    <3>2. Justified(S, D, i)
      <4>1. i \in 1 .. Len(D)
        BY <3>1 DEF D
      <4> QED BY <3>1, <4>1 DEF DoneOk
    <3>3. D[i].ok => /\ Needs(Cmd(S, D, i)) # {} => Entitled(S, D, i - 1, Needs(Cmd(S, D, i)))
                     /\ Cmd(S, D, i).kind = "ALTER" /\ Cmd(S, D, i).field = "PASS" => Keyed(S, D, i - 1)
      BY <3>2 DEF Justified
    <3> QED BY <3>3 DEF Entitled, Keyed, Since, Login, Answered, Shown, Cmd, S, D
  <2> QED BY <2>1 DEF RightsProved
<1> QED BY <1>1, Holds, PTL

\* What ReadPackets() and shove() hand on is done in order, and nothing is dropped but
\* commands that a read cut.
THEOREM AllDone == Spec => []CommandsDone
<1>1. ASSUME IInv PROVE CommandsDone
  <2> SUFFICES ASSUME NEW p \in Range(links)
      PROVE  LET at == [k \in DOMAIN done[p] |-> done[p][k].at]
             IN  /\ \A k \in 2 .. Len(at) : at[k - 1] < at[k]
                 /\ \A i \in DOMAIN said[p] : 2 * i <= read[p] => i \in Range(at) \cup cut[p]
    BY DEF CommandsDone
  <2> DEFINE D == done[p]
             at == [k \in DOMAIN D |-> D[k].at]
  <2>1. p \in Conns
    BY <1>1 DEF IInv, TypeOK, Range
  <2>2. D \in Seq(Entry) /\ Ordered(D)
    BY <1>1, <2>1 DEF IInv, TypeOK, Orders
  <2>3. \A i \in DOMAIN said[p] : 2 * i <= read[p] => i \in Ats(D) \cup cut[p]
    BY <1>1 DEF IInv, NoneMissed
  <2> HIDE DEF D
  <2>4. DOMAIN D = 1 .. Len(D) /\ Len(D) \in Nat
    BY <2>2
  <2>5. Len(at) = Len(D)
    BY <2>4
  <2>6. Range(at) = Ats(D)
    BY <2>4 DEF Range, Ats
  <2>7. ASSUME NEW k \in 2 .. Len(D) PROVE at[k - 1] < at[k]
    <3>1. k - 1 \in 1 .. Len(D) /\ k \in 1 .. Len(D) /\ k - 1 < k
      BY <2>4
    <3> QED BY <2>2, <2>4, <3>1 DEF Ordered
  <2> QED BY <2>3, <2>5, <2>6, <2>7 DEF D
<1> QED BY <1>1, Holds, PTL
-----------------------------------------------------------------------------
(***************************************************************************)
(* The stream of the uplink: what has been sent, S, and how far it was cut *)
(* into lines.                                                             *)
(***************************************************************************)

Octet == Nat \X Nat

\* The first j bytes of the k-th message.
Bytes1(k, j) == [x \in 1 .. j |-> <<k, x>>]

Messages(S) ==
    /\ S \in Seq(Seq(Octet))
    /\ \A k \in 1 .. Len(S) : /\ Len(S[k]) \in 1 .. MaxLen - 1
                              /\ S[k] = Bytes1(k, Len(S[k]))

\* After k messages comes the next one at place i of the stream w, or nothing.
NextMessage(w, S, i, k) ==
    IF k = Len(S) THEN i = Len(w) + 1
    ELSE k + 1 \in 1 .. Len(S) /\ i \in 1 .. Len(w) /\ w[i] = <<k + 1, 1>>

\* After the j-th byte of a message comes the next one, or the end of the line.
NextByte(w, S, i, k, j) ==
    IF j < Len(S[k]) THEN i \in 1 .. Len(w) /\ w[i] = <<k, j + 1>>
    ELSE /\ i \in 1 .. Len(w) /\ i + 1 \in 1 .. Len(w) /\ w[i] = EndOfLine /\ w[i + 1] = EndOfLine
         /\ NextMessage(w, S, i + 2, k)

\* The stream is in order from the byte at i.
InOrder(w, S, i) ==
    w[i] # EndOfLine => \E k \in 1 .. Len(S) : \E j \in 1 .. Len(S[k]) : w[i] = <<k, j>> /\ NextByte(w, S, i + 1, k, j)
AllInOrder(w, S) == \A i \in 1 .. Len(w) : InOrder(w, S, i)

\* Where breakLine() is before place i, with k whole messages behind it and a line
\* begun: between messages, between the two bytes of a line end, or in a message.
Between(w, S, i, line, k) == line = <<>> /\ k \in 0 .. Len(S) /\ NextMessage(w, S, i, k)
MidEnd(w, S, i, line, k) ==
    /\ line = <<>> /\ k \in 0 .. Len(S)
    /\ i \in 1 .. Len(w) /\ w[i] = EndOfLine /\ NextMessage(w, S, i + 1, k)
Within(w, S, i, line, k) ==
    /\ k \in 0 .. Len(S) - 1
    /\ \E j \in 1 .. Len(S[k + 1]) : line = Bytes1(k + 1, j) /\ NextByte(w, S, i, k + 1, j)
Cut(w, S, i, line, k) == Between(w, S, i, line, k) \/ MidEnd(w, S, i, line, k) \/ Within(w, S, i, line, k)

\* A state of the loop of breakLine().
Scanned(s) ==
    /\ s \in [line : Seq(Octet), kept : Seq(Octet), lines : Seq(Seq(Octet)), ended : BOOLEAN]
    /\ s.kept = <<>> /\ (s.ended => s.line = <<>>)

\* The byte at i leads from s to t: a line goes on or an empty one ends, or message
\* k + 1 is whole.
Goes(w, S, i, s, k, t) ==
    \/ Cut(w, S, i + 1, t.line, k) /\ t.lines \in {s.lines, Append(s.lines, <<>>)}
    \/ k + 1 \in 1 .. Len(S) /\ Cut(w, S, i + 1, t.line, k + 1) /\ t.lines = Append(s.lines, S[k + 1])

\* A message is not empty and fits the buffer.
LEMMA MessageIs ==
    ASSUME NEW S, Messages(S), NEW k \in 1 .. Len(S), NEW j \in 1 .. Len(S[k])
    PROVE  /\ Len(S) \in Nat /\ Len(S[k]) \in Nat /\ k \in Nat /\ j \in Nat /\ j < MaxLen
           /\ MaxLen \in Nat /\ Bytes1(k, j) \in Seq(Octet) /\ Len(Bytes1(k, j)) = j /\ Bytes1(k, j) # <<>>
           /\ <<k, j>> # EndOfLine /\ <<k, j>> \in Octet
<1>1. /\ S \in Seq(Seq(Octet)) /\ Len(S[k]) \in 1 .. MaxLen - 1 /\ MaxLen \in Nat
  BY LineAssumption DEF Messages
<1>2. Len(S) \in Nat /\ k \in Nat /\ j \in Nat /\ j < MaxLen
  BY <1>1
<1>3. \A x \in 1 .. j : <<k, x>> \in Octet
  BY <1>2 DEF Octet
<1>4. <<k, j>> # EndOfLine /\ <<k, j>> \in Octet
  BY <1>2 DEF EndOfLine, Octet
<1>5. Bytes1(k, j) \in Seq(Octet) /\ Len(Bytes1(k, j)) = j
  BY <1>2, <1>3 DEF Bytes1
<1> QED BY <1>1, <1>2, <1>4, <1>5

\* A message that goes on by one byte.
LEMMA ByteAppended ==
    ASSUME NEW k \in Nat, NEW j \in Nat
    PROVE  Append(Bytes1(k, j), <<k, j + 1>>) = Bytes1(k, j + 1)
<1>1. \A x \in 1 .. j + 1 : <<k, x>> \in Octet
  BY DEF Octet
<1>2. Bytes1(k, j) \in Seq(Octet) /\ Len(Bytes1(k, j)) = j /\ Bytes1(k, j + 1) \in Seq(Octet) /\ Len(Bytes1(k, j + 1)) = j + 1
  BY <1>1 DEF Bytes1
<1>3. \A x \in 1 .. j + 1 : Append(Bytes1(k, j), <<k, j + 1>>)[x] = Bytes1(k, j + 1)[x]
  <2> SUFFICES ASSUME NEW x \in 1 .. j + 1 PROVE Append(Bytes1(k, j), <<k, j + 1>>)[x] = <<k, x>>
    BY DEF Bytes1
  <2>1. CASE x = j + 1
    BY <1>2, <2>1
  <2>2. CASE x \in 1 .. j
    <3>1. Bytes1(k, j)[x] = <<k, x>>
      BY <2>2 DEF Bytes1
    <3> QED BY <1>2, <2>2, <3>1
  <2>3. x = j + 1 \/ x \in 1 .. j
    OBVIOUS
  <2> QED BY <2>1, <2>2, <2>3
<1>4. Append(Bytes1(k, j), <<k, j + 1>>) \in Seq(Octet) /\ Len(Append(Bytes1(k, j), <<k, j + 1>>)) = j + 1
  <2>1. <<k, j + 1>> \in Octet
    BY DEF Octet
  <2> DEFINE q == Bytes1(k, j)
             c == <<k, j + 1>>
  <2>2. q \in Seq(Octet) /\ c \in Octet /\ Len(q) = j
    BY <1>2, <2>1
  <2> HIDE DEF q, c
  <2>3. Append(q, c) \in Seq(Octet) /\ Len(Append(q, c)) = j + 1
    BY <2>2
  <2> QED BY <2>3 DEF q, c
<1> QED BY <1>2, <1>3, <1>4

\* One byte of the buffer.
LEMMA ScanIs ==
    ASSUME NEW S, Messages(S), NEW w \in Seq(Octet), NEW i \in 1 .. Len(w), InOrder(w, S, i),
           NEW s, Scanned(s), NEW k, Cut(w, S, i, s.line, k), NEW t, t = Scan(s, w[i])
    PROVE  Scanned(t) /\ Goes(w, S, i, s, k, t)
<1>0. /\ S \in Seq(Seq(Octet)) /\ Len(S) \in Nat /\ Len(w) \in Nat /\ i \in Nat /\ w[i] \in Octet
      /\ MaxLen \in Nat /\ MaxLen > 1
  BY LineAssumption DEF Messages
<1>a. k \in 0 .. Len(S)
  BY <1>0 DEF Cut, Between, MidEnd, Within
<1> DEFINE empty == <<>>
<1>b. empty \in Seq(Octet) /\ Len(empty) = 0 /\ EndOfLine = <<0, 0>>
  BY DEF EndOfLine
<1>c. ASSUME NEW line \in Seq(Octet), w[i] = EndOfLine, ~s.ended, s.line = line, Len(s.line) < MaxLen
      PROVE  Scanned(t) /\ t.line = empty /\ t.lines = Append(s.lines, line)
  <2>1. t = [s EXCEPT !.lines = Append(s.lines, line), !.line = empty, !.ended = TRUE]
    BY <1>c DEF Scan
  <2>2. Append(s.lines, line) \in Seq(Seq(Octet))
    BY <1>c DEF Scanned
  <2>3. empty \in Seq(Octet)
    BY <1>b
  <2> DEFINE more == Append(s.lines, line)
  <2> HIDE DEF empty, more
  <2>4. t = [s EXCEPT !.lines = more, !.line = empty, !.ended = TRUE] /\ more \in Seq(Seq(Octet))
    BY <2>1, <2>2 DEF more
  <2>5. t.line = empty /\ t.lines = more /\ t.kept = s.kept
    BY <2>4 DEF Scanned
  <2>6. t \in [line : Seq(Octet), kept : Seq(Octet), lines : Seq(Seq(Octet)), ended : BOOLEAN]
    BY <2>3, <2>4 DEF Scanned
  <2> QED BY <2>5, <2>6 DEF Scanned, empty, more
<1>1. CASE Between(w, S, i, s.line, k)
  <2>1. k # Len(S)
    BY <1>0, <1>1 DEF Between, NextMessage
  <2>2. k + 1 \in 1 .. Len(S) /\ w[i] = <<k + 1, 1>> /\ s.line = empty
    BY <1>1, <2>1 DEF Between, NextMessage
  <2>3. 1 \in 1 .. Len(S[k + 1]) /\ Len(S[k + 1]) \in Nat /\ k \in Nat
    BY <1>0, <1>a, <2>2 DEF Messages
  <2>4. w[i] # EndOfLine
    BY <2>2, <2>3, MessageIs
  <2>5. NextByte(w, S, i + 1, k + 1, 1)
    BY <2>2, <2>3, <2>4 DEF InOrder
  <2>6. t = [s EXCEPT !.line = Append(s.line, w[i]), !.ended = FALSE]
    BY <1>0, <1>b, <2>2, <2>4 DEF Scan, Scanned
  <2>7. Append(s.line, w[i]) = Bytes1(k + 1, 1)
    <3>1. empty = Bytes1(k + 1, 0)
      BY DEF Bytes1
    <3>2. k + 1 \in Nat /\ 0 \in Nat /\ 0 + 1 = 1
      BY <2>3
    <3>3. Append(Bytes1(k + 1, 0), <<k + 1, 0 + 1>>) = Bytes1(k + 1, 0 + 1)
      BY ONLY <3>2, ByteAppended
    <3> QED BY <2>2, <3>1, <3>2, <3>3
  <2>8. Bytes1(k + 1, 1) \in Seq(Octet)
    BY <2>2, <2>3, MessageIs
  <2>9. Scanned(t) /\ t.line = Bytes1(k + 1, 1) /\ t.lines = s.lines
    BY <2>6, <2>7, <2>8 DEF Scanned
  <2>10. Within(w, S, i + 1, t.line, k)
    BY <1>0, <1>a, <2>2, <2>3, <2>5, <2>9 DEF Within
  <2> QED BY <2>9, <2>10 DEF Cut, Goes
<1>2. CASE MidEnd(w, S, i, s.line, k)
  <2>1. w[i] = EndOfLine /\ s.line = empty /\ NextMessage(w, S, i + 1, k)
    BY <1>2 DEF MidEnd
  <2>2. CASE s.ended
    <3>1. t = s
      BY <2>1, <2>2 DEF Scan
    <3> QED BY <1>a, <2>1, <3>1 DEF Cut, Between, Goes
  <2>3. CASE ~s.ended
    <3>2. Scanned(t) /\ t.line = empty /\ t.lines = Append(s.lines, <<>>)
      <4>1. s.line = empty /\ empty \in Seq(Octet) /\ Len(empty) < MaxLen /\ w[i] = EndOfLine
        BY <1>0, <1>b, <2>1
      <4> HIDE DEF empty
      <4>2. Scanned(t) /\ t.line = empty /\ t.lines = Append(s.lines, empty)
        BY <1>c, <2>3, <4>1
      <4> QED BY <4>2 DEF empty
    <3> QED BY <1>a, <2>1, <3>2 DEF Cut, Between, Goes
  <2> QED BY <2>2, <2>3
<1>3. CASE Within(w, S, i, s.line, k)
  <2>1. k + 1 \in 1 .. Len(S) /\ k \in Nat
    BY <1>0, <1>3 DEF Within
  <2>2. PICK j \in 1 .. Len(S[k + 1]) : s.line = Bytes1(k + 1, j) /\ NextByte(w, S, i, k + 1, j)
    BY <1>3 DEF Within
  <2>3. /\ j < MaxLen /\ j \in Nat /\ Len(s.line) = j /\ Len(S[k + 1]) \in Nat /\ Len(S[k + 1]) < MaxLen
        /\ s.line # <<>> /\ ~s.ended /\ S[k + 1] = Bytes1(k + 1, Len(S[k + 1]))
    <3>1. S[k + 1] = Bytes1(k + 1, Len(S[k + 1])) /\ Len(S[k + 1]) \in 1 .. MaxLen - 1
      BY <2>1 DEF Messages
    <3>2. j < MaxLen /\ j \in Nat /\ Len(s.line) = j /\ s.line # <<>>
      BY <2>1, <2>2, MessageIs
    <3>3. ~s.ended
      BY <3>2 DEF Scanned
    <3> QED BY <1>0, <3>1, <3>2, <3>3
  <2>4. CASE j < Len(S[k + 1])
    <3>1. w[i] = <<k + 1, j + 1>> /\ j + 1 \in 1 .. Len(S[k + 1])
      BY <2>2, <2>3, <2>4 DEF NextByte
    <3>2. w[i] # EndOfLine /\ Bytes1(k + 1, j + 1) \in Seq(Octet)
      BY <2>1, <3>1, MessageIs
    <3>3. NextByte(w, S, i + 1, k + 1, j + 1)
      BY <3>1, <3>2 DEF InOrder
    <3>4. t = [s EXCEPT !.line = Append(s.line, w[i]), !.ended = FALSE]
      BY <2>3, <3>2 DEF Scan, Scanned
    <3>5. Append(s.line, w[i]) = Bytes1(k + 1, j + 1)
      <4>1. k + 1 \in Nat /\ j \in Nat
        BY <2>1, <2>3
      <4>2. Append(Bytes1(k + 1, j), <<k + 1, j + 1>>) = Bytes1(k + 1, j + 1)
        BY ONLY <4>1, ByteAppended
      <4> QED BY <2>2, <3>1, <4>2
    <3>6. Scanned(t) /\ t.line = Bytes1(k + 1, j + 1) /\ t.lines = s.lines
      BY <3>2, <3>4, <3>5 DEF Scanned
    <3>7. Within(w, S, i + 1, t.line, k)
      BY <1>3, <3>1, <3>3, <3>6 DEF Within
    <3> QED BY <3>6, <3>7 DEF Cut, Goes
  <2>5. CASE ~(j < Len(S[k + 1]))
    <3>1. j = Len(S[k + 1])
      BY <2>3, <2>5
    <3>2. i + 1 \in 1 .. Len(w) /\ w[i] = EndOfLine /\ w[i + 1] = EndOfLine /\ NextMessage(w, S, i + 2, k + 1)
      BY <2>2, <2>5 DEF NextByte
    <3>4. s.line = S[k + 1]
      BY <2>2, <2>3, <3>1
    <3>5. Scanned(t) /\ t.line = empty /\ t.lines = Append(s.lines, S[k + 1])
      <4>1. S[k + 1] \in Seq(Octet) /\ Len(s.line) < MaxLen
        BY <1>0, <2>1, <2>3
      <4> QED BY <1>c, <2>3, <3>2, <3>4, <4>1
    <3>6. MidEnd(w, S, i + 1, t.line, k + 1)
      <4>1. (i + 1) + 1 = i + 2 /\ k + 1 \in 0 .. Len(S)
        BY <1>0, <2>1
      <4> QED BY <3>2, <3>5, <4>1 DEF MidEnd
    <3> QED BY <2>1, <3>5, <3>6 DEF Cut, Goes
  <2> QED BY <2>4, <2>5
<1> QED BY <1>1, <1>2, <1>3 DEF Cut

\* The lines that are not empty, from the first to the last.
LEMMA NonEmptyGoes ==
    ASSUME NEW q \in Seq(Seq(Octet))
    PROVE  \E h : /\ h[1 .. 0] = <<>> /\ NonEmpty(q) = h[1 .. Len(q)]
                  /\ \A i \in 1 .. Len(q) : h[1 .. i] = IF q[i] = <<>> THEN h[1 .. (i - 1)]
                                                        ELSE Append(h[1 .. (i - 1)], q[i])
<1> DEFINE B == Seq(Octet)
           A == Seq(B)
           step(some, line) == IF line = <<>> THEN some ELSE Append(some, line)
           F == [x \in A \X B |-> step(x[1], x[2])]
<1>1. \A some \in A, line \in B : step(some, line) \in A
  <2> HIDE DEF B
  <2> QED OBVIOUS
<1>2. <<>> \in A /\ q \in Seq(B)
  OBVIOUS
<1> HIDE DEF A, B, step
<1>3. F \in [A \X B -> A]
  <2>1. ASSUME NEW x \in A \X B PROVE step(x[1], x[2]) \in A
    <3>1. x[1] \in A /\ x[2] \in B
      OBVIOUS
    <3> QED BY <1>1, <3>1
  <2> QED BY <2>1
<1> HIDE DEF F
<1>4. PICK g \in [SUBSET DOMAIN q -> A] : FoldsList(g, q, <<>>, F)
  BY <1>2, <1>3, ListExists
<1>5. ASSUME NEW T \in SUBSET DOMAIN q, T # {}
      PROVE  F[<<g[T \ {Max(T)}], q[Max(T)]>>] = step(g[T \ {Max(T)}], q[Max(T)])
  <2>1. Max(T) \in DOMAIN q
    BY <1>2, <1>5, LastPlace
  <2>2. g[T \ {Max(T)}] \in A /\ q[Max(T)] \in B
    BY <1>2, <2>1
  <2> QED BY <2>2 DEF F
<1>6. g = [T \in SUBSET DOMAIN q |-> IF T = {} THEN <<>> ELSE step(g[T \ {Max(T)}], q[Max(T)])]
  BY <1>4, <1>5 DEF FoldsList
<1>7. PICK h : /\ h = [T \in SUBSET DOMAIN q |-> IF T = {} THEN <<>> ELSE step(h[T \ {Max(T)}], q[Max(T)])]
               /\ NonEmpty(q) = h[DOMAIN q]
  BY <1>6 DEF NonEmpty, FoldLeft, MapThenFoldSet, step
<1>8. h[1 .. 0] = <<>> /\ DOMAIN q = 1 .. Len(q)
  <2>1. 1 .. 0 = {}
    OBVIOUS
  <2>2. h[{}] = <<>>
    BY <1>7
  <2> QED BY <1>2, <2>1, <2>2
<1>9. ASSUME NEW i \in 1 .. Len(q)
      PROVE  h[1 .. i] = step(h[1 .. (i - 1)], q[i])
  <2>1. 1 .. i \in SUBSET DOMAIN q /\ 1 .. i # {} /\ Max(1 .. i) = i /\ (1 .. i) \ {i} = 1 .. (i - 1)
    BY <1>2, FirstPlaces
  <2> QED BY <1>7, <2>1
<1> QED BY <1>7, <1>8, <1>9 DEF step

\* One line more.
LEMMA NonEmptyIs ==
    ASSUME NEW q \in Seq(Seq(Octet)), NEW line \in Seq(Octet)
    PROVE  NonEmpty(Append(q, line)) = IF line = <<>> THEN NonEmpty(q) ELSE Append(NonEmpty(q), line)
<1> DEFINE r == Append(q, line)
<1>1. /\ r \in Seq(Seq(Octet)) /\ Len(q) \in Nat /\ Len(r) = Len(q) + 1 /\ r[Len(q) + 1] = line
      /\ \A i \in 1 .. Len(q) : r[i] = q[i]
  OBVIOUS
<1> HIDE DEF r
<1>2. PICK h : /\ h[1 .. 0] = <<>> /\ NonEmpty(q) = h[1 .. Len(q)]
               /\ \A i \in 1 .. Len(q) : h[1 .. i] = IF q[i] = <<>> THEN h[1 .. (i - 1)] ELSE Append(h[1 .. (i - 1)], q[i])
  BY NonEmptyGoes
<1>3. PICK g : /\ g[1 .. 0] = <<>> /\ NonEmpty(r) = g[1 .. Len(r)]
               /\ \A i \in 1 .. Len(r) : g[1 .. i] = IF r[i] = <<>> THEN g[1 .. (i - 1)] ELSE Append(g[1 .. (i - 1)], r[i])
  BY <1>1, NonEmptyGoes
<1> DEFINE Bad == {i \in 0 .. Len(q) : g[1 .. i] # h[1 .. i]}
<1>4. Bad = {}
  <2> SUFFICES ASSUME Bad # {} PROVE FALSE
    OBVIOUS
  <2>1. PICK m \in Bad : \A i \in Bad : m <= i
    <3>1. Bad \in SUBSET Nat
      OBVIOUS
    <3> HIDE DEF Bad
    <3> QED BY <3>1, NatMin
  <2>2. m # 0
    BY <1>2, <1>3
  <2>3. m \in 1 .. Len(q) /\ m \in 1 .. Len(r) /\ m - 1 \in 0 .. Len(q) /\ ~(m <= m - 1)
    BY <1>1, <2>2
  <2>4. m - 1 \notin Bad
    <3> HIDE DEF Bad
    <3> QED BY <2>1, <2>3
  <2>5. g[1 .. (m - 1)] = h[1 .. (m - 1)] /\ r[m] = q[m]
    BY <1>1, <2>3, <2>4
  <2>6. g[1 .. m] = h[1 .. m]
    <3> HIDE DEF Bad
    <3> QED BY <1>2, <1>3, <2>3, <2>5
  <2> QED BY <2>6
<1>5. g[1 .. Len(q)] = h[1 .. Len(q)]
  <2>1. Len(q) \in 0 .. Len(q)
    BY <1>1
  <2> QED BY <1>4, <2>1
<1>6. Len(r) \in 1 .. Len(r) /\ Len(r) - 1 = Len(q) /\ r[Len(r)] = line
  BY <1>1
<1> QED BY <1>2, <1>3, <1>5, <1>6 DEF r

\* A line after two lists of lines.
LEMMA AppendAfter ==
    ASSUME NEW q \in Seq(Seq(Octet)), NEW r \in Seq(Seq(Octet)), NEW a \in Seq(Octet)
    PROVE  q \o Append(r, a) = Append(q \o r, a)
<1> DEFINE B == Seq(Octet)
           x == q \o Append(r, a)
           y == Append(q \o r, a)
<1>0. q \in Seq(B) /\ r \in Seq(B) /\ a \in B
  OBVIOUS
<1> HIDE DEF B
<1>1. Len(q) \in Nat /\ Len(r) \in Nat /\ q \o r \in Seq(B) /\ Len(q \o r) = Len(q) + Len(r)
  BY <1>0
<1>2. x \in Seq(B) /\ y \in Seq(B) /\ Len(x) = Len(q) + Len(r) + 1 /\ Len(y) = Len(q) + Len(r) + 1
  BY <1>0, <1>1
<1>3. ASSUME NEW i \in 1 .. Len(q) + Len(r) + 1 PROVE x[i] = y[i]
  <2>1. CASE i <= Len(q)
    BY <1>0, <1>1, <2>1
  <2>2. CASE i > Len(q) /\ i <= Len(q) + Len(r)
    BY <1>0, <1>1, <2>2
  <2>3. CASE i = Len(q) + Len(r) + 1
    BY <1>0, <1>1, <2>3
  <2> QED BY <1>1, <2>1, <2>2, <2>3
<1> HIDE DEF x, y
<1>4. x = y
  BY <1>1, <1>2, <1>3
<1> QED BY <1>4 DEF x, y

\* Some lines more, one of them of k + 1.
LEMMA LinesAfter ==
    ASSUME NEW S \in Seq(Seq(Octet)), NEW q \in Seq(Seq(Octet)), NEW more \in Seq(Seq(Octet)),
           NEW k \in Nat, k + 1 \in 1 .. Len(S), S[k + 1] # <<>>, NonEmpty(q \o more) = SubSeq(S, 1, k)
    PROVE  NonEmpty(q \o Append(more, S[k + 1])) = SubSeq(S, 1, k + 1)
<1>1. S[k + 1] \in Seq(Octet) /\ q \o more \in Seq(Seq(Octet))
  OBVIOUS
<1>2. q \o Append(more, S[k + 1]) = Append(q \o more, S[k + 1])
  BY <1>1, AppendAfter
<1>3. NonEmpty(Append(q \o more, S[k + 1])) = Append(SubSeq(S, 1, k), S[k + 1])
  BY <1>1, NonEmptyIs
<1>4. Append(SubSeq(S, 1, k), S[k + 1]) = SubSeq(S, 1, k + 1)
  <2> DEFINE B == Seq(Octet)
  <2>1. S \in Seq(B) /\ k <= Len(S) /\ k + 1 <= Len(S) /\ Len(S) \in Nat
    OBVIOUS
  <2> HIDE DEF B
  <2> DEFINE x == Append(SubSeq(S, 1, k), S[k + 1])
             y == SubSeq(S, 1, k + 1)
  <2>2. x \in Seq(B) /\ y \in Seq(B) /\ Len(x) = k + 1 /\ Len(y) = k + 1
    BY <2>1
  <2>3. \A i \in 1 .. k + 1 : x[i] = y[i]
    BY <2>1
  <2> HIDE DEF x, y
  <2>4. x = y
    BY <2>2, <2>3
  <2> QED BY <2>4 DEF x, y
<1> QED BY <1>2, <1>3, <1>4

\* The states of the loop, and the step between them.
States == [line : Seq(Octet), kept : Seq(Octet), lines : Seq(Seq(Octet)), ended : BOOLEAN]
Step == [x \in States \X Octet |-> Scan(x[1], x[2])]

\* breakLine() begins its loop.
Begins(s) == Scanned(s) /\ s.lines = <<>>

\* It is in the stream before place i, and of the lines that were parsed those that
\* are not empty are the first k messages.
CutAt(w, S, i, line, lines, k) ==
    k \in Nat /\ Cut(w, S, i, line, k) /\ NonEmpty(lines) = SubSeq(S, 1, k)

\* The loop took n bytes and ends in the state t, with the lines q in front of it.
EndsAt(w, S, n, s, q, t) ==
    /\ Scanned(t) /\ (n = 0 => t = s)
    /\ \E k : CutAt(w, S, n + 1, t.line, q \o t.lines, k)

\* The loop over a buffer b, and the stream without its first n bytes.
Scans(s, b) == FoldLeft(Scan, s, b)
First(w, n) == SubSeq(w, 1, n)
Without(w, n) == SubSeq(w, n + 1, Len(w))

\* What the buffer keeps of a line that fits it.
LEMMA KeepIs ==
    ASSUME NEW line \in Seq(Octet)
    PROVE  Keep(line) \in Seq(Octet) /\ (Len(line) < MaxLen => Keep(line) = line)
<1>1. MaxLen \in Nat /\ MaxLen > 1 /\ Len(line) \in Nat
  BY LineAssumption
<1>2. CASE Len(line) < MaxLen
  <2>1. Keep(line) = SubSeq(line, 1, Len(line))
    BY <1>2 DEF Keep
  <2> DEFINE y == SubSeq(line, 1, Len(line))
  <2>2. y \in Seq(Octet) /\ Len(y) = Len(line) /\ \A i \in 1 .. Len(line) : y[i] = line[i]
    BY <1>1
  <2> HIDE DEF y
  <2>3. y = line
    BY <1>1, <2>2
  <2> QED BY <2>1, <2>3 DEF y
<1>3. CASE ~(Len(line) < MaxLen)
  <2>1. Keep(line) = SubSeq(line, 1, MaxLen - 1) /\ MaxLen - 1 \in 0 .. Len(line)
    BY <1>1, <1>3 DEF Keep
  <2> QED BY <1>3, <2>1
<1> QED BY <1>2, <1>3

\* A step leads from a state to a state.
LEMMA StepIs == Step \in [States \X Octet -> States]
<1> SUFFICES ASSUME NEW s \in States, NEW c \in Octet PROVE Scan(s, c) \in States
  <2>1. ASSUME NEW x \in States \X Octet PROVE Scan(x[1], x[2]) \in States
    <3>1. x[1] \in States /\ x[2] \in Octet
      OBVIOUS
    <3> QED BY <3>1
  <2> QED BY <2>1 DEF Step
<1> DEFINE L == Seq(Octet)
           empty == <<>>
           one == <<c>>
           more == Append(s.lines, s.line)
           longer == Append(s.line, c)
           kept == Keep(s.line)
<1>1. /\ s \in [line : L, kept : L, lines : Seq(L), ended : BOOLEAN]
      /\ empty \in L /\ one \in L /\ more \in Seq(L) /\ longer \in L /\ kept \in L
  <2>1. s.line \in L /\ s.lines \in Seq(L)
    BY DEF States
  <2>2. kept \in L
    BY <2>1, KeepIs
  <2>3. more \in Seq(L)
    <3> HIDE DEF L
    <3> QED BY <2>1
  <2> QED BY <2>1, <2>2, <2>3 DEF States
<1> HIDE DEF L, empty, one, more, longer, kept
<1>2. \/ Scan(s, c) = s
      \/ Scan(s, c) = [s EXCEPT !.lines = more, !.line = empty, !.ended = TRUE]
      \/ Scan(s, c) = [s EXCEPT !.kept = kept, !.line = one, !.ended = FALSE]
      \/ Scan(s, c) = [s EXCEPT !.line = longer, !.ended = FALSE]
  BY <1>1 DEF Scan, empty, one, more, longer, kept
<1>3. Scan(s, c) \in [line : L, kept : L, lines : Seq(L), ended : BOOLEAN]
  BY <1>1, <1>2
<1> QED BY <1>3 DEF L, States

\* breakLine() goes over the buffer byte by byte.
LEMMA ScanGoes ==
    ASSUME NEW s \in States, NEW b \in Seq(Octet)
    PROVE  \E h : /\ h[1 .. 0] = s /\ FoldLeft(Scan, s, b) = h[1 .. Len(b)]
                  /\ \A i \in 1 .. Len(b) : h[1 .. i] = Scan(h[1 .. (i - 1)], b[i])
<1>1. PICK g \in [SUBSET DOMAIN b -> States] : FoldsList(g, b, s, Step)
  BY StepIs, ListExists
<1>2. ASSUME NEW T \in SUBSET DOMAIN b, T # {}
      PROVE  Step[<<g[T \ {Max(T)}], b[Max(T)]>>] = Scan(g[T \ {Max(T)}], b[Max(T)])
  <2>1. Max(T) \in DOMAIN b
    BY <1>2, LastPlace
  <2>2. g[T \ {Max(T)}] \in States /\ b[Max(T)] \in Octet
    BY <2>1
  <2> QED BY <2>2 DEF Step
<1>3. g = [T \in SUBSET DOMAIN b |-> IF T = {} THEN s ELSE Scan(g[T \ {Max(T)}], b[Max(T)])]
  BY <1>1, <1>2 DEF FoldsList
<1>4. PICK h : /\ h = [T \in SUBSET DOMAIN b |-> IF T = {} THEN s ELSE Scan(h[T \ {Max(T)}], b[Max(T)])]
               /\ FoldLeft(Scan, s, b) = h[DOMAIN b]
  BY <1>3 DEF FoldLeft, MapThenFoldSet
<1>5. h[1 .. 0] = s /\ DOMAIN b = 1 .. Len(b)
  <2>1. 1 .. 0 = {}
    OBVIOUS
  <2>2. h[{}] = s
    BY <1>4
  <2> QED BY <2>1, <2>2
<1>6. ASSUME NEW i \in 1 .. Len(b)
      PROVE  h[1 .. i] = Scan(h[1 .. (i - 1)], b[i])
  <2>1. 1 .. i \in SUBSET DOMAIN b /\ 1 .. i # {} /\ Max(1 .. i) = i /\ (1 .. i) \ {i} = 1 .. (i - 1)
    BY FirstPlaces
  <2> QED BY <1>4, <2>1
<1> QED BY <1>4, <1>5, <1>6

\* breakLine() cuts n bytes of the stream where it says.
LEMMA BreakIs ==
    ASSUME NEW S, Messages(S), NEW w \in Seq(Octet), AllInOrder(w, S),
           NEW n \in 0 .. Len(w), NEW p \in Seq(Seq(Octet)), NEW s, Begins(s),
           NEW k, CutAt(w, S, 1, s.line, p, k),
           NEW end, end = Scans(s, First(w, n))
    PROVE  EndsAt(w, S, n, s, p, end)
<1> DEFINE b == First(w, n)
           Fit(i, t) == /\ Scanned(t)
                        /\ \E m : CutAt(w, S, i + 1, t.line, p \o t.lines, m)
<1>1. /\ b \in Seq(Octet) /\ Len(b) = n /\ \A i \in 1 .. n : b[i] = w[i]
      /\ n \in Nat /\ Len(w) \in Nat /\ n <= Len(w)
  BY DEF First
<1>2. s \in States
  BY DEF Begins, Scanned, States
<1> HIDE DEF b
<1>3. PICK h : /\ h[1 .. 0] = s /\ FoldLeft(Scan, s, b) = h[1 .. Len(b)]
               /\ \A i \in 1 .. Len(b) : h[1 .. i] = Scan(h[1 .. (i - 1)], b[i])
  BY <1>1, <1>2, ScanGoes
<1>4. end = h[1 .. n]
  BY <1>1, <1>3 DEF b, Scans
<1>5. Fit(0, h[1 .. 0])
  <2> DEFINE empty == <<>>
  <2>1. p \o empty = p /\ s.lines = empty
    BY DEF Begins
  <2> HIDE DEF empty
  <2>2. p \o s.lines = p /\ 0 + 1 = 1 /\ h[1 .. 0] = s
    BY <1>3, <2>1
  <2> QED BY <2>2 DEF Begins
<1>6. ASSUME NEW i \in 1 .. n, Fit(i - 1, h[1 .. (i - 1)]) PROVE Fit(i, h[1 .. i])
  <2> DEFINE u == h[1 .. (i - 1)]
             t == h[1 .. i]
  <2>1. t = Scan(u, w[i]) /\ i \in 1 .. Len(w) /\ (i - 1) + 1 = i
    <3>1. i \in 1 .. Len(b) /\ b[i] = w[i] /\ i \in 1 .. Len(w) /\ (i - 1) + 1 = i
      BY <1>1
    <3> QED BY <1>3, <3>1
  <2>2. Scanned(u) /\ \E m : CutAt(w, S, i, u.line, p \o u.lines, m)
    BY <1>6, <2>1
  <2>3. PICK m \in Nat : Cut(w, S, i, u.line, m) /\ NonEmpty(p \o u.lines) = SubSeq(S, 1, m)
    BY <2>2 DEF CutAt
  <2> HIDE DEF u, t
  <2>4. Scanned(t) /\ Goes(w, S, i, u, m, t)
    <3>1. Scanned(u) /\ Cut(w, S, i, u.line, m)
      BY <2>2, <2>3
    <3>2. i \in 1 .. Len(w) /\ InOrder(w, S, i) /\ t = Scan(u, w[i])
      BY <2>1 DEF AllInOrder
    <3>3. Messages(S) /\ w \in Seq(Octet)
      OBVIOUS
    <3> QED BY ONLY <3>1, <3>2, <3>3, ScanIs
  <2>5. u.lines \in Seq(Seq(Octet)) /\ S \in Seq(Seq(Octet))
    BY <2>2 DEF Scanned, Messages
  <2> DEFINE before == u.lines
  <2>10. p \in Seq(Seq(Octet)) /\ before \in Seq(Seq(Octet)) /\ S \in Seq(Seq(Octet)) /\ m \in Nat
         /\ NonEmpty(p \o before) = SubSeq(S, 1, m)
    BY <2>3, <2>5
  <2>6. CASE Cut(w, S, i + 1, t.line, m) /\ t.lines = u.lines
    BY <2>3, <2>4, <2>6 DEF t, CutAt
  <2>7. CASE Cut(w, S, i + 1, t.line, m) /\ t.lines = Append(u.lines, <<>>)
    <3> DEFINE empty == <<>>
    <3>1. empty \in Seq(Octet) /\ t.lines = Append(u.lines, empty)
      BY <2>7
    <3> HIDE DEF empty, before
    <3>4. p \o Append(before, empty) = Append(p \o before, empty)
      BY ONLY <2>10, <3>1, AppendAfter
    <3>2. p \o t.lines = Append(p \o u.lines, empty) /\ p \o u.lines \in Seq(Seq(Octet))
      <4>1. p \o before \in Seq(Seq(Octet))
        BY ONLY <2>10
      <4> QED BY <3>1, <3>4, <4>1 DEF before
    <3>3. NonEmpty(p \o t.lines) = NonEmpty(p \o u.lines)
      BY <3>1, <3>2, NonEmptyIs DEF empty
    <3> QED BY <2>3, <2>4, <2>7, <3>3 DEF t, CutAt
  <2>8. CASE m + 1 \in 1 .. Len(S) /\ Cut(w, S, i + 1, t.line, m + 1) /\ t.lines = Append(u.lines, S[m + 1])
    <3>1. S[m + 1] # <<>>
      <4>1. Len(S[m + 1]) \in 1 .. MaxLen - 1
        BY <2>8 DEF Messages
      <4>2. Len(S[m + 1]) # 0
        BY <4>1, LineAssumption
      <4> QED BY <4>2
    <3>2. NonEmpty(p \o t.lines) = SubSeq(S, 1, m + 1)
      <4> HIDE DEF before
      <4>1. NonEmpty(p \o Append(before, S[m + 1])) = SubSeq(S, 1, m + 1)
        BY ONLY <2>8, <2>10, <3>1, LinesAfter
      <4> QED BY <2>8, <4>1 DEF before
    <3>3. m + 1 \in Nat
      OBVIOUS
    <3> QED BY <2>4, <2>8, <3>2, <3>3 DEF t, CutAt
  <2> QED BY <2>4, <2>6, <2>7, <2>8 DEF Goes
<1> DEFINE Bad == {i \in 0 .. n : ~Fit(i, h[1 .. i])}
<1> HIDE DEF Fit
<1>7. Bad = {}
  <2> SUFFICES ASSUME Bad # {} PROVE FALSE
    OBVIOUS
  <2>1. PICK m \in Bad : \A i \in Bad : m <= i
    <3>1. Bad \in SUBSET Nat
      OBVIOUS
    <3> HIDE DEF Bad
    <3> QED BY <3>1, NatMin
  <2>2. m # 0
    BY <1>5
  <2>3. m \in 1 .. n /\ m - 1 \in 0 .. n /\ ~(m <= m - 1)
    BY <1>1, <2>2
  <2>4. m - 1 \notin Bad
    <3> HIDE DEF Bad
    <3> QED BY <2>1, <2>3
  <2>5. Fit(m - 1, h[1 .. (m - 1)])
    BY <2>3, <2>4
  <2>6. Fit(m, h[1 .. m])
    <3> HIDE DEF Bad
    <3> QED BY <1>6, <2>3, <2>5
  <2> QED BY <2>6
<1>8. Fit(n, end)
  <2>1. n \in 0 .. n
    BY <1>1
  <2> QED BY <1>4, <1>7, <2>1
<1>9. n = 0 => end = s
  BY <1>3, <1>4
<1> QED BY <1>8, <1>9 DEF Fit, EndsAt

\* The stream without its first n bytes.
LEMMA ShiftIs ==
    ASSUME NEW S, Len(S) \in Nat, NEW w \in Seq(Octet), NEW n \in 0 .. Len(w),
           NEW v, v = Without(w, n), NEW i \in Nat \ {0}
    PROVE  /\ v \in Seq(Octet) /\ Len(v) = Len(w) - n
           /\ \A k : NextMessage(w, S, i + n, k) => NextMessage(v, S, i, k)
           /\ \A k, j : NextByte(w, S, i + n, k, j) => NextByte(v, S, i, k, j)
           /\ i \in 1 .. Len(v) /\ InOrder(w, S, i + n) => InOrder(v, S, i)
           /\ \A line, k : Cut(w, S, i + n, line, k) => Cut(v, S, i, line, k)
<1>1. /\ v \in Seq(Octet) /\ Len(v) = Len(w) - n /\ \A m \in 1 .. Len(v) : v[m] = w[m + n]
      /\ Len(w) \in Nat /\ n \in Nat /\ n <= Len(w)
  BY DEF Without
<1>2. ASSUME NEW m \in Nat \ {0}, NEW k, NextMessage(w, S, m + n, k) PROVE NextMessage(v, S, m, k)
  <2>1. CASE k = Len(S)
    BY <1>1, <1>2, <2>1 DEF NextMessage
  <2>2. CASE k # Len(S)
    <3>1. m + n \in 1 .. Len(w) /\ w[m + n] = <<k + 1, 1>> /\ k + 1 \in 1 .. Len(S)
      BY <1>2, <2>2 DEF NextMessage
    <3>2. m \in 1 .. Len(v)
      BY <1>1, <3>1
    <3> QED BY <1>1, <2>2, <3>1, <3>2 DEF NextMessage
  <2> QED BY <2>1, <2>2
<1>3. ASSUME NEW m \in Nat \ {0}, NEW k, NEW j, NextByte(w, S, m + n, k, j) PROVE NextByte(v, S, m, k, j)
  <2>1. CASE j < Len(S[k])
    <3>1. m + n \in 1 .. Len(w) /\ w[m + n] = <<k, j + 1>>
      BY <1>3, <2>1 DEF NextByte
    <3>2. m \in 1 .. Len(v)
      BY <1>1, <3>1
    <3> QED BY <1>1, <2>1, <3>1, <3>2 DEF NextByte
  <2>2. CASE ~(j < Len(S[k]))
    <3>1. /\ m + n \in 1 .. Len(w) /\ (m + n) + 1 \in 1 .. Len(w)
          /\ w[m + n] = EndOfLine /\ w[(m + n) + 1] = EndOfLine /\ NextMessage(w, S, (m + n) + 2, k)
      BY <1>3, <2>2 DEF NextByte
    <3>2. (m + n) + 1 = (m + 1) + n /\ (m + n) + 2 = (m + 2) + n /\ m + 2 \in Nat \ {0}
      BY <1>1
    <3>3. m \in 1 .. Len(v) /\ m + 1 \in 1 .. Len(v)
      <4>1. Len(v) = Len(w) - n /\ Len(w) \in Nat /\ n \in Nat /\ m \in Nat /\ m # 0
        BY <1>1
      <4>2. m + n \in 1 .. Len(w) /\ (m + n) + 1 \in 1 .. Len(w)
        BY <3>1
      <4> QED BY ONLY <4>1, <4>2
    <3>4. v[m] = EndOfLine /\ v[m + 1] = EndOfLine
      BY <1>1, <3>1, <3>2, <3>3
    <3>5. NextMessage(v, S, m + 2, k)
      BY <1>2, <3>1, <3>2
    <3> QED BY <2>2, <3>3, <3>4, <3>5 DEF NextByte
  <2> QED BY <2>1, <2>2
<1>4. ASSUME i \in 1 .. Len(v), InOrder(w, S, i + n) PROVE InOrder(v, S, i)
  <2>1. v[i] = w[i + n] /\ (i + n) + 1 = (i + 1) + n /\ i + 1 \in Nat \ {0}
    <3>1. i \in 1 .. Len(v)
      BY <1>4
    <3>2. v[i] = w[i + n]
      BY ONLY <1>1, <3>1
    <3>3. n \in Nat /\ i \in Nat
      BY <1>1
    <3>4. (i + n) + 1 = (i + 1) + n /\ i + 1 \in Nat \ {0}
      BY ONLY <3>3
    <3> QED BY <3>2, <3>4
  <2> SUFFICES ASSUME v[i] # EndOfLine
               PROVE  \E k \in 1 .. Len(S) : \E j \in 1 .. Len(S[k]) : v[i] = <<k, j>> /\ NextByte(v, S, i + 1, k, j)
    BY DEF InOrder
  <2>2. PICK k \in 1 .. Len(S) : \E j \in 1 .. Len(S[k]) : w[i + n] = <<k, j>> /\ NextByte(w, S, (i + n) + 1, k, j)
    BY <1>4, <2>1 DEF InOrder
  <2>3. PICK j \in 1 .. Len(S[k]) : w[i + n] = <<k, j>> /\ NextByte(w, S, (i + n) + 1, k, j)
    BY <2>2
  <2>4. NextByte(v, S, i + 1, k, j)
    BY <1>3, <2>1, <2>3
  <2> QED BY <2>1, <2>3, <2>4
<1>5. ASSUME NEW line, NEW k, Cut(w, S, i + n, line, k) PROVE Cut(v, S, i, line, k)
  <2>1. CASE Between(w, S, i + n, line, k)
    BY <1>2, <2>1 DEF Cut, Between
  <2>2. CASE MidEnd(w, S, i + n, line, k)
    <3>1. i + n \in 1 .. Len(w) /\ w[i + n] = EndOfLine /\ NextMessage(w, S, (i + n) + 1, k)
      BY <2>2 DEF MidEnd
    <3>2. (i + n) + 1 = (i + 1) + n /\ i + 1 \in Nat \ {0} /\ i \in 1 .. Len(v)
      BY <1>1, <3>1
    <3>3. v[i] = EndOfLine
      BY <1>1, <3>1, <3>2
    <3>4. NextMessage(v, S, i + 1, k)
      BY <1>2, <3>1, <3>2
    <3> QED BY <2>2, <3>2, <3>3, <3>4 DEF Cut, MidEnd
  <2>3. CASE Within(w, S, i + n, line, k)
    <3>1. PICK j \in 1 .. Len(S[k + 1]) : line = Bytes1(k + 1, j) /\ NextByte(w, S, i + n, k + 1, j)
      BY <2>3 DEF Within
    <3>2. NextByte(v, S, i, k + 1, j)
      BY <1>3, <3>1
    <3> QED BY <2>3, <3>1, <3>2 DEF Cut, Within
  <2> QED BY <1>5, <2>1, <2>2, <2>3 DEF Cut
<1> QED BY <1>1, <1>2, <1>3, <1>4, <1>5

\* What holds of the two ends of the wire, unless a half line was thrown away.
WireInv ==
    ~lost =>
        /\ Messages(sent) /\ wire \in Seq(Octet) /\ parsed \in Seq(Seq(Octet))
        /\ AllInOrder(wire, sent)
        /\ \E k : CutAt(wire, sent, 1, oldData, parsed, k)

\* The line that is begun fits the buffer.
LEMMA CutFits ==
    ASSUME NEW S, Messages(S), NEW w, NEW i, NEW line, NEW k, Cut(w, S, i, line, k)
    PROVE  line \in Seq(Octet) /\ Len(line) < MaxLen
<1>1. CASE line = <<>>
  <2>1. MaxLen \in Nat /\ MaxLen > 1 /\ Len(line) = 0
    BY <1>1, LineAssumption
  <2> QED BY <1>1, <2>1
<1>2. CASE Within(w, S, i, line, k)
  <2>1. PICK j \in 1 .. Len(S[k + 1]) : line = Bytes1(k + 1, j)
    BY <1>2 DEF Within
  <2>2. k + 1 \in 1 .. Len(S)
    <3>1. Len(S) \in Nat
      BY DEF Messages
    <3> QED BY <1>2, <3>1 DEF Within
  <2> QED BY <2>1, <2>2, MessageIs
<1> QED BY <1>1, <1>2 DEF Cut, Between, MidEnd

\* breakLine() on what was read of the uplink.
LEMMA ReadHolds ==
    ASSUME WireInv, NEW n \in Nat, Read(n)
    PROVE  WireInv'
<1> SUFFICES ASSUME ~lost'
    PROVE  /\ Messages(sent') /\ wire' \in Seq(Octet) /\ parsed' \in Seq(Seq(Octet))
           /\ AllInOrder(wire', sent')
           /\ \E k : CutAt(wire', sent', 1, oldData', parsed', k)
  BY DEF WireInv, CutAt
<1> DEFINE b == First(wire, n)
           s == [line |-> oldData, kept |-> <<>>, lines |-> <<>>, ended |-> FALSE]
           end == Scans(s, b)
<1>1. /\ parsed' = parsed \o end.lines /\ sent' = sent /\ n <= Len(wire)
      /\ oldData' = IF b = <<>> \/ end.ended THEN end.kept ELSE Keep(end.line)
      /\ lost' = (lost \/ (b = <<>> /\ oldData # <<>>)) /\ wire' = Without(wire, n)
  BY DEF Read, BreakLine, Scans, First, Without
<1> HIDE DEF end
<1>2. /\ ~lost /\ (b = <<>> => oldData = <<>>) /\ Messages(sent) /\ wire \in Seq(Octet) /\ parsed \in Seq(Seq(Octet))
      /\ AllInOrder(wire, sent)
      /\ \E k : CutAt(wire, sent, 1, oldData, parsed, k)
  BY <1>1 DEF WireInv
<1>3. PICK k : CutAt(wire, sent, 1, oldData, parsed, k)
  BY <1>2
<1>4. oldData \in Seq(Octet) /\ n \in 0 .. Len(wire) /\ Len(sent) \in Nat
  <2>1. oldData \in Seq(Octet)
    BY <1>2, <1>3, CutFits DEF CutAt
  <2>2. Len(wire) \in Nat
    BY <1>2
  <2>3. Len(sent) \in Nat
    BY <1>2 DEF Messages
  <2> QED BY <1>1, <2>1, <2>2, <2>3
<1>5. Begins(s) /\ s.line = oldData
  <2> DEFINE empty == <<>>
  <2>1. empty \in Seq(Octet) /\ empty \in Seq(Seq(Octet))
    OBVIOUS
  <2> HIDE DEF empty
  <2>2. [line |-> oldData, kept |-> empty, lines |-> empty, ended |-> FALSE]
          \in [line : Seq(Octet), kept : Seq(Octet), lines : Seq(Seq(Octet)), ended : BOOLEAN]
    BY <1>4, <2>1
  <2> QED BY <2>2 DEF Begins, Scanned, empty
<1> HIDE DEF s
<1>6. /\ Scanned(end) /\ (n = 0 => end = s)
      /\ \E m : CutAt(wire, sent, n + 1, end.line, parsed \o end.lines, m)
  <2>1. CutAt(wire, sent, 1, s.line, parsed, k)
    BY <1>3, <1>5
  <2>2. /\ Messages(sent) /\ wire \in Seq(Octet) /\ n \in 0 .. Len(wire) /\ parsed \in Seq(Seq(Octet))
        /\ Begins(s)
        /\ AllInOrder(wire, sent)
    BY <1>2, <1>4, <1>5
  <2>3. end = Scans(s, First(wire, n))
    BY DEF end
  <2>4. EndsAt(wire, sent, n, s, parsed, end)
    BY ONLY <2>1, <2>2, <2>3, BreakIs
  <2> QED BY <2>4 DEF EndsAt
<1>7. PICK m \in Nat : Cut(wire, sent, n + 1, end.line, m) /\ NonEmpty(parsed \o end.lines) = SubSeq(sent, 1, m)
  BY <1>6 DEF CutAt
<1>8. oldData' = end.line
  <2>1. CASE b = <<>>
    <3>1. n = 0
      <4>1. Len(b) = n
        BY <1>2, <1>4 DEF First
      <4> HIDE DEF b
      <4>2. Len(b) = 0
        BY <2>1
      <4> QED BY <4>1, <4>2
    <3>2. end.line = oldData /\ oldData = <<>> /\ end.kept = <<>>
      BY <1>2, <1>5, <1>6, <2>1, <3>1 DEF Scanned
    <3> QED BY <1>1, <2>1, <3>2
  <2>2. CASE b # <<>> /\ end.ended
    BY <1>1, <1>6, <2>2 DEF Scanned
  <2>3. CASE b # <<>> /\ ~end.ended
    <3>1. end.line \in Seq(Octet) /\ Len(end.line) < MaxLen
      BY <1>2, <1>7, CutFits
    <3> QED BY <1>1, <2>3, <3>1, KeepIs
  <2> QED BY <2>1, <2>2, <2>3
<1>9. wire' \in Seq(Octet) /\ Len(wire') = Len(wire) - n
  BY <1>1, <1>2, <1>4 DEF Without
<1>10. ASSUME NEW i \in 1 .. Len(wire') PROVE InOrder(wire', sent, i)
  <2>1. i \in Nat \ {0} /\ i + n \in 1 .. Len(wire)
    BY <1>2, <1>4, <1>9
  <2>2. /\ wire \in Seq(Octet) /\ n \in 0 .. Len(wire) /\ Len(sent) \in Nat /\ InOrder(wire, sent, i + n)
        /\ wire' = Without(wire, n)
    BY <1>1, <1>2, <1>4, <2>1 DEF AllInOrder
  <2> QED BY ONLY <2>1, <2>2, ShiftIs
<1>11. Cut(wire', sent, 1, end.line, m)
  <2>1. 1 \in Nat \ {0} /\ n + 1 = 1 + n
    BY <1>4
  <2>2. Cut(wire, sent, 1 + n, end.line, m)
    BY <1>7, <2>1
  <2>3. wire \in Seq(Octet) /\ n \in 0 .. Len(wire) /\ Len(sent) \in Nat /\ wire' = Without(wire, n)
    BY <1>1, <1>2, <1>4
  <2> QED BY ONLY <2>1, <2>2, <2>3, ShiftIs
<1>12. parsed' \in Seq(Seq(Octet))
  <2>1. end.lines \in Seq(Seq(Octet))
    BY <1>6 DEF Scanned
  <2> QED BY <1>1, <1>2, <2>1
<1> QED BY <1>1, <1>2, <1>7, <1>8, <1>9, <1>10, <1>11, <1>12 DEF CutAt, AllInOrder

\* The elements of one list behind another.
LEMMA Joined ==
    ASSUME NEW B, NEW x \in Seq(B), NEW y \in Seq(B)
    PROVE  /\ x \o y \in Seq(B) /\ Len(x) \in Nat /\ Len(y) \in Nat /\ Len(x \o y) = Len(x) + Len(y)
           /\ \A i \in 1 .. Len(x) : (x \o y)[i] = x[i]
           /\ \A j \in 1 .. Len(y) : (x \o y)[Len(x) + j] = y[j]
<1>1. Len(x) \in Nat /\ Len(y) \in Nat /\ x \o y \in Seq(B) /\ Len(x \o y) = Len(x) + Len(y)
  OBVIOUS
<1>2. ASSUME NEW i \in 1 .. Len(x) PROVE (x \o y)[i] = x[i]
  OBVIOUS
<1>3. ASSUME NEW j \in 1 .. Len(y) PROVE (x \o y)[Len(x) + j] = y[j]
  <2>1. j \in Nat /\ j > 0 /\ j <= Len(y) /\ Len(x) + j \in 1 .. Len(x) + Len(y) /\ (Len(x) + j) - Len(x) = j
    BY <1>1
  <2> QED BY <1>1, <2>1
<1> QED BY <1>1, <1>2, <1>3

\* v is the stream w with a message of n bytes more, behind those of S.
Longer(v, w, S, n) ==
    /\ v \in Seq(Octet) /\ Len(v) = Len(w) + n + 2 /\ n \in 1 .. MaxLen - 1
    /\ \A i \in 1 .. Len(w) : v[i] = w[i]
    /\ \A j \in 1 .. n : v[Len(w) + j] = <<Len(S) + 1, j>>
    /\ v[Len(w) + n + 1] = EndOfLine /\ v[Len(w) + n + 2] = EndOfLine

OneMore(R, S, n) == R = Append(S, Bytes1(Len(S) + 1, n))

\* The streams v and w are cut at the same place.
SameCut(w, S, v, R) == \A line, q, k : CutAt(w, S, 1, line, q, k) => CutAt(v, R, 1, line, q, k)

\* The uplink sends one message more.
LEMMA ExtendIs ==
    ASSUME NEW S, Messages(S), NEW w \in Seq(Octet), AllInOrder(w, S),
           NEW n, NEW R, OneMore(R, S, n), NEW v, Longer(v, w, S, n)
    PROVE  Messages(R) /\ AllInOrder(v, R) /\ SameCut(w, S, v, R)
<1> DEFINE last == Len(S) + 1
           L == Len(w)
<1>0. /\ v \in Seq(Octet) /\ Len(v) = Len(w) + n + 2 /\ n \in 1 .. MaxLen - 1
      /\ \A i \in 1 .. Len(w) : v[i] = w[i]
      /\ \A j \in 1 .. n : v[Len(w) + j] = <<Len(S) + 1, j>>
      /\ v[Len(w) + n + 1] = EndOfLine /\ v[Len(w) + n + 2] = EndOfLine
  BY DEF Longer
<1>1. /\ S \in Seq(Seq(Octet)) /\ Len(S) \in Nat /\ L \in Nat /\ MaxLen \in Nat /\ n \in Nat
      /\ last \in Nat /\ last # 0 /\ last \notin 1 .. Len(S) /\ \A k \in 1 .. Len(S) : k + 1 \in 1 .. last
  BY <1>0, LineAssumption DEF Messages
<1>2. Bytes1(last, n) \in Seq(Octet) /\ Len(Bytes1(last, n)) = n
  <2>1. \A x \in 1 .. n : <<last, x>> \in Octet
    <3>1. last \in Nat /\ \A x \in 1 .. n : x \in Nat
      BY <1>1
    <3> HIDE DEF last
    <3> QED BY ONLY <3>1 DEF Octet
  <2> QED BY <1>1, <2>1 DEF Bytes1
<1>3. /\ R \in Seq(Seq(Octet)) /\ Len(R) = last /\ R[last] = Bytes1(last, n)
      /\ \A k \in 1 .. Len(S) : R[k] = S[k]
  <2> DEFINE B == Seq(Octet)
             m == Bytes1(last, n)
  <2>1. S \in Seq(B) /\ m \in B /\ R = Append(S, m)
    BY <1>1, <1>2 DEF OneMore
  <2> HIDE DEF B, m
  <2>2. R \in Seq(B) /\ Len(R) = last /\ R[last] = m /\ \A k \in 1 .. Len(S) : R[k] = S[k]
    BY <2>1
  <2> QED BY <2>2 DEF B, m
<1>4. \A k \in 1 .. last : k \in 1 .. Len(S) \/ k = last
  BY <1>1
<1>5. Messages(R)
  <2> SUFFICES ASSUME NEW k \in 1 .. last PROVE Len(R[k]) \in 1 .. MaxLen - 1 /\ R[k] = Bytes1(k, Len(R[k]))
    BY <1>3 DEF Messages
  <2>1. CASE k \in 1 .. Len(S)
    <3>1. Len(S[k]) \in 1 .. MaxLen - 1 /\ S[k] = Bytes1(k, Len(S[k]))
      BY <2>1 DEF Messages
    <3> QED BY <1>3, <2>1, <3>1
  <2>2. CASE k = last
    BY <1>0, <1>2, <1>3, <2>2
  <2> QED BY <1>4, <2>1, <2>2
<1> HIDE DEF last, L
<1>6. /\ \A i \in 1 .. L : v[i] = w[i] /\ i \in 1 .. Len(v)
      /\ \A j \in 1 .. n : v[L + j] = <<last, j>> /\ L + j \in 1 .. Len(v)
      /\ v[L + n + 1] = EndOfLine /\ v[L + n + 2] = EndOfLine
      /\ Len(v) = L + n + 2 /\ L + n + 1 \in 1 .. Len(v) /\ L + n + 2 \in 1 .. Len(v)
  <2>1. \A i \in 1 .. L : v[i] = w[i] /\ i \in 1 .. Len(v)
    BY <1>0, <1>1 DEF L
  <2>2. \A j \in 1 .. n : v[L + j] = <<last, j>>
    BY <1>0 DEF L, last
  <2>3. Len(v) = L + n + 2 /\ v[L + n + 1] = EndOfLine /\ v[L + n + 2] = EndOfLine
    BY <1>0 DEF L
  <2>4. L \in Nat /\ n \in Nat
    BY <1>1
  <2>5. L + n + 1 \in 1 .. Len(v) /\ L + n + 2 \in 1 .. Len(v) /\ \A j \in 1 .. n : L + j \in 1 .. Len(v)
    BY ONLY <2>3, <2>4
  <2> QED BY <2>1, <2>2, <2>3, <2>5
<1>c. L \in Nat /\ n \in Nat /\ n \in 1 .. n /\ Len(v) = L + n + 2
  <2>1. n # 0
    BY <1>0
  <2> QED BY <1>1, <1>6, <2>1
<1>7. ASSUME NEW i, NEW k \in 0 .. Len(S), NextMessage(w, S, i, k) PROVE NextMessage(v, R, i, k)
  <2>1. CASE k = Len(S)
    <3>1. i = L + 1 /\ k + 1 = last /\ k # last
      BY <1>1, <1>7, <2>1 DEF NextMessage, L, last
    <3>2. v[L + 1] = <<last, 1>> /\ L + 1 \in 1 .. Len(v) /\ last \in 1 .. last
      <4>1. 1 \in 1 .. n
        BY <1>0, <1>c
      <4>2. v[L + 1] = <<last, 1>> /\ L + 1 \in 1 .. Len(v)
        BY <1>6, <4>1
      <4> QED BY <1>1, <4>2
    <3> QED BY <1>3, <3>1, <3>2 DEF NextMessage
  <2>2. CASE k # Len(S)
    <3>1. k + 1 \in 1 .. Len(S) /\ i \in 1 .. L /\ w[i] = <<k + 1, 1>>
      BY <1>7, <2>2 DEF NextMessage, L
    <3>2. k # last /\ k + 1 \in 1 .. last
      BY <1>1, <3>1 DEF last
    <3> QED BY <1>3, <1>6, <3>1, <3>2 DEF NextMessage
  <2> QED BY <2>1, <2>2
<1>8. ASSUME NEW i, NEW k \in 1 .. Len(S), NEW j, NextByte(w, S, i, k, j) PROVE NextByte(v, R, i, k, j)
  <2>1. R[k] = S[k] /\ k \in 0 .. Len(S)
    BY <1>1, <1>3
  <2>2. CASE j < Len(S[k])
    <3>1. i \in 1 .. L /\ w[i] = <<k, j + 1>>
      BY <1>8, <2>2 DEF NextByte, L
    <3> QED BY <1>6, <2>1, <2>2, <3>1 DEF NextByte
  <2>3. CASE ~(j < Len(S[k]))
    <3>1. /\ i \in 1 .. L /\ i + 1 \in 1 .. L /\ w[i] = EndOfLine /\ w[i + 1] = EndOfLine
          /\ NextMessage(w, S, i + 2, k)
      BY <1>8, <2>3 DEF NextByte, L
    <3>2. NextMessage(v, R, i + 2, k)
      BY <1>7, <2>1, <3>1
    <3> QED BY <1>6, <2>1, <2>3, <3>1, <3>2 DEF NextByte
  <2> QED BY <2>2, <2>3
<1>9. AllInOrder(v, R)
  <2> SUFFICES ASSUME NEW i \in 1 .. Len(v), v[i] # EndOfLine
               PROVE  \E k \in 1 .. Len(R) : \E j \in 1 .. Len(R[k]) : v[i] = <<k, j>> /\ NextByte(v, R, i + 1, k, j)
    BY DEF AllInOrder, InOrder
  <2>1. CASE i \in 1 .. L
    <3>1. w[i] # EndOfLine /\ v[i] = w[i] /\ InOrder(w, S, i)
      BY <1>6, <2>1 DEF AllInOrder, L
    <3>2. PICK k \in 1 .. Len(S) : \E j \in 1 .. Len(S[k]) : w[i] = <<k, j>> /\ NextByte(w, S, i + 1, k, j)
      BY <3>1 DEF InOrder
    <3>3. PICK j \in 1 .. Len(S[k]) : w[i] = <<k, j>> /\ NextByte(w, S, i + 1, k, j)
      BY <3>2
    <3>4. NextByte(v, R, i + 1, k, j)
      BY <1>8, <3>3
    <3>5. k \in 1 .. Len(R) /\ R[k] = S[k]
      BY <1>1, <1>3 DEF last
    <3> QED BY <3>1, <3>3, <3>4, <3>5
  <2>2. CASE i \in L + 1 .. L + n
    <3> DEFINE j == i - L
    <3>1. j \in 1 .. n /\ i = L + j /\ j \in Nat
      BY <1>1, <2>2
    <3> HIDE DEF j
    <3>2. v[i] = <<last, j>> /\ last \in 1 .. Len(R) /\ Len(R[last]) = n
      <4>1. last \in 1 .. Len(R)
        BY <1>1, <1>3
      <4>2. Len(R[last]) = n
        BY <1>2, <1>3
      <4>3. v[i] = <<last, j>>
        BY <1>6, <3>1
      <4> QED BY <4>1, <4>2, <4>3
    <3>3. NextByte(v, R, i + 1, last, j)
      <4>1. CASE j < n
        <5>1. j + 1 \in 1 .. n /\ L + (j + 1) = i + 1
          BY ONLY <1>c, <3>1, <4>1
        <5>2. v[L + (j + 1)] = <<last, j + 1>> /\ L + (j + 1) \in 1 .. Len(v)
          BY <1>6, <5>1
        <5> QED BY <3>2, <4>1, <5>1, <5>2 DEF NextByte
      <4>2. CASE ~(j < n)
        <5>1. i + 1 = L + n + 1 /\ (i + 1) + 1 = L + n + 2 /\ (i + 1) + 2 = Len(v) + 1
          BY ONLY <1>c, <3>1, <4>2
        <5>2. NextMessage(v, R, (i + 1) + 2, last)
          BY <1>3, <5>1 DEF NextMessage
        <5> QED BY <1>6, <3>2, <4>2, <5>1, <5>2 DEF NextByte
      <4> QED BY <4>1, <4>2
    <3> QED BY <3>1, <3>2, <3>3
  <2>3. CASE i = L + n + 1 \/ i = L + n + 2
    BY <1>6, <2>3
  <2>4. i \in 1 .. L \/ i \in L + 1 .. L + n \/ i = L + n + 1 \/ i = L + n + 2
    <3>1. i \in 1 .. L + n + 2
      BY <1>c
    <3> QED BY ONLY <1>c, <3>1
  <2> QED BY <2>1, <2>2, <2>3, <2>4
<1>10. ASSUME NEW line, NEW q, NEW k, CutAt(w, S, 1, line, q, k) PROVE CutAt(v, R, 1, line, q, k)
  <2>1. Cut(w, S, 1, line, k) /\ k \in 0 .. Len(S) /\ NonEmpty(q) = SubSeq(S, 1, k)
    BY <1>1, <1>10 DEF CutAt, Cut, Between, MidEnd, Within
  <2>2. SubSeq(R, 1, k) = SubSeq(S, 1, k)
    <3> DEFINE B == Seq(Octet)
               x == SubSeq(R, 1, k)
               y == SubSeq(S, 1, k)
    <3>1. R \in Seq(B) /\ S \in Seq(B) /\ k \in 0 .. Len(S) /\ k \in 0 .. Len(R)
      BY <1>1, <1>3, <2>1 DEF last
    <3> HIDE DEF B
    <3>2. x \in Seq(B) /\ y \in Seq(B) /\ Len(x) = k /\ Len(y) = k /\ \A i \in 1 .. k : x[i] = R[i] /\ y[i] = S[i]
      BY <3>1
    <3>3. \A i \in 1 .. k : x[i] = y[i]
      BY <1>1, <1>3, <3>1, <3>2
    <3> HIDE DEF x, y
    <3>4. x = y
      BY <3>2, <3>3
    <3> QED BY <3>4 DEF x, y
  <2>3. Cut(v, R, 1, line, k)
    <3>1. k \in 0 .. Len(R) /\ (k + 1 \in 1 .. Len(S) => R[k + 1] = S[k + 1])
      BY <1>1, <1>3, <2>1 DEF last
    <3>2. CASE Between(w, S, 1, line, k)
      BY <1>7, <2>1, <3>1, <3>2 DEF Cut, Between
    <3>3. CASE MidEnd(w, S, 1, line, k)
      <4>1. 1 \in 1 .. L /\ w[1] = EndOfLine /\ NextMessage(w, S, 1 + 1, k) /\ line = <<>>
        BY <3>3 DEF MidEnd, L
      <4>2. NextMessage(v, R, 1 + 1, k) /\ v[1] = EndOfLine /\ 1 \in 1 .. Len(v)
        BY <1>6, <1>7, <2>1, <4>1
      <4> QED BY <3>1, <4>1, <4>2 DEF Cut, MidEnd
    <3>4. CASE Within(w, S, 1, line, k)
      <4>1. k + 1 \in 1 .. Len(S) /\ k \in 0 .. Len(R) - 1
        BY <1>1, <1>3, <3>4 DEF Within, last
      <4>2. PICK j \in 1 .. Len(S[k + 1]) : line = Bytes1(k + 1, j) /\ NextByte(w, S, 1, k + 1, j)
        BY <3>4 DEF Within
      <4>3. NextByte(v, R, 1, k + 1, j)
        BY <1>8, <4>1, <4>2
      <4> QED BY <3>1, <4>1, <4>2, <4>3 DEF Cut, Within
    <3> QED BY <2>1, <3>2, <3>3, <3>4 DEF Cut
  <2> QED BY <1>10, <2>1, <2>2, <2>3 DEF CutAt
<1> QED BY <1>5, <1>9, <1>10 DEF SameCut

\* A message more is sent.
LEMMA SendHolds ==
    ASSUME WireInv, Send
    PROVE  WireInv'
<1> SUFFICES ASSUME ~lost'
    PROVE  /\ Messages(sent') /\ wire' \in Seq(Octet) /\ parsed' \in Seq(Seq(Octet)) /\ AllInOrder(wire', sent')
           /\ \E k : CutAt(wire', sent', 1, oldData', parsed', k)
  BY DEF WireInv, CutAt
<1>1. /\ ~lost /\ Messages(sent) /\ wire \in Seq(Octet) /\ parsed \in Seq(Seq(Octet)) /\ AllInOrder(wire, sent)
      /\ \E k : CutAt(wire, sent, 1, oldData, parsed, k)
  BY DEF WireInv, Send
<1>2. PICK n \in Lengths : /\ sent' = Append(sent, Bytes1(Len(sent) + 1, n))
                           /\ wire' = wire \o Bytes1(Len(sent) + 1, n) \o <<EndOfLine, EndOfLine>>
  BY DEF Send, Bytes1
<1>3. oldData' = oldData /\ parsed' = parsed
  BY DEF Send
<1> DEFINE m == Bytes1(Len(sent) + 1, n)
           e == <<EndOfLine, EndOfLine>>
           v == wire \o m \o e
<1>4. n \in 1 .. MaxLen - 1 /\ n \in Nat /\ Len(sent) \in Nat
  <2>1. n \in 1 .. MaxLen - 1 /\ MaxLen \in Nat
    BY LineAssumption
  <2>2. Len(sent) \in Nat
    BY <1>1 DEF Messages
  <2> QED BY <2>1, <2>2
<1>5. m \in Seq(Octet) /\ Len(m) = n /\ \A j \in 1 .. n : m[j] = <<Len(sent) + 1, j>>
  <2>1. \A x \in 1 .. n : <<Len(sent) + 1, x>> \in Octet
    BY <1>4 DEF Octet
  <2> QED BY <1>4, <2>1 DEF Bytes1
<1>6. e \in Seq(Octet) /\ Len(e) = 2 /\ e[1] = EndOfLine /\ e[2] = EndOfLine
  <2>1. EndOfLine \in Octet
    BY DEF EndOfLine, Octet
  <2> QED BY <2>1
<1> HIDE DEF m, e
<1>7. /\ v \in Seq(Octet) /\ Len(v) = Len(wire) + n + 2
      /\ \A i \in 1 .. Len(wire) : v[i] = wire[i]
      /\ \A j \in 1 .. n : v[Len(wire) + j] = m[j]
      /\ v[Len(wire) + n + 1] = e[1] /\ v[Len(wire) + n + 2] = e[2]
  <2> DEFINE x == wire \o m
  <2>1. /\ x \in Seq(Octet) /\ Len(x) = Len(wire) + n /\ Len(wire) \in Nat
        /\ \A i \in 1 .. Len(wire) : x[i] = wire[i]
        /\ \A j \in 1 .. n : x[Len(wire) + j] = m[j]
    <3>1. wire \in Seq(Octet) /\ m \in Seq(Octet)
      BY <1>1, <1>5
    <3>2. /\ x \in Seq(Octet) /\ Len(wire) \in Nat /\ Len(x) = Len(wire) + Len(m)
          /\ \A i \in 1 .. Len(wire) : x[i] = wire[i]
          /\ \A j \in 1 .. Len(m) : x[Len(wire) + j] = m[j]
      BY ONLY <3>1, Joined
    <3> HIDE DEF x
    <3> QED BY <1>5, <3>2
  <2> HIDE DEF x
  <2> DEFINE y == x \o e
  <2>2. /\ y \in Seq(Octet) /\ Len(y) = Len(x) + 2
        /\ \A i \in 1 .. Len(x) : y[i] = x[i]
        /\ y[Len(x) + 1] = e[1] /\ y[Len(x) + 2] = e[2]
    <3>1. x \in Seq(Octet) /\ e \in Seq(Octet) /\ 1 \in 1 .. Len(e) /\ 2 \in 1 .. Len(e)
      BY <1>6, <2>1
    <3>2. /\ y \in Seq(Octet) /\ Len(y) = Len(x) + Len(e)
          /\ \A i \in 1 .. Len(x) : y[i] = x[i]
          /\ \A j \in 1 .. Len(e) : y[Len(x) + j] = e[j]
      BY ONLY <3>1, Joined
    <3> HIDE DEF y
    <3> QED BY <1>6, <3>1, <3>2
  <2>3. y = v
    BY DEF x
  <2> HIDE DEF y, v
  <2>4. \A j \in 1 .. n : Len(wire) + j \in 1 .. Len(x)
    BY <1>4, <2>1
  <2>5. \A i \in 1 .. Len(wire) : i \in 1 .. Len(x)
    BY <1>4, <2>1
  <2> QED BY <2>1, <2>2, <2>3, <2>4, <2>5
<1>8. sent' = Append(sent, m) /\ wire' = v
  BY <1>2 DEF m, e
<1> HIDE DEF v
<1>9. Messages(sent') /\ AllInOrder(wire', sent') /\ SameCut(wire, sent, wire', sent')
  <2>1. Longer(v, wire, sent, n)
    BY <1>4, <1>5, <1>6, <1>7 DEF Longer
  <2>2. Messages(sent) /\ wire \in Seq(Octet) /\ AllInOrder(wire, sent) /\ OneMore(sent', sent, n)
    BY <1>1, <1>2 DEF OneMore
  <2>3. Messages(sent') /\ AllInOrder(v, sent') /\ SameCut(wire, sent, v, sent')
    BY ONLY <2>1, <2>2, ExtendIs
  <2> QED BY <1>8, <2>3
<1> QED BY <1>1, <1>3, <1>7, <1>8, <1>9 DEF SameCut

\* What was parsed is what was sent, as far as it came.
LEMMA WireWhole ==
    ASSUME WireInv
    PROVE  WholeLines
<1> SUFFICES ASSUME ~lost PROVE IsPrefix(Lines, sent) /\ (wire = <<>> => Lines = sent)
  BY DEF WholeLines
<1>1. PICK k : CutAt(wire, sent, 1, oldData, parsed, k)
  BY DEF WireInv
<1>2. sent \in Seq(Seq(Octet)) /\ Len(sent) \in Nat /\ wire \in Seq(Octet) /\ Messages(sent)
  BY DEF WireInv, Messages
<1>3. Cut(wire, sent, 1, oldData, k) /\ k \in 0 .. Len(sent) /\ Lines = SubSeq(sent, 1, k)
  BY <1>1, <1>2 DEF CutAt, Cut, Between, MidEnd, Within, Lines
<1> DEFINE B == Seq(Octet)
           x == SubSeq(sent, 1, k)
<1>4. sent \in Seq(B) /\ x = Lines
  BY <1>2, <1>3
<1> HIDE DEF B
<1>5. x \in Seq(B) /\ Len(x) = k /\ \A i \in 1 .. k : x[i] = sent[i]
  BY <1>3, <1>4
<1> HIDE DEF x
<1>6. SubSeq(x, 1, k) = SubSeq(sent, 1, k)
  <2> DEFINE y == SubSeq(x, 1, k)
             z == SubSeq(sent, 1, k)
  <2>1. y \in Seq(B) /\ z \in Seq(B) /\ Len(y) = k /\ Len(z) = k /\ \A i \in 1 .. k : y[i] = z[i]
    BY <1>3, <1>4, <1>5
  <2> HIDE DEF y, z
  <2>2. y = z
    BY <2>1
  <2> QED BY <2>2 DEF y, z
<1>7. IsPrefix(Lines, sent)
  BY <1>2, <1>3, <1>4, <1>5, <1>6 DEF IsPrefix
<1>8. ASSUME wire = <<>> PROVE Lines = sent
  <2>1. 1 \notin 1 .. Len(wire)
    BY <1>8
  <2>2. k = Len(sent)
    BY <1>3, <2>1 DEF Cut, Between, MidEnd, Within, NextMessage, NextByte
  <2>3. x = sent
    BY <1>4, <1>5, <2>2
  <2> QED BY <1>4, <2>3
<1> QED BY <1>7, <1>8

\* At first nothing was sent.
LEMMA WireInit ==
    ASSUME LineInit
    PROVE  WireInv
<1> DEFINE empty == <<>>
<1>1. /\ empty \in Seq(Seq(Octet)) /\ empty \in Seq(Octet) /\ Len(empty) = 0
      /\ wire = empty /\ oldData = empty /\ sent = empty /\ parsed = empty
  BY DEF LineInit
<1>2. SubSeq(sent, 1, 0) = empty
  BY <1>1
<1>3. NonEmpty(empty) = empty
  <2> HIDE DEF empty
  <2>1. PICK h : h[1 .. 0] = <<>> /\ NonEmpty(empty) = h[1 .. Len(empty)]
    BY <1>1, NonEmptyGoes
  <2> QED BY <1>1, <2>1 DEF empty
<1> HIDE DEF empty
<1>4. Messages(sent) /\ AllInOrder(wire, sent)
  BY <1>1 DEF Messages, AllInOrder
<1>5. CutAt(wire, sent, 1, oldData, parsed, 0)
  <2>1. Between(wire, sent, 1, oldData, 0)
    BY <1>1 DEF Between, NextMessage, empty
  <2> QED BY <1>1, <1>2, <1>3, <2>1 DEF CutAt, Cut
<1> QED BY <1>1, <1>4, <1>5 DEF WireInv

\* A turn reads a number of bytes, UplinkSends sends a message, and nothing else is
\* about the stream.
LEMMA WireHolds ==
    ASSUME WireInv, [Next]_vars
    PROVE  WireInv'
<1>1. ASSUME UNCHANGED lineVars PROVE WireInv'
  BY <1>1 DEF lineVars, WireInv
<1>2. ASSUME NEW n \in Bytes, NEW new \in Wanting, NEW wake \in Wakes, Turn(n, new, wake.p, wake.r)
      PROVE  WireInv'
  <2>1. n \in Nat
    BY DEF Bytes
  <2>2. Read(n)
    BY <1>2 DEF Turn
  <2> QED BY <2>1, <2>2, ReadHolds
<1>3. CASE UplinkSends
  BY <1>3, SendHolds DEF UplinkSends
<1>4. ASSUME NEW p \in Conns, Say(p) \/ Close(p) PROVE WireInv'
  BY <1>1, <1>4 DEF Say, Close
<1>5. ASSUME NEW o \in left.focus.names, Identify(o) \/ SetPass(o) \/ Drop(o) PROVE WireInv'
  BY <1>1, <1>5 DEF Identify, SetPass, Drop, Outside
<1>6. ASSUME NEW o \in left.focus.names, NEW force \in BOOLEAN, GetPass(o, force) PROVE WireInv'
  BY <1>1, <1>6 DEF GetPass, Outside
<1>7. CASE UNCHANGED vars
  BY <1>1, <1>7 DEF vars
<1> QED BY <1>2, <1>3, <1>4, <1>5, <1>6, <1>7 DEF Next

\* Wherever breakLine() finds the stream cut, what parseLine() was given is the uplink's
\* messages, whole, in the order they were sent, and all of them once nothing is left;
\* only a half line that an empty turn threw away may break this.
THEOREM StreamWhole == Spec => []WholeLines
<1>1. Init => WireInv
  BY WireInit DEF Init
<1>2. WireInv /\ [Next]_vars => WireInv'
  BY WireHolds
<1>3. WireInv => WholeLines
  BY WireWhole
<1> QED BY <1>1, <1>2, <1>3, PTL DEF Spec
=============================================================================
