-------------------------- MODULE ChanAccessProofs --------------------------
(***************************************************************************)
(* Theorems about ChanAccess: a channel in use never has a pointer to a    *)
(* registration that was freed, a nick's count of channels is right, who   *)
(* is founder by password gave the password of now, nobody hands out or    *)
(* takes a level that is not below his own, and a channel that is held or  *)
(* being transferred is left alone.                                        *)
(***************************************************************************)
EXTENDS ChanAccess, FoldLemmas

\* The identification of a registration was made with the password of now, or
\* SETREALPASS left it.
Proved(r) == r.id # NoIdent /\ ~r.real => r.id.pass = r.pass

\* A channel that is being transferred has no identification.
Sealed(r) == "xfer" \in r.flags => r.id = NoIdent

\* A command leaves of a registration what the invariants tell apart.
Keeps(r, s) ==
    /\ s \in Reg /\ s.rid = r.rid /\ s.founder = r.founder
    /\ r.plus \cap r.minus = {} => s.plus \cap s.minus = {}
    /\ Proved(r) => Proved(s)
    /\ Sealed(r) => Sealed(s)

\* ... and the password.
Tame(r, s) == Keeps(r, s) /\ s.pass = r.pass

\* Tame is a preorder on registrations.
LEMMA TameTwice ==
    ASSUME NEW r, NEW s, NEW t, Tame(r, s), Tame(s, t)
    PROVE  Tame(r, t)
BY DEF Tame, Keeps

\* An identification is one, or none.
LEMMA NoIdentIn ==
    /\ NoIdent \in [nick : Nicks \cup {""}, num : 0 .. MaxSession, fresh : BOOLEAN, pass : 0 .. MaxPass]
    /\ NoIdent.num = 0 /\ NoIdent.nick = ""
BY ConstantsAssumption DEF NoIdent

\* Without its identification a registration is as good.
LEMMA ClearedTame ==
    ASSUME NEW r \in Reg
    PROVE  Tame(r, [r EXCEPT !.id = NoIdent])
<1> DEFINE s == [r EXCEPT !.id = NoIdent]
<1>1. s \in Reg
  BY NoIdentIn DEF Reg
<1>2. /\ s.rid = r.rid /\ s.founder = r.founder /\ s.plus = r.plus /\ s.minus = r.minus
      /\ s.id = NoIdent /\ s.pass = r.pass
  BY DEF Reg
<1> SUFFICES Tame(r, s)
  OBVIOUS
<1> HIDE DEF s
<1>3. Proved(s)
  BY <1>2 DEF Proved
<1>4. Sealed(s)
  BY <1>2 DEF Sealed
<1> QED BY <1>1, <1>2, <1>3, <1>4 DEF Tame, Keeps

\* isFounder() may clear an identification, and no more.
LEMMA LookedTame ==
    ASSUME NEW r \in Reg, NEW u, NEW ov
    PROVE  Tame(r, Looked(r, u, ov)) /\ Looked(r, u, ov) \in Reg
<1>1. Tame(r, r)
  BY DEF Tame, Keeps
<1>2. Looked(r, u, ov) = [r EXCEPT !.id = NoIdent] \/ Looked(r, u, ov) = r
  BY DEF Looked
<1> QED BY <1>1, <1>2, ClearedTame DEF Tame, Keeps

ChanFlags == {"ident", "hold", "banish", "close", "mark", "xfer", "encrypt"}

\* The fields that no invariant tells apart.
LEMMA FieldsTame ==
    ASSUME NEW r \in Reg
    PROVE  /\ \A x \in [0 .. MaxId -> 0 .. 15] : Tame(r, [r EXCEPT !.ops = x])
           /\ \A x \in SUBSET Users : Tame(r, [r EXCEPT !.akicks = x])
           /\ \A x \in 0 .. MaxKey : Tame(r, [r EXCEPT !.key = x])
           /\ \A x \in SUBSET ChanFlags :
                 ("xfer" \in x => "xfer" \in r.flags) => Tame(r, [r EXCEPT !.flags = x])
           /\ \A x \in BOOLEAN : Tame(r, [r EXCEPT !.facc = x])
           /\ \A x \in 0 .. 15 : /\ Tame(r, [r EXCEPT !.restrict = x])
                                 /\ Tame(r, [r EXCEPT !.tlock = x])
                                 /\ Tame(r, [r EXCEPT !.memo = x])
           /\ \A x \in BOOLEAN : Tame(r, [r EXCEPT !.old = x])
           /\ \A x \in Users \cup {"none"} : Tame(r, [r EXCEPT !.topic = x])
<1>1. ASSUME NEW x \in [0 .. MaxId -> 0 .. 15] PROVE Tame(r, [r EXCEPT !.ops = x])
  BY DEF Tame, Keeps, Proved, Sealed, Reg, ChanFlags
<1>2. ASSUME NEW x \in SUBSET Users PROVE Tame(r, [r EXCEPT !.akicks = x])
  BY DEF Tame, Keeps, Proved, Sealed, Reg, ChanFlags
<1>3. ASSUME NEW x \in 0 .. MaxKey PROVE Tame(r, [r EXCEPT !.key = x])
  BY DEF Tame, Keeps, Proved, Sealed, Reg, ChanFlags
<1>4. ASSUME NEW x \in SUBSET ChanFlags, "xfer" \in x => "xfer" \in r.flags PROVE Tame(r, [r EXCEPT !.flags = x])
  <2> DEFINE s == [r EXCEPT !.flags = x]
  <2>1. s \in Reg
    BY DEF Reg, ChanFlags
  <2>2. /\ s.rid = r.rid /\ s.founder = r.founder /\ s.plus = r.plus /\ s.minus = r.minus
        /\ s.id = r.id /\ s.pass = r.pass /\ s.real = r.real /\ s.flags = x
    BY DEF Reg
  <2> SUFFICES Tame(r, s)
    OBVIOUS
  <2> HIDE DEF s
  <2>3. Proved(r) => Proved(s)
    BY <2>2 DEF Proved
  <2>4. Sealed(r) => Sealed(s)
    BY <1>4, <2>2 DEF Sealed
  <2> QED BY <2>1, <2>2, <2>3, <2>4 DEF Tame, Keeps
<1>5. ASSUME NEW x \in BOOLEAN PROVE Tame(r, [r EXCEPT !.facc = x])
  BY DEF Tame, Keeps, Proved, Sealed, Reg, ChanFlags
<1>6. ASSUME NEW x \in 0 .. 15 PROVE Tame(r, [r EXCEPT !.restrict = x])
  BY DEF Tame, Keeps, Proved, Sealed, Reg, ChanFlags
<1>7. ASSUME NEW x \in 0 .. 15 PROVE Tame(r, [r EXCEPT !.tlock = x])
  BY DEF Tame, Keeps, Proved, Sealed, Reg, ChanFlags
<1>8. ASSUME NEW x \in 0 .. 15 PROVE Tame(r, [r EXCEPT !.memo = x])
  BY DEF Tame, Keeps, Proved, Sealed, Reg, ChanFlags
<1>9. ASSUME NEW x \in BOOLEAN PROVE Tame(r, [r EXCEPT !.old = x])
  BY DEF Tame, Keeps, Proved, Sealed, Reg, ChanFlags
<1>10. ASSUME NEW x \in Users \cup {"none"} PROVE Tame(r, [r EXCEPT !.topic = x])
  BY DEF Tame, Keeps, Proved, Sealed, Reg, ChanFlags
<1> QED BY <1>1, <1>2, <1>3, <1>4, <1>5, <1>6, <1>7, <1>8, <1>9, <1>10

\* What the other handlers rely on: the types, whoever is online goes by a nick,
\* and nothing has a number beyond the last one handed out.
TopOK ==
    /\ top \in [session : 0 .. MaxSession, id : 0 .. MaxId, reg : 0 .. MaxReg,
                pass : 0 .. MaxPass, key : 0 .. MaxKey]
    /\ moved \in BOOLEAN
NamesOK == \A u \in Users : Online(u) => users[u].nick \in Nicks
NumbersOK ==
    /\ \A n \in Nicks : ident[n] <= top.id
    /\ \A c \in Chans : Registered(c) => reg[c].founder <= top.id /\ reg[c].pass <= top.pass
Shape == TypeOK /\ TopOK /\ NamesOK /\ NumbersOK

\* Every registration has the identification it should have.
Trusted == \A c \in Chans : Registered(c) => Proved(reg[c]) /\ Sealed(reg[c])

\* The inductive invariant.
AccessInv == Shape /\ PointersAgree /\ LocksExclusive /\ Trusted /\ ChansCounted

\* The number of the nick a user goes by.
LEMMA OwnIn ==
    ASSUME Shape, NEW u \in Users, Online(u)
    PROVE  users[u].nick \in Nicks /\ Own(u) \in 0 .. MaxId
BY DEF Shape, NamesOK, TypeOK, Own

\* What is registered is a registration.
LEMMA RegIn ==
    ASSUME TypeOK, NEW c \in Chans
    PROVE  /\ Registered(c) => reg[c] \in Reg /\ reg[c].rid \in 1 .. MaxReg /\ reg[c].founder \in 0 .. MaxId
           /\ ~Registered(c) => reg[c] = NoReg /\ reg[c].rid = 0
<1>1. reg[c] \in Reg \cup {NoReg}
  BY DEF TypeOK
<1>2. NoReg.rid = 0
  BY DEF NoReg
<1>3. Registered(c) => reg[c] \in Reg
  BY <1>1 DEF Registered
<1> QED BY <1>2, <1>3 DEF Registered, Reg

\* The highest of some levels.
LEMMA TopIn ==
    ASSUME NEW S \in SUBSET (0 .. 15)
    PROVE  Top(S) \in S \cup {0} /\ \A x \in S : x <= Top(S)
<1> DEFINE U == S \cup {0}
           T == {x + 1 : x \in U}
<1>1. T \in SUBSET (1 .. 16) /\ T # {}
  OBVIOUS
<1>2. PICK m \in T : \A k \in T : m >= k
  <2> HIDE DEF T
  <2> QED BY <1>1, NatMax
<1>3. m - 1 \in U /\ \A x \in U : m - 1 >= x
  <2>1. \A x \in U : x + 1 \in T
    OBVIOUS
  <2>2. PICK y \in U : m = y + 1
    OBVIOUS
  <2>3. U \subseteq 0 .. 15
    OBVIOUS
  <2> HIDE DEF T, U
  <2>4. \A x \in U : m >= x + 1
    BY <1>2, <2>1
  <2> QED BY <2>2, <2>3, <2>4
<1>4. U \subseteq 0 .. 15
  OBVIOUS
<1> HIDE DEF U
<1>5. Max(U) \in U /\ \A x \in U : Max(U) >= x
  BY <1>3, <1>4 DEF Max
<1> QED BY <1>4, <1>5 DEF Top, U

\* An access is a level, or -1.
LEMMA AccessIn ==
    ASSUME Shape, NEW r \in Reg, NEW u \in Users, NEW ov, NEW byId
    PROVE  Access(r, u, ov, byId) \in -1 .. 15
<1>1. r.ops \in [0 .. MaxId -> 0 .. 15]
  BY DEF Reg
<1>2. \A i \in 0 .. MaxId : Lesser(AOP, r.ops[i]) \in 0 .. 15
  <2> SUFFICES ASSUME NEW i \in 0 .. MaxId PROVE Lesser(AOP, r.ops[i]) \in 0 .. 15
    OBVIOUS
  <2>1. r.ops[i] \in 0 .. 15
    BY <1>1
  <2> QED BY <2>1 DEF Lesser, AOP
<1>3. IsReg(u) => Own(u) \in 0 .. MaxId
  BY OwnIn DEF IsReg
<1>4. Remote(u) \in 0 .. MaxId
  <2>1. users[u].remote \in 0 .. MaxId /\ MaxId \in Nat
    BY ConstantsAssumption DEF Shape, TypeOK
  <2> QED BY <2>1 DEF Remote
<1>5. \A n \in Masks[u] : ident[n] \in 0 .. MaxId
  BY ConstantsAssumption DEF Shape, TypeOK
<1>6. Identified(u) => IsReg(u)
  BY DEF Identified
<1>7. Recognized(u) => IsReg(u)
  BY DEF Recognized
<1>8. ById(r, u) \in SUBSET (0 .. 15)
  <2>1. Remote(u) # 0 => r.ops[Remote(u)] \in 0 .. 15
    BY <1>1, <1>4
  <2>2. IsReg(u) => r.ops[Own(u)] \in 0 .. 15 /\ Lesser(AOP, r.ops[Own(u)]) \in 0 .. 15
    BY <1>1, <1>2, <1>3
  <2> QED BY <1>6, <2>1, <2>2 DEF ById
<1>9. ByMask(r, u) \in SUBSET (0 .. 15)
  <2>1. Remote(u) # 0 => r.ops[Remote(u)] \in 0 .. 15
    BY <1>1, <1>4
  <2>2. IsReg(u) => r.ops[Own(u)] \in 0 .. 15 /\ Lesser(AOP, r.ops[Own(u)]) \in 0 .. 15
    BY <1>1, <1>2, <1>3
  <2>3. \A n \in Masks[u] : r.ops[ident[n]] \in 0 .. 15
    BY <1>1, <1>5
  <2> QED BY <1>7, <2>1, <2>2, <2>3 DEF ByMask
<1>10. Top(ById(r, u)) \in 0 .. 15
  BY <1>8, TopIn
<1>11. Top(ByMask(r, u)) \in 0 .. 15
  BY <1>9, TopIn
<1>12. Top(IF byId THEN ById(r, u) ELSE ByMask(r, u)) \in 0 .. 15
  BY <1>10, <1>11
<1> QED BY <1>12 DEF Access, FOUNDER

\* The levels that commands ask for.
LEMMA CommandLevelIn ==
    ASSUME NEW a \in Aliases, NEW l \in Levels
    PROVE  CommandLevel(a, l) \in -1 .. 15
<1>1. a \in 0 .. 15 /\ l \in -1 .. 15
  BY ConstantsAssumption
<1> QED BY <1>1 DEF CommandLevel, FOUNDER, MAOP, AOP, MSOP, SOP, MFOUNDER

\* The modes of SET MLOCK while its argument is read.
LockModes == {"n", "t", "k", "H"}
Lock == [plus : SUBSET LockModes, minus : SUBSET LockModes, on : BOOLEAN, reset : BOOLEAN]
Apart(l) == l.plus \cap l.minus = {}

\* One character locks no mode both on and off.
LEMMA LockCharApart ==
    ASSUME NEW l \in Lock, NEW ch \in {"=", "+", "-", "n", "t", "k", "H"}
    PROVE  LockChar(l, ch) \in Lock /\ (Apart(l) => Apart(LockChar(l, ch)))
<1>1. l.plus \in SUBSET LockModes /\ l.minus \in SUBSET LockModes
  BY DEF Lock
<1>2. CASE ch = "=" /\ ~l.reset
  <2>1. LockChar(l, ch) = [l EXCEPT !.plus = {}, !.minus = {}, !.reset = TRUE]
    BY <1>2 DEF LockChar
  <2> QED BY <1>1, <2>1 DEF Lock, Apart
<1>3. CASE ~(ch = "=" /\ ~l.reset) /\ ch \in {"=", "+", "-"}
  <2>1. LockChar(l, ch) = [l EXCEPT !.on = ch # "-"]
    BY <1>3 DEF LockChar
  <2> QED BY <1>1, <2>1 DEF Lock, Apart
<1>4. CASE ch \notin {"=", "+", "-"}
  <2>1. ch \in LockModes
    BY <1>4 DEF LockModes
  <2>2. \/ LockChar(l, ch) = [l EXCEPT !.plus = l.plus \cup {ch}, !.minus = l.minus \ {ch}]
        \/ LockChar(l, ch) = [l EXCEPT !.minus = l.minus \cup {ch}, !.plus = l.plus \ {ch}]
    BY <1>4 DEF LockChar
  <2>3. CASE LockChar(l, ch) = [l EXCEPT !.plus = l.plus \cup {ch}, !.minus = l.minus \ {ch}]
    BY <1>1, <2>1, <2>3 DEF Lock, Apart
  <2>4. CASE LockChar(l, ch) = [l EXCEPT !.minus = l.minus \cup {ch}, !.plus = l.plus \ {ch}]
    BY <1>1, <2>1, <2>4 DEF Lock, Apart
  <2> QED BY <2>2, <2>3, <2>4
<1> QED BY <1>2, <1>3, <1>4

\* The whole argument of SET MLOCK does not either.
LEMMA LocksApart ==
    ASSUME NEW arg \in Locks, NEW b \in Lock, Apart(b)
    PROVE  FoldLeft(LockChar, b, arg) \in Lock /\ Apart(FoldLeft(LockChar, b, arg))
<1> DEFINE S == DOMAIN arg
           pick == [T \in SUBSET S |-> Max(T)]
           F == [p \in S \X Lock |-> LockChar(p[2], arg[p[1]])]
           W == [T \in SUBSET S |-> {l \in Lock : Apart(l)}]
<1>1. arg \in Seq({"=", "+", "-", "n", "t", "k", "H"})
  BY ConstantsAssumption
<1>2. /\ S = 1 .. Len(arg) /\ Len(arg) \in Nat
      /\ \A i \in S : arg[i] \in {"=", "+", "-", "n", "t", "k", "H"}
  BY <1>1
<1>3. IsFiniteSet(S)
  BY <1>2, FS_Interval
<1>4. Picks(pick, S)
  <2> SUFFICES ASSUME NEW T \in SUBSET S, T # {} PROVE Max(T) \in T
    BY DEF Picks
  <2>1. T \in SUBSET (1 .. Len(arg))
    BY <1>2
  <2>2. \E m \in T : \A k \in T : m >= k
    BY <1>2, <2>1, NatMax
  <2> QED BY <2>2 DEF Max
<1> HIDE DEF S
<1>5. F \in [S \X Lock -> Lock]
  <2>1. ASSUME NEW p \in S \X Lock PROVE LockChar(p[2], arg[p[1]]) \in Lock
    BY <1>2, <2>1, LockCharApart
  <2> HIDE DEF Lock
  <2> QED BY <2>1
<1>6. PICK g \in [SUBSET S -> Lock] : Folds(g, S, pick, b, F)
  <2> HIDE DEF pick, F
  <2> QED BY <1>3, <1>4, <1>5, FoldExists
<1>7. g = [T \in SUBSET S |-> IF T = {} THEN b ELSE LockChar(g[T \ {Max(T)}], arg[Max(T)])]
  <2>1. ASSUME NEW T \in SUBSET S, T # {}
        PROVE  F[<<pick[T], g[T \ {pick[T]}]>>] = LockChar(g[T \ {Max(T)}], arg[Max(T)])
    <3>1. pick[T] = Max(T) /\ Max(T) \in S /\ g[T \ {Max(T)}] \in Lock
      BY <1>4, <2>1 DEF Picks
    <3> HIDE DEF pick, Lock
    <3>2. <<Max(T), g[T \ {Max(T)}]>> \in S \X Lock
      BY <3>1
    <3> QED BY <3>1, <3>2
  <2> HIDE DEF F
  <2> QED BY <1>6, <2>1 DEF Folds
<1>8. PICK h : /\ h = [T \in SUBSET S |-> IF T = {} THEN b ELSE LockChar(h[T \ {Max(T)}], arg[Max(T)])]
               /\ FoldLeft(LockChar, b, arg) = h[S]
  <2> HIDE DEF pick, F
  <2> QED BY <1>7 DEF FoldLeft, MapThenFoldSet, S
<1>9. h[{}] \in W[{}]
  <2>1. h[{}] = b
    BY <1>8
  <2> QED BY <2>1
<1>10. ASSUME NEW T \in SUBSET S, T # {}, h[T \ {pick[T]}] \in W[T \ {pick[T]}]
       PROVE  h[T] \in W[T]
  <2> DEFINE l == h[T \ {Max(T)}]
  <2>1. h[T] = LockChar(l, arg[Max(T)]) /\ Max(T) \in S
    BY <1>4, <1>8, <1>10 DEF Picks
  <2>2. l \in Lock /\ Apart(l)
    BY <1>10
  <2> HIDE DEF l
  <2> QED BY <1>2, <2>1, <2>2, LockCharApart
<1>11. h[S] \in W[S]
  <2> HIDE DEF pick, W
  <2> QED BY <1>3, <1>4, <1>9, <1>10, FoldInduct
<1> QED BY <1>8, <1>11

\* No operator is there, and the channel is being transferred.
Calm == \A u \in Opers : ~Online(u)
Closed(r) == "xfer" \in r.flags /\ Calm

\* Two records of a channel that differ in no more than a use or a topic.
Same(r, s) ==
    [s EXCEPT !.old = FALSE, !.topic = "none"] = [r EXCEPT !.old = FALSE, !.topic = "none"]

\* What an operation on one registration does to the rest of the state.
Frame(c) ==
    /\ UNCHANGED <<ident, chans, moved>>
    /\ users' = users \/ \E u \in Users : users' = [users EXCEPT ![u] = Off]
    /\ ptr' = ptr \/ (ptr[c] # -1 /\ ptr' = [ptr EXCEPT ![c] = reg[c].rid])
    /\ trig' \in [Chans -> [ops : 0 .. OpLimit + 1, aks : 0 .. AkickLimit + 1]]
    /\ top' \in [session : 0 .. MaxSession, id : 0 .. MaxId, reg : 0 .. MaxReg,
                 pass : 0 .. MaxPass, key : 0 .. MaxKey]
    /\ top'.id = top.id /\ top.pass <= top'.pass

\* An operation that changes one registration, and leaves it in order.
EditsTo(c, s) ==
    /\ Keeps(reg[c], s) /\ Put(c, s)
    /\ s.pass <= top'.pass
    /\ Closed(reg[c]) /\ s.pass = reg[c].pass => Same(reg[c], s)
Edits(c) == Registered(c) /\ Frame(c) /\ \E s \in Reg : EditsTo(c, s)

\* A change that keeps the password is an edit.
LEMMA TameEdits ==
    ASSUME Shape, NEW c \in Chans, Registered(c), NEW s, Tame(reg[c], s), Put(c, s), Frame(c),
           Closed(reg[c]) => Same(reg[c], s)
    PROVE  Edits(c)
<1>1. reg[c] \in Reg
  BY RegIn DEF Shape
<1>2. reg[c].pass <= top.pass /\ reg[c].pass \in 0 .. MaxPass
  BY <1>1 DEF Shape, NumbersOK, Reg
<1>3. top.pass \in 0 .. MaxPass /\ top'.pass \in 0 .. MaxPass /\ top.pass <= top'.pass
  BY DEF Shape, TopOK, Frame
<1>4. s.pass = reg[c].pass /\ Keeps(reg[c], s) /\ s \in Reg
  BY DEF Tame, Keeps
<1>5. s.pass <= top'.pass
  <2>1. MaxPass \in Nat
    BY ConstantsAssumption
  <2> QED BY <1>2, <1>3, <1>4, <2>1
<1> QED BY <1>4, <1>5 DEF Edits, EditsTo

\* A command that changes only the registration leaves the rest.
LEMMA OnlyFrame ==
    ASSUME Shape, NEW c, Only
    PROVE  Frame(c)
<1>1. top' = top /\ top \in [session : 0 .. MaxSession, id : 0 .. MaxId, reg : 0 .. MaxReg,
                             pass : 0 .. MaxPass, key : 0 .. MaxKey]
  BY DEF Shape, TopOK, Only
<1>2. top.pass \in Int
  <2>1. top.pass \in 0 .. MaxPass
    BY <1>1
  <2> QED BY <2>1, ConstantsAssumption
<1>3. trig' = trig /\ trig \in [Chans -> [ops : 0 .. OpLimit + 1, aks : 0 .. AkickLimit + 1]]
  BY DEF Shape, TypeOK, Only
<1>4. UNCHANGED <<ident, chans, moved, users, ptr>>
  BY DEF Only
<1> QED BY <1>1, <1>2, <1>3, <1>4 DEF Frame

\* So does SET, but for the pointer.
LEMMA SetFrame ==
    ASSUME Shape, NEW u, NEW ov, NEW c, NEW s, Set(u, ov, c, s), UNCHANGED <<chans, top>>
    PROVE  Frame(c) /\ Put(c, s)
<1>1. top' = top /\ top \in [session : 0 .. MaxSession, id : 0 .. MaxId, reg : 0 .. MaxReg,
                             pass : 0 .. MaxPass, key : 0 .. MaxKey]
  BY DEF Shape, TopOK
<1>2. top.pass \in Int
  <2>1. top.pass \in 0 .. MaxPass
    BY <1>1
  <2> QED BY <2>1, ConstantsAssumption
<1>3. trig' = trig /\ trig \in [Chans -> [ops : 0 .. OpLimit + 1, aks : 0 .. AkickLimit + 1]]
  BY DEF Shape, TypeOK, Set
<1>4. UNCHANGED <<ident, chans, moved, users>>
  BY DEF Set
<1>5. ptr' = ptr \/ (ptr[c] # -1 /\ ptr' = [ptr EXCEPT ![c] = reg[c].rid])
  BY DEF Set
<1> QED BY <1>1, <1>2, <1>3, <1>4, <1>5 DEF Frame, Set

\* While a channel is being transferred and no operator is there, everybody is refused.
LEMMA ClosedOut ==
    ASSUME NEW r, NEW u \in Users, NEW ov, Online(u), ov => IsOper(u), Sealed(r), Closed(r)
    PROVE  /\ ~IsOper(u) /\ ~ov
           /\ ~isFounder(r, u, ov) /\ getChanOp(r, u, ov) = 0 /\ getChanOpId(r, u, ov) = 0
           /\ Looked(r, u, ov) = r
           /\ \A need : "oacc" \in need \/ "oper" \in need => ~opFlagged(u, ov, need)
<1>1. ~IsOper(u) /\ ~ov
  BY DEF Closed, Calm, IsOper
<1>2. \A need : "oacc" \in need \/ "oper" \in need => ~opFlagged(u, ov, need)
  BY <1>1 DEF opFlagged
<1>3. Shut(r, u, ov)
  BY <1>2 DEF Shut, Closed
<1>4. ~isFounder(r, u, ov) /\ Looked(r, u, ov) = r
  BY <1>3 DEF isFounder, Looked
<1>5. getChanOp(r, u, ov) = 0 /\ getChanOpId(r, u, ov) = 0
  BY <1>3, <1>4 DEF getChanOp, getChanOpId, Access
<1> QED BY <1>1, <1>2, <1>4, <1>5

\* The channels a registered nick founded.
Founded(i) == {c \in Chans : Registered(c) /\ reg[c].founder = i}

\* What Protected says of a step.
ProtectedStep ==
    \A c \in Chans : Registered(c) =>
        /\ /\ "xfer" \in reg[c].flags /\ \A u \in Opers : ~Online(u)
           /\ reg'[c] # NoReg /\ reg'[c].pass = reg[c].pass
           => [reg'[c] EXCEPT !.old = FALSE, !.topic = "none"] = [reg[c] EXCEPT !.old = FALSE, !.topic = "none"]
        /\ "hold" \in reg[c].flags /\ reg'[c] = NoReg => \E u \in Users : isRoot(u)

\* An edit preserves the invariant, and heeds a transfer.
LEMMA EditsHold ==
    ASSUME AccessInv, NEW c \in Chans, Edits(c)
    PROVE  AccessInv' /\ ProtectedStep
<1> USE DEF AccessInv, Shape
<1>1. PICK s \in Reg : EditsTo(c, s)
  BY DEF Edits
<1>2. reg' = [reg EXCEPT ![c] = s] /\ reg \in [Chans -> Reg \cup {NoReg}]
  BY <1>1 DEF EditsTo, Put, TypeOK
<1>3. reg[c] \in Reg /\ reg[c].rid \in 1 .. MaxReg /\ Registered(c)
  BY RegIn DEF Edits
<1>4. NoReg \notin Reg
  BY DEF NoReg, Reg
<1>5. /\ s.rid = reg[c].rid /\ s.founder = reg[c].founder
      /\ reg[c].plus \cap reg[c].minus = {} => s.plus \cap s.minus = {}
      /\ Proved(reg[c]) => Proved(s)
      /\ Sealed(reg[c]) => Sealed(s)
      /\ s.pass <= top'.pass
      /\ Closed(reg[c]) /\ s.pass = reg[c].pass => Same(reg[c], s)
  BY <1>1 DEF EditsTo, Keeps
<1>6. Frame(c)
  BY DEF Edits
<1>7. reg'[c] = s /\ \A d \in Chans : d # c => reg'[d] = reg[d]
  BY <1>2
<1>8. \A d \in Chans : Registered(d)' <=> Registered(d)
  BY <1>3, <1>4, <1>7 DEF Registered
<1>9. \A d \in Chans : reg'[d].founder = reg[d].founder /\ reg'[d].rid = reg[d].rid
  BY <1>5, <1>7
<1>10. TypeOK'
  <2>1. users' \in [Users -> [nick : Nicks \cup {""}, num : 0 .. MaxSession, acc : 0 .. 3, remote : 0 .. MaxId]]
    <3>1. users \in [Users -> [nick : Nicks \cup {""}, num : 0 .. MaxSession, acc : 0 .. 3, remote : 0 .. MaxId]]
      BY DEF TypeOK
    <3>2. Off \in [nick : Nicks \cup {""}, num : 0 .. MaxSession, acc : 0 .. 3, remote : 0 .. MaxId]
      BY ConstantsAssumption DEF Off
    <3> QED BY <1>6, <3>1, <3>2 DEF Frame
  <2>2. reg' \in [Chans -> Reg \cup {NoReg}]
    BY <1>2
  <2>3. ptr' \in [Chans -> -1 .. MaxReg]
    <3>1. ptr \in [Chans -> -1 .. MaxReg]
      BY DEF TypeOK
    <3>2. reg[c].rid \in -1 .. MaxReg
      BY <1>3, ConstantsAssumption
    <3> QED BY <1>6, <3>1, <3>2 DEF Frame
  <2>4. ident' \in [Nicks -> 0 .. MaxId] /\ chans' \in [0 .. MaxId -> Int]
    BY <1>6 DEF Frame, TypeOK
  <2>5. trig' \in [Chans -> [ops : 0 .. OpLimit + 1, aks : 0 .. AkickLimit + 1]]
    BY <1>6 DEF Frame
  <2> QED BY <2>1, <2>2, <2>3, <2>4, <2>5 DEF TypeOK
<1>11. TopOK'
  BY <1>6 DEF Frame, TopOK
<1>12. NamesOK'
  <2> SUFFICES ASSUME NEW u \in Users, Online(u)' PROVE users'[u].nick \in Nicks
    BY DEF NamesOK
  <2>1. users'[u] = users[u]
    <3>1. users \in [Users -> [nick : Nicks \cup {""}, num : 0 .. MaxSession, acc : 0 .. 3, remote : 0 .. MaxId]]
      BY DEF TypeOK
    <3>2. Off.num = 0
      BY DEF Off
    <3>3. ASSUME NEW v \in Users, users' = [users EXCEPT ![v] = Off] PROVE users'[u] = users[u]
      BY <3>1, <3>2, <3>3 DEF Online
    <3> QED BY <1>6, <3>3 DEF Frame
  <2> QED BY <2>1 DEF NamesOK, Online
<1>13. NumbersOK'
  <2>1. ident' = ident /\ top'.id = top.id /\ top.pass <= top'.pass
    BY <1>6 DEF Frame
  <2>2. \A n \in Nicks : ident'[n] <= top'.id
    BY <2>1 DEF NumbersOK
  <2>3. ASSUME NEW d \in Chans, Registered(d)' PROVE reg'[d].founder <= top'.id /\ reg'[d].pass <= top'.pass
    <3>1. Registered(d) /\ reg[d] \in Reg
      BY <1>8, <2>3, RegIn
    <3>2. reg[d].founder <= top.id /\ reg[d].pass <= top.pass
      BY <3>1 DEF NumbersOK
    <3>3. reg'[d].founder <= top'.id
      BY <1>9, <2>1, <3>2
    <3>4. top.pass \in Int /\ top'.pass \in Int /\ reg[d].pass \in Int
      <4>1. top.pass \in 0 .. MaxPass /\ top'.pass \in 0 .. MaxPass /\ reg[d].pass \in 0 .. MaxPass
        BY <1>11, <3>1 DEF TopOK, Reg
      <4> QED BY <4>1, ConstantsAssumption
    <3>5. reg'[d].pass <= top'.pass
      <4>1. CASE d = c
        BY <1>5, <1>7, <4>1
      <4>2. CASE d # c
        BY <1>7, <2>1, <3>2, <3>4, <4>2
      <4> QED BY <4>1, <4>2
    <3> QED BY <3>3, <3>5
  <2> QED BY <2>2, <2>3 DEF NumbersOK
<1>14. PointersAgree'
  <2> SUFFICES ASSUME NEW d \in Chans, ptr'[d] # -1 PROVE ptr'[d] = reg'[d].rid
    BY DEF PointersAgree
  <2>1. CASE ptr' = ptr
    BY <1>9, <2>1 DEF PointersAgree
  <2>2. CASE ptr[c] # -1 /\ ptr' = [ptr EXCEPT ![c] = reg[c].rid]
    <3>1. ptr \in [Chans -> -1 .. MaxReg]
      BY DEF TypeOK
    <3> QED BY <1>9, <2>2, <3>1 DEF PointersAgree
  <2> QED BY <1>6, <2>1, <2>2 DEF Frame
<1>15. LocksExclusive'
  <2> SUFFICES ASSUME NEW d \in Chans, Registered(d)' PROVE reg'[d].plus \cap reg'[d].minus = {}
    BY DEF LocksExclusive
  <2>1. reg[d].plus \cap reg[d].minus = {}
    BY <1>8 DEF LocksExclusive
  <2> QED BY <1>5, <1>7, <2>1
<1>16. Trusted'
  <2> SUFFICES ASSUME NEW d \in Chans, Registered(d)' PROVE Proved(reg'[d]) /\ Sealed(reg'[d])
    BY DEF Trusted
  <2>1. Proved(reg[d]) /\ Sealed(reg[d])
    BY <1>8 DEF Trusted
  <2> QED BY <1>5, <1>7, <2>1
<1>17. ChansCounted'
  <2>1. ident' = ident /\ chans' = chans /\ moved' = moved
    BY <1>6 DEF Frame
  <2>2. \A i : Founded(i)' = Founded(i)
    BY <1>8, <1>9 DEF Founded
  <2> QED BY <2>1, <2>2 DEF ChansCounted, Founded
<1>18. ProtectedStep
  <2> SUFFICES ASSUME NEW d \in Chans, Registered(d)
               PROVE  /\ Closed(reg[d]) /\ reg'[d].pass = reg[d].pass => Same(reg[d], reg'[d])
                      /\ reg'[d] # NoReg
    BY DEF ProtectedStep, Closed, Calm, Same
  <2>1. reg'[d] # NoReg
    BY <1>8 DEF Registered
  <2>2. Same(reg[d], reg[d])
    BY DEF Same
  <2> QED BY <1>5, <1>7, <2>1, <2>2
<1> QED BY <1>10, <1>11, <1>12, <1>13, <1>14, <1>15, <1>16, <1>17, <1>18
-----------------------------------------------------------------------------
(* The commands that edit one registration.                                  *)

\* Who gives a command is online, by a nick that is registered, and the channel is.
LEMMA Asked ==
    ASSUME AccessInv, NEW g, NEW u \in Users, NEW ov, NEW c \in Chans, Ask(g, u, ov, c)
    PROVE  /\ Registered(c) /\ reg[c] \in Reg /\ Proved(reg[c]) /\ Sealed(reg[c])
           /\ Online(u) /\ IsReg(u) /\ users[u].nick \in Nicks
           /\ Own(u) \in 0 .. MaxId /\ Own(u) # 0
           /\ ov => IsOper(u)
<1>1. Registered(c) /\ IsReg(u) /\ Overrides(u, ov)
  BY DEF Ask
<1>2. reg[c] \in Reg
  BY <1>1, RegIn DEF AccessInv, Shape
<1>3. Proved(reg[c]) /\ Sealed(reg[c])
  BY <1>1 DEF AccessInv, Trusted
<1>4. Online(u) /\ Own(u) # 0
  BY <1>1 DEF IsReg
<1>5. users[u].nick \in Nicks /\ Own(u) \in 0 .. MaxId
  BY <1>4, OwnIn DEF AccessInv
<1>6. ov => IsOper(u)
  BY <1>1 DEF Overrides
<1> QED BY <1>1, <1>2, <1>3, <1>4, <1>5, <1>6

\* ... and is refused when it is being transferred and no operator is there.
LEMMA Denied ==
    ASSUME AccessInv, NEW g, NEW u \in Users, NEW ov, NEW c \in Chans, Ask(g, u, ov, c),
           \/ IsOper(u) \/ "xfer" \notin reg[c].flags
           \/ isFounder(reg[c], u, ov)
           \/ getChanOp(reg[c], u, ov) # 0
           \/ \E need : ("oacc" \in need \/ "oper" \in need) /\ opFlagged(u, ov, need)
    PROVE  ~Closed(reg[c])
<1>1. Online(u) /\ (ov => IsOper(u)) /\ Sealed(reg[c])
  BY Asked
<1>2. SUFFICES ASSUME Closed(reg[c]) PROVE FALSE
  OBVIOUS
<1>3. "xfer" \in reg[c].flags
  BY <1>2 DEF Closed
<1> QED BY <1>1, <1>2, <1>3, ClosedOut

\* A command on the registration as isFounder() leaves it.
LEMMA CommandEdits ==
    ASSUME AccessInv, NEW u, NEW ov, NEW c \in Chans, Registered(c), Frame(c),
           NEW s, Tame(Looked(reg[c], u, ov), s), Put(c, s), ~Closed(reg[c])
    PROVE  Edits(c)
<1>1. reg[c] \in Reg
  BY RegIn DEF AccessInv, Shape
<1>2. Tame(reg[c], s)
  BY <1>1, LookedTame, TameTwice
<1> QED BY <1>2, TameEdits DEF AccessInv

\* Whoever may SET something is not held off by a transfer.
LEMMA SetAllowed ==
    ASSUME AccessInv, NEW g, NEW u \in Users, NEW ov, NEW c \in Chans, NEW level,
           MaySet(g, u, ov, c, level)
    PROVE  Ask(g, u, ov, c) /\ Registered(c) /\ reg[c] \in Reg /\ ~Closed(reg[c])
           /\ Looked(reg[c], u, ov) \in Reg
<1>1. Ask(g, u, ov, c) /\ (IsOper(u) \/ "xfer" \notin reg[c].flags)
  BY DEF MaySet
<1>2. Registered(c) /\ reg[c] \in Reg
  BY <1>1, Asked
<1> QED BY <1>1, <1>2, Denied, LookedTame

\* SET ENCRYPT and IDENT.
LEMMA SetFlagEdits ==
    ASSUME AccessInv, NEW u \in Users, NEW ov, NEW c \in Chans, NEW on,
           SetEncrypt(u, ov, c, on) \/ SetIdent(u, ov, c, on)
    PROVE  Edits(c)
<1> DEFINE L == Looked(reg[c], u, ov)
<1>1. PICK g, level : MaySet(g, u, ov, c, level)
  BY DEF SetEncrypt, SetIdent
<1>2. Registered(c) /\ L \in Reg /\ ~Closed(reg[c])
  BY <1>1, SetAllowed
<1>3. L.flags \in SUBSET ChanFlags
  BY <1>2 DEF Reg, ChanFlags
<1>4. PICK x \in SUBSET ChanFlags :
        /\ "xfer" \in x => "xfer" \in L.flags
        /\ Set(u, ov, c, [L EXCEPT !.flags = x]) /\ UNCHANGED <<chans, top>>
  <2>1. CASE SetEncrypt(u, ov, c, on)
    <3> DEFINE x == IF on THEN L.flags \cup {"encrypt"} ELSE L.flags \ {"encrypt"}
    <3>1. x \in SUBSET ChanFlags /\ ("xfer" \in x => "xfer" \in L.flags)
      BY <1>3 DEF ChanFlags
    <3>2. Set(u, ov, c, [L EXCEPT !.flags = x]) /\ UNCHANGED <<chans, top>>
      BY <2>1 DEF SetEncrypt
    <3> QED BY <3>1, <3>2
  <2>2. CASE SetIdent(u, ov, c, on)
    <3> DEFINE x == IF on THEN L.flags \cup {"ident"} ELSE L.flags \ {"ident"}
    <3>1. x \in SUBSET ChanFlags /\ ("xfer" \in x => "xfer" \in L.flags)
      BY <1>3 DEF ChanFlags
    <3>2. Set(u, ov, c, [L EXCEPT !.flags = x]) /\ UNCHANGED <<chans, top>>
      BY <2>2 DEF SetIdent
    <3> QED BY <3>1, <3>2
  <2> QED BY <2>1, <2>2
<1> DEFINE s == [L EXCEPT !.flags = x]
<1>5. Tame(L, s)
  BY <1>2, <1>4, FieldsTame
<1>6. Frame(c) /\ Put(c, s)
  BY <1>4, SetFrame DEF AccessInv
<1> HIDE DEF s
<1> QED BY <1>2, <1>5, <1>6, CommandEdits

\* SET RESTRICT, TOPICLOCK and MEMOLEVEL.
LEMMA SetLevelEdits ==
    ASSUME AccessInv, NEW u \in Users, NEW ov, NEW c \in Chans, NEW level,
           \/ SetRestrict(u, ov, c, level) \/ SetTopiclock(u, ov, c, level)
           \/ SetMemolevel(u, ov, c, level)
    PROVE  Edits(c)
<1> DEFINE L == Looked(reg[c], u, ov)
<1>1. PICK g, lev : MaySet(g, u, ov, c, lev)
  BY DEF SetRestrict, SetTopiclock, MayLock, SetMemolevel
<1>2. Registered(c) /\ L \in Reg /\ ~Closed(reg[c]) /\ reg[c] \in Reg
  BY <1>1, SetAllowed
<1>3. level \in 0 .. 15
  <2>1. CASE SetMemolevel(u, ov, c, level)
    BY <2>1 DEF SetMemolevel, MAOP, FOUNDER
  <2>2. CASE level \in 0 .. getChanOp(reg[c], u, ov)
    <3>1. getChanOp(reg[c], u, ov) \in -1 .. 15
      BY <1>2, AccessIn DEF getChanOp, AccessInv
    <3> QED BY <2>2, <3>1
  <2> QED BY <2>1, <2>2 DEF SetRestrict, SetTopiclock, MayLock
<1>4. PICK s : Tame(L, s) /\ Set(u, ov, c, s) /\ UNCHANGED <<chans, top>>
  <2>1. CASE SetRestrict(u, ov, c, level)
    <3>1. Tame(L, [L EXCEPT !.restrict = level])
      BY <1>2, <1>3, FieldsTame
    <3> QED BY <2>1, <3>1 DEF SetRestrict
  <2>2. CASE SetTopiclock(u, ov, c, level)
    <3>1. Tame(L, [L EXCEPT !.tlock = level])
      BY <1>2, <1>3, FieldsTame
    <3> QED BY <2>2, <3>1 DEF SetTopiclock
  <2>3. CASE SetMemolevel(u, ov, c, level)
    <3>1. Tame(L, [L EXCEPT !.memo = level])
      BY <1>2, <1>3, FieldsTame
    <3> QED BY <2>3, <3>1 DEF SetMemolevel
  <2> QED BY <2>1, <2>2, <2>3
<1>5. Frame(c) /\ Put(c, s)
  BY <1>4, SetFrame DEF AccessInv
<1> QED BY <1>2, <1>4, <1>5, CommandEdits

\* SET MLOCK.
LEMMA SetMlockEdits ==
    ASSUME AccessInv, NEW u \in Users, NEW ov, NEW c \in Chans, NEW arg \in Locks,
           SetMlock(u, ov, c, arg)
    PROVE  Edits(c)
<1> DEFINE L == Looked(reg[c], u, ov)
           b == [plus |-> reg[c].plus, minus |-> reg[c].minus, on |-> TRUE, reset |-> FALSE]
           lock == FoldLeft(LockChar, b, arg)
           s == [L EXCEPT !.plus = lock.plus, !.minus = lock.minus]
<1>1. MaySet({"rules"}, u, ov, c, FOUNDER) /\ Set(u, ov, c, s) /\ UNCHANGED <<chans, top>>
  BY DEF SetMlock
<1>2. Registered(c) /\ L \in Reg /\ ~Closed(reg[c]) /\ reg[c] \in Reg
  BY <1>1, SetAllowed
<1>3. b \in Lock
  BY <1>2 DEF Lock, LockModes, Reg
<1>4. Apart(b)
  BY <1>2 DEF AccessInv, LocksExclusive, Apart
<1>5. lock \in Lock /\ Apart(lock)
  <2> HIDE DEF b
  <2> QED BY <1>3, <1>4, LocksApart
<1>6. Tame(L, s)
  <2> HIDE DEF lock, L
  <2>1. lock.plus \in SUBSET LockModes /\ lock.minus \in SUBSET LockModes
    BY <1>5 DEF Lock
  <2>2. s \in Reg
    BY <1>2, <2>1 DEF Reg, LockModes
  <2>3. /\ s.rid = L.rid /\ s.founder = L.founder /\ s.plus = lock.plus /\ s.minus = lock.minus
        /\ s.id = L.id /\ s.pass = L.pass /\ s.real = L.real /\ s.flags = L.flags
    BY <1>2 DEF Reg
  <2> HIDE DEF s
  <2>4. Proved(L) => Proved(s)
    BY <2>3 DEF Proved
  <2>5. Sealed(L) => Sealed(s)
    BY <2>3 DEF Sealed
  <2> QED BY <1>5, <2>2, <2>3, <2>4, <2>5 DEF Tame, Keeps, Apart
<1> HIDE DEF s
<1>7. Frame(c) /\ Put(c, s)
  BY <1>1, SetFrame DEF AccessInv
<1> QED BY <1>2, <1>6, <1>7, CommandEdits

\* A new password is the next one.
LEMMA PassFrame ==
    ASSUME Shape, NEW c, NewPass, UNCHANGED <<users, ident, chans, trig, moved>>,
           ptr' = ptr \/ (ptr[c] # -1 /\ ptr' = [ptr EXCEPT ![c] = reg[c].rid])
    PROVE  /\ Frame(c) /\ top'.pass = top.pass + 1
           /\ top.pass + 1 \in 0 .. MaxPass /\ top.pass \in 0 .. MaxPass
<1>1. top \in [session : 0 .. MaxSession, id : 0 .. MaxId, reg : 0 .. MaxReg,
               pass : 0 .. MaxPass, key : 0 .. MaxKey]
  BY DEF Shape, TopOK
<1>2. top.pass \in 0 .. MaxPass /\ top.pass < MaxPass /\ MaxPass \in Nat
  BY <1>1, ConstantsAssumption DEF NewPass
<1>3. top.pass + 1 \in 0 .. MaxPass
  BY <1>2
<1>4. top' = [top EXCEPT !.pass = top.pass + 1]
  BY DEF NewPass
<1>5. /\ top' \in [session : 0 .. MaxSession, id : 0 .. MaxId, reg : 0 .. MaxReg,
                   pass : 0 .. MaxPass, key : 0 .. MaxKey]
      /\ top'.id = top.id /\ top'.pass = top.pass + 1
  BY <1>1, <1>3, <1>4
<1>6. top.pass <= top'.pass
  BY <1>2, <1>5
<1>7. trig' \in [Chans -> [ops : 0 .. OpLimit + 1, aks : 0 .. AkickLimit + 1]]
  BY DEF Shape, TypeOK
<1> QED BY <1>2, <1>3, <1>5, <1>6, <1>7 DEF Frame

\* SET PASSWORD.
LEMMA SetPasswdEdits ==
    ASSUME AccessInv, NEW u \in Users, NEW ov, NEW c \in Chans, SetPasswd(u, ov, c)
    PROVE  Edits(c)
<1> DEFINE r == reg[c]
           s == [r EXCEPT !.pass = top.pass + 1, !.id = NoIdent]
<1>1. MaySet({"founder", "keys"}, u, ov, c, FOUNDER + 1) /\ NewPass /\ Set(u, ov, c, s) /\ UNCHANGED chans
  BY DEF SetPasswd
<1>2. Registered(c) /\ ~Closed(r) /\ r \in Reg
  BY <1>1, SetAllowed
<1>3. Frame(c) /\ top'.pass = top.pass + 1 /\ top.pass + 1 \in 0 .. MaxPass
  <2>1. UNCHANGED <<users, ident, chans, trig, moved>>
    BY <1>1 DEF Set
  <2>2. ptr' = ptr \/ (ptr[c] # -1 /\ ptr' = [ptr EXCEPT ![c] = reg[c].rid])
    BY <1>1 DEF Set
  <2> QED BY <1>1, <2>1, <2>2, PassFrame DEF AccessInv
<1>4. s \in Reg
  BY <1>2, <1>3, NoIdentIn DEF Reg
<1>5. s.rid = r.rid /\ s.founder = r.founder /\ s.plus = r.plus /\ s.minus = r.minus
      /\ s.id = NoIdent /\ s.pass = top.pass + 1
  BY <1>2 DEF Reg
<1>6. Put(c, s)
  BY <1>1 DEF Set
<1> HIDE DEF s
<1>7. Keeps(r, s)
  <2>1. Proved(s)
    BY <1>5 DEF Proved
  <2>2. Sealed(s)
    BY <1>5 DEF Sealed
  <2> QED BY <1>4, <1>5, <2>1, <2>2 DEF Keeps
<1>8. s.pass <= top'.pass
  BY <1>3, <1>5, ConstantsAssumption
<1> QED BY <1>2, <1>3, <1>4, <1>6, <1>7, <1>8 DEF Edits, EditsTo

\* IDENTIFY.
LEMMA IdentifyEdits ==
    ASSUME AccessInv, NEW u \in Users, NEW c \in Chans, Identify(u, c)
    PROVE  Edits(c)
<1> DEFINE r == reg[c]
           s == [r EXCEPT !.facc = TRUE, !.old = FALSE, !.key = 0,
                          !.ops[Own(u)] = IF users[u].acc > 1 THEN FOUNDER ELSE @]
           id == [nick |-> users[u].nick, num |-> users[u].num, fresh |-> TRUE, pass |-> r.pass]
           t == [r EXCEPT !.facc = FALSE, !.old = FALSE, !.real = FALSE, !.id = id]
<1>1. /\ Ask({"founder", "keys"}, u, FALSE, c) /\ "xfer" \notin r.flags /\ Only
      /\ (Put(c, s) \/ Put(c, t))
  BY DEF Identify, Edit
<1>2. Registered(c) /\ r \in Reg /\ users[u].nick \in Nicks /\ Own(u) \in 0 .. MaxId
  BY <1>1, Asked
<1>3. ~Closed(r)
  BY <1>1 DEF Closed
<1>4. Frame(c)
  BY <1>1, OnlyFrame DEF AccessInv
<1>5. Tame(r, s)
  <2>1. r.ops \in [0 .. MaxId -> 0 .. 15]
    BY <1>2 DEF Reg
  <2> DEFINE x == [r.ops EXCEPT ![Own(u)] = IF users[u].acc > 1 THEN FOUNDER ELSE r.ops[Own(u)]]
  <2>2. x \in [0 .. MaxId -> 0 .. 15]
    <3> DEFINE v == IF users[u].acc > 1 THEN FOUNDER ELSE r.ops[Own(u)]
    <3>1. r.ops[Own(u)] \in 0 .. 15
      <4>1. Own(u) \in 0 .. MaxId
        BY <1>2
      <4> HIDE DEF r
      <4> QED BY <2>1, <4>1
    <3>4. FOUNDER \in 0 .. 15
      BY DEF FOUNDER
    <3>2. v \in 0 .. 15
      BY <3>1, <3>4
    <3>3. x = [r.ops EXCEPT ![Own(u)] = v]
      OBVIOUS
    <3> HIDE DEF v
    <3> QED BY <2>1, <3>2, <3>3
  <2>3. s = [r EXCEPT !.facc = TRUE, !.old = FALSE, !.key = 0, !.ops = x]
    OBVIOUS
  <2> HIDE DEF x
  <2>4. 0 \in 0 .. MaxKey
    BY ConstantsAssumption
  <2>5. s \in Reg
    BY <1>2, <2>2, <2>3, <2>4 DEF Reg
  <2>6. /\ s.rid = r.rid /\ s.founder = r.founder /\ s.plus = r.plus /\ s.minus = r.minus
        /\ s.id = r.id /\ s.pass = r.pass /\ s.real = r.real /\ s.flags = r.flags
    BY <1>2 DEF Reg
  <2> HIDE DEF s
  <2>7. Proved(r) => Proved(s)
    BY <2>6 DEF Proved
  <2>8. Sealed(r) => Sealed(s)
    BY <2>6 DEF Sealed
  <2> QED BY <2>5, <2>6, <2>7, <2>8 DEF Tame, Keeps
<1>6. Tame(r, t)
  <2>1. id \in [nick : Nicks \cup {""}, num : 0 .. MaxSession, fresh : BOOLEAN, pass : 0 .. MaxPass]
    <3>1. users[u].num \in 0 .. MaxSession
      BY DEF AccessInv, Shape, TypeOK
    <3>2. r.pass \in 0 .. MaxPass
      BY <1>2 DEF Reg
    <3> QED BY <1>2, <3>1, <3>2
  <2>2. id.pass = r.pass
    OBVIOUS
  <2> HIDE DEF id
  <2>3. t \in Reg
    BY <1>2, <2>1 DEF Reg
  <2>4. /\ t.rid = r.rid /\ t.founder = r.founder /\ t.plus = r.plus /\ t.minus = r.minus
        /\ t.id = id /\ t.pass = r.pass /\ t.flags = r.flags
    BY <1>2 DEF Reg
  <2> HIDE DEF t
  <2>5. Proved(t)
    BY <2>2, <2>4 DEF Proved
  <2>6. Sealed(t)
    BY <1>1, <2>4 DEF Sealed
  <2> QED BY <2>3, <2>4, <2>5, <2>6 DEF Tame, Keeps
<1> HIDE DEF s, t
<1> QED BY <1>1, <1>2, <1>3, <1>4, <1>5, <1>6, TameEdits DEF AccessInv

\* GETPASS.
LEMMA GetpassEdits ==
    ASSUME AccessInv, NEW u \in Users, NEW ov, NEW c \in Chans, NEW option, NEW transfer,
           Getpass(u, ov, c, option, transfer)
    PROVE  Edits(c)
<1> DEFINE r == reg[c]
           xfer == transfer \/ "xfer" \in r.flags
           fresh == r.key = 0 \/ option # "resend"
           key == IF fresh THEN top.key + 1 ELSE r.key
           flags == IF xfer THEN r.flags \cup {"xfer"} ELSE r.flags
           id == IF xfer THEN NoIdent ELSE r.id
           s == [r EXCEPT !.key = key, !.flags = flags, !.id = id]
<1>1. /\ Ask({"keys"}, u, ov, c) /\ IsOper(u) /\ Put(c, s)
      /\ fresh => top.key < MaxKey
      /\ top' = [top EXCEPT !.key = IF fresh THEN @ + 1 ELSE @]
      /\ UNCHANGED <<users, ident, chans, ptr, trig, moved, focus>>
  BY DEF Getpass
<1>2. Registered(c) /\ r \in Reg /\ ~Closed(r)
  BY <1>1, Asked, Denied
<1>3. top \in [session : 0 .. MaxSession, id : 0 .. MaxId, reg : 0 .. MaxReg,
               pass : 0 .. MaxPass, key : 0 .. MaxKey]
  BY DEF AccessInv, Shape, TopOK
<1>4. r.key \in 0 .. MaxKey /\ top.key \in 0 .. MaxKey /\ MaxKey \in Nat /\ r.flags \in SUBSET ChanFlags
      /\ r.id \in [nick : Nicks \cup {""}, num : 0 .. MaxSession, fresh : BOOLEAN, pass : 0 .. MaxPass]
  BY <1>2, <1>3, ConstantsAssumption DEF Reg, ChanFlags
<1>5. fresh => top.key + 1 \in 0 .. MaxKey
  <2>1. \A k \in 0 .. MaxKey : k < MaxKey => k + 1 \in 0 .. MaxKey
    <3>1. MaxKey \in Nat
      BY <1>4
    <3> QED BY <3>1
  <2>2. top.key \in 0 .. MaxKey /\ (fresh => top.key < MaxKey)
    BY <1>1, <1>4
  <2> HIDE DEF fresh
  <2> QED BY <2>1, <2>2
<1>6. key \in 0 .. MaxKey
  BY <1>4, <1>5
<1>7. flags \in SUBSET ChanFlags
  BY <1>4 DEF ChanFlags
<1>8. id \in [nick : Nicks \cup {""}, num : 0 .. MaxSession, fresh : BOOLEAN, pass : 0 .. MaxPass]
  BY <1>4, NoIdentIn
<1>9. "xfer" \in flags => id = NoIdent
  OBVIOUS
<1>10. id = NoIdent \/ id = r.id
  OBVIOUS
<1>11. Frame(c)
  <2>1. top' = [top EXCEPT !.key = IF fresh THEN top.key + 1 ELSE top.key]
    BY <1>1
  <2>2. top' \in [session : 0 .. MaxSession, id : 0 .. MaxId, reg : 0 .. MaxReg,
                  pass : 0 .. MaxPass, key : 0 .. MaxKey]
    <3>1. (IF fresh THEN top.key + 1 ELSE top.key) \in 0 .. MaxKey
      BY <1>4, <1>5
    <3> HIDE DEF fresh
    <3> QED BY <1>3, <2>1, <3>1
  <2>3. top'.id = top.id /\ top'.pass = top.pass
    BY <1>3, <2>1
  <2>4. top.pass <= top'.pass
    <3>1. top.pass \in 0 .. MaxPass /\ MaxPass \in Nat
      BY <1>3, ConstantsAssumption
    <3> QED BY <2>3, <3>1
  <2>5. trig' \in [Chans -> [ops : 0 .. OpLimit + 1, aks : 0 .. AkickLimit + 1]]
    BY <1>1 DEF AccessInv, Shape, TypeOK
  <2> QED BY <1>1, <2>2, <2>3, <2>4, <2>5 DEF Frame
<1> HIDE DEF key, flags, id
<1>12. Tame(r, s)
  <2>1. s \in Reg
    BY <1>2, <1>6, <1>7, <1>8 DEF Reg, ChanFlags
  <2>2. /\ s.rid = r.rid /\ s.founder = r.founder /\ s.plus = r.plus /\ s.minus = r.minus
        /\ s.id = id /\ s.pass = r.pass /\ s.real = r.real /\ s.flags = flags
    BY <1>2 DEF Reg
  <2> HIDE DEF s
  <2>3. Proved(r) => Proved(s)
    BY <1>10, <2>2 DEF Proved
  <2>4. Sealed(s)
    BY <1>9, <2>2 DEF Sealed
  <2> QED BY <2>1, <2>2, <2>3, <2>4 DEF Tame, Keeps
<1> HIDE DEF s
<1> QED BY <1>1, <1>2, <1>11, <1>12, TameEdits DEF AccessInv

\* SETPASS with a key.
LEMMA SetpassEdits ==
    ASSUME AccessInv, NEW u \in Users, NEW c \in Chans, NEW key, Setpass(u, c, key)
    PROVE  Edits(c)
<1> DEFINE r == reg[c]
           flags == (r.flags \cup {"encrypt"}) \ {"xfer"}
           s == [r EXCEPT !.pass = top.pass + 1, !.key = 0, !.id = NoIdent, !.flags = flags]
<1>1. /\ Ask({"keys"}, u, FALSE, c) /\ NewPass /\ Put(c, s)
      /\ UNCHANGED <<users, ident, chans, ptr, trig, keys, moved, focus>>
  BY DEF Setpass
<1>2. Registered(c) /\ r \in Reg
  BY <1>1, Asked
<1>3. /\ Frame(c) /\ top'.pass = top.pass + 1
      /\ top.pass + 1 \in 0 .. MaxPass /\ top.pass \in 0 .. MaxPass
  BY <1>1, PassFrame DEF AccessInv
<1>4. s \in Reg
  <2>1. flags \in SUBSET ChanFlags
    <3>1. r.flags \in SUBSET ChanFlags
      BY <1>2 DEF Reg, ChanFlags
    <3> QED BY <3>1 DEF ChanFlags
  <2>2. 0 \in 0 .. MaxKey
    BY ConstantsAssumption
  <2> SUFFICES [r EXCEPT !.pass = top.pass + 1, !.key = 0, !.id = NoIdent, !.flags = flags] \in Reg
    OBVIOUS
  <2> DEFINE p == top.pass + 1
  <2>3. p \in 0 .. MaxPass /\ r \in Reg
    BY <1>2, <1>3
  <2>4. NoIdent \in [nick : Nicks \cup {""}, num : 0 .. MaxSession, fresh : BOOLEAN, pass : 0 .. MaxPass]
    BY NoIdentIn
  <2> SUFFICES [r EXCEPT !.pass = p, !.key = 0, !.id = NoIdent, !.flags = flags] \in Reg
    OBVIOUS
  <2> HIDE DEF flags, p, r
  <2> QED BY <2>1, <2>2, <2>3, <2>4 DEF Reg, ChanFlags
<1>5. s.rid = r.rid /\ s.founder = r.founder /\ s.plus = r.plus /\ s.minus = r.minus
      /\ s.id = NoIdent /\ s.pass = top.pass + 1
  BY <1>2 DEF Reg
<1> HIDE DEF s
<1>6. Keeps(r, s)
  <2>1. Proved(s)
    BY <1>5 DEF Proved
  <2>2. Sealed(s)
    BY <1>5 DEF Sealed
  <2> QED BY <1>4, <1>5, <2>1, <2>2 DEF Keeps
<1>7. s.pass <= top'.pass
  BY <1>3, <1>5, ConstantsAssumption
<1>8. s.pass # r.pass
  <2>1. r.pass <= top.pass /\ r.pass \in 0 .. MaxPass
    BY <1>2 DEF AccessInv, Shape, NumbersOK, Reg
  <2>2. top.pass + 1 # r.pass
    BY <1>3, <2>1, ConstantsAssumption
  <2> QED BY <1>5, <2>2
<1> QED BY <1>1, <1>2, <1>3, <1>4, <1>6, <1>7, <1>8 DEF Edits, EditsTo

\* SETREALPASS.
LEMMA SetrealpassEdits ==
    ASSUME AccessInv, NEW u \in Users, NEW ov, NEW c \in Chans, Setrealpass(u, ov, c)
    PROVE  Edits(c)
<1> DEFINE r == reg[c]
           real == r.id # NoIdent
           s == [r EXCEPT !.pass = top.pass + 1, !.real = real]
<1>1. /\ Ask({"keys"}, u, ov, c) /\ opFlagged(u, ov, {"oper", "grp"}) /\ NewPass /\ Put(c, s)
      /\ UNCHANGED <<users, ident, chans, ptr, trig, keys, moved, focus>>
  BY DEF Setrealpass
<1>2. Registered(c) /\ r \in Reg /\ ~Closed(r)
  <2>1. \E need : ("oacc" \in need \/ "oper" \in need) /\ opFlagged(u, ov, need)
    <3>1. "oper" \in {"oper", "grp"}
      OBVIOUS
    <3> QED BY <1>1, <3>1
  <2> QED BY <1>1, <2>1, Asked, Denied
<1>3. /\ Frame(c) /\ top'.pass = top.pass + 1
      /\ top.pass + 1 \in 0 .. MaxPass /\ top.pass \in 0 .. MaxPass
  BY <1>1, PassFrame DEF AccessInv
<1>4. real \in BOOLEAN
  OBVIOUS
<1>5. r.id = NoIdent \/ real
  OBVIOUS
<1> HIDE DEF real
<1>6. s \in Reg
  BY <1>2, <1>3, <1>4 DEF Reg
<1>7. s.rid = r.rid /\ s.founder = r.founder /\ s.plus = r.plus /\ s.minus = r.minus
      /\ s.id = r.id /\ s.pass = top.pass + 1 /\ s.real = real /\ s.flags = r.flags
  BY <1>2 DEF Reg
<1> HIDE DEF s
<1>8. Keeps(r, s)
  <2>1. Proved(s)
    BY <1>5, <1>7 DEF Proved
  <2>2. Sealed(r) => Sealed(s)
    BY <1>7 DEF Sealed
  <2> QED BY <1>6, <1>7, <2>1, <2>2 DEF Keeps
<1>9. s.pass <= top'.pass
  BY <1>3, <1>7, ConstantsAssumption
<1> QED BY <1>1, <1>2, <1>3, <1>6, <1>8, <1>9 DEF Edits, EditsTo

\* The access list: ADD and DEL, CLEAN and WIPE.
LEMMA OpsEdits ==
    ASSUME AccessInv, NEW u \in Users, NEW ov, NEW c \in Chans,
           \/ \E n \in Nicks, level \in -1 .. 15 : AddOp(u, ov, c, n, level)
           \/ \E i \in 1 .. MaxId : DelOp(u, ov, c, i)
           \/ Clean(u, ov, c) \/ WipeOp(u, ov, c)
    PROVE  Edits(c)
<1> DEFINE r == reg[c]
           L == Looked(r, u, ov)
           Ops == [0 .. MaxId -> 0 .. 15]
<1>1. PICK g : Ask(g, u, ov, c)
  BY DEF AddOp, DelOp, MayEditOps, Clean, WipeOp
<1>2. Registered(c) /\ r \in Reg
  BY <1>1, Asked
<1>3. L \in Reg /\ L.ops \in Ops /\ r.ops \in Ops
  BY <1>2, LookedTame DEF Reg
<1>4. ~Closed(r)
  <2>1. \/ getChanOp(r, u, ov) # 0 \/ isFounder(r, u, ov) \/ IsOper(u)
        \/ \E need : ("oacc" \in need \/ "oper" \in need) /\ opFlagged(u, ov, need)
    <3>1. /\ getChanOp(r, u, ov) >= AOP => getChanOp(r, u, ov) # 0
          /\ getChanOp(r, u, ov) >= MSOP => getChanOp(r, u, ov) # 0
      BY DEF AOP, MSOP
    <3>2. CASE MayEditOps(u, ov, c)
      <4>1. getChanOp(r, u, ov) >= AOP \/ isFounder(r, u, ov) \/ opFlagged(u, ov, {"oper", "oacc"})
        BY <3>2 DEF MayEditOps
      <4>2. "oacc" \in {"oper", "oacc"}
        OBVIOUS
      <4> QED BY <3>1, <4>1, <4>2
    <3>3. CASE Clean(u, ov, c)
      BY <3>1, <3>3 DEF Clean
    <3>4. CASE WipeOp(u, ov, c)
      <4>1. opFlagged(u, ov, {"oacc", "dmod"})
        BY <3>4 DEF WipeOp
      <4>2. "oacc" \in {"oacc", "dmod"}
        OBVIOUS
      <4> QED BY <4>1, <4>2
    <3> QED BY <3>2, <3>3, <3>4 DEF AddOp, DelOp
  <2> QED BY <1>1, <2>1, Denied
<1>5. CASE WipeOp(u, ov, c)
  <2> DEFINE x == [i \in DOMAIN r.ops |-> 0]
  <2>1. x \in Ops
    BY <1>3
  <2>2. Edit(c, [r EXCEPT !.ops = x])
    BY <1>5 DEF WipeOp
  <2> HIDE DEF x
  <2>3. Tame(r, [r EXCEPT !.ops = x])
    BY <1>2, <2>1, FieldsTame
  <2>4. Frame(c) /\ Put(c, [r EXCEPT !.ops = x])
    BY <2>2, OnlyFrame DEF Edit, AccessInv
  <2> QED BY <1>2, <1>4, <2>3, <2>4, TameEdits DEF AccessInv
<1>6. CASE ~WipeOp(u, ov, c)
  <2>1. PICK x \in Ops : Edit(c, [L EXCEPT !.ops = x])
    <3>1. ASSUME NEW n \in Nicks, NEW level \in -1 .. 15, AddOp(u, ov, c, n, level)
          PROVE  \E x \in Ops : Edit(c, [L EXCEPT !.ops = x])
      <4> DEFINE new == IF level = 0 THEN MAOP ELSE level
                 x == [L.ops EXCEPT ![ident[n]] = new]
      <4>1. level # -1 /\ Edit(c, [L EXCEPT !.ops[ident[n]] = new])
        BY <3>1 DEF AddOp
      <4>2. Edit(c, [L EXCEPT !.ops = x])
        BY <4>1
      <4>3. new \in 0 .. 15
        BY <4>1 DEF MAOP
      <4>4. ident[n] \in 0 .. MaxId
        BY DEF AccessInv, Shape, TypeOK
      <4> HIDE DEF new
      <4>5. x \in Ops
        BY <1>3, <4>3, <4>4
      <4> QED BY <4>2, <4>5
    <3>2. ASSUME NEW i \in 1 .. MaxId, DelOp(u, ov, c, i)
          PROVE  \E x \in Ops : Edit(c, [L EXCEPT !.ops = x])
      <4> DEFINE x == [L.ops EXCEPT ![i] = 0]
      <4>1. Edit(c, [L EXCEPT !.ops[i] = 0])
        BY <3>2 DEF DelOp
      <4>2. Edit(c, [L EXCEPT !.ops = x])
        BY <4>1
      <4>3. i \in 0 .. MaxId
        BY ConstantsAssumption
      <4>4. x \in Ops
        BY <1>3, <4>3
      <4> QED BY <4>2, <4>4
    <3>3. ASSUME Clean(u, ov, c)
          PROVE  \E x \in Ops : Edit(c, [L EXCEPT !.ops = x])
      <4> DEFINE x == [i \in DOMAIN L.ops |-> IF \E n \in Nicks : ident[n] = i THEN L.ops[i] ELSE 0]
      <4>1. Edit(c, [L EXCEPT !.ops = x])
        BY <3>3 DEF Clean
      <4>2. x \in Ops
        <5> DEFINE Live(i) == \E n \in Nicks : ident[n] = i
        <5>1. x = [i \in 0 .. MaxId |-> IF Live(i) THEN L.ops[i] ELSE 0]
          BY <1>3
        <5>2. \A i \in 0 .. MaxId : L.ops[i] \in 0 .. 15
          BY <1>3
        <5> HIDE DEF Live, L, x
        <5>3. \A i \in 0 .. MaxId : (IF Live(i) THEN L.ops[i] ELSE 0) \in 0 .. 15
          BY <5>2
        <5> QED BY <5>1, <5>3
      <4> QED BY <4>1, <4>2
    <3> QED BY <1>6, <3>1, <3>2, <3>3
  <2>2. Tame(L, [L EXCEPT !.ops = x])
    BY <1>3, FieldsTame
  <2>3. Frame(c) /\ Put(c, [L EXCEPT !.ops = x])
    BY <2>1, OnlyFrame DEF Edit, AccessInv
  <2> QED BY <1>2, <1>4, <2>2, <2>3, CommandEdits
<1> QED BY <1>5, <1>6

\* The autokicks.
LEMMA AkickEdits ==
    ASSUME AccessInv, NEW u \in Users, NEW ov, NEW c \in Chans,
           \/ \E v \in Users : AddAkick(u, ov, c, v)
           \/ \E all \in BOOLEAN : DelAkicks(u, ov, c, all)
    PROVE  Edits(c)
<1> DEFINE r == reg[c]
           L == Looked(r, u, ov)
<1>1. Ask({"rules"}, u, ov, c)
  BY DEF AddAkick, DelAkicks
<1>2. Registered(c) /\ r \in Reg
  BY <1>1, Asked
<1>3. L \in Reg /\ L.akicks \in SUBSET Users /\ r.akicks \in SUBSET Users
  BY <1>2, LookedTame DEF Reg
<1>4. ~Closed(r)
  <2>1. \/ getChanOp(r, u, ov) >= MSOP \/ getChanOp(r, u, ov) >= MFOUNDER
        \/ opFlagged(u, ov, {"oper", "dmod", "oacc"})
        \/ opFlagged(u, ov, {"oacc", "dmod"})
    BY DEF AddAkick, DelAkicks, DirectMod
  <2>2. /\ getChanOp(r, u, ov) >= MFOUNDER => getChanOp(r, u, ov) # 0
        /\ getChanOp(r, u, ov) >= MSOP => getChanOp(r, u, ov) # 0
    BY DEF MFOUNDER, MSOP
  <2>3. "oacc" \in {"oper", "dmod", "oacc"} /\ "oacc" \in {"oacc", "dmod"}
    OBVIOUS
  <2> QED BY <1>1, <2>1, <2>2, <2>3, Denied
<1>5. PICK x \in SUBSET Users : Edit(c, [L EXCEPT !.akicks = x])
  <2>1. ASSUME NEW v \in Users, AddAkick(u, ov, c, v)
        PROVE  \E x \in SUBSET Users : Edit(c, [L EXCEPT !.akicks = x])
    <3>1. Edit(c, [L EXCEPT !.akicks = L.akicks \cup {v}])
      BY <2>1 DEF AddAkick
    <3>2. L.akicks \cup {v} \in SUBSET Users
      BY <1>3
    <3> QED BY <3>1, <3>2
  <2>2. ASSUME NEW all \in BOOLEAN, DelAkicks(u, ov, c, all)
        PROVE  \E x \in SUBSET Users : Edit(c, [L EXCEPT !.akicks = x])
    <3>1. \E S \in SUBSET r.akicks : Edit(c, [L EXCEPT !.akicks = S])
      BY <2>2 DEF DelAkicks
    <3> HIDE DEF L
    <3> QED BY <1>3, <3>1
  <2> QED BY <2>1, <2>2
<1>6. Tame(L, [L EXCEPT !.akicks = x])
  BY <1>3, FieldsTame
<1>7. Frame(c) /\ Put(c, [L EXCEPT !.akicks = x])
  BY <1>5, OnlyFrame DEF Edit, AccessInv
<1> QED BY <1>2, <1>4, <1>6, <1>7, CommandEdits

\* Who looks at a channel that is being transferred changes nothing.
LEMMA LookedSame ==
    ASSUME AccessInv, NEW u \in Users, NEW c \in Chans, Registered(c), Online(u), Closed(reg[c])
    PROVE  Looked(reg[c], u, FALSE) = reg[c]
BY ClosedOut DEF AccessInv, Trusted

\* The events that may be about a channel that is being transferred: a look, a
\* wrong password, a topic.
LEMMA EventEdits ==
    ASSUME AccessInv, NEW u \in Users, NEW c \in Chans,
           Look(u, c) \/ BadPw(u, c) \/ Topic(u, c)
    PROVE  Edits(c)
<1> DEFINE r == reg[c]
           L == Looked(r, u, FALSE)
<1>1. Registered(c) /\ r \in Reg
  <2>1. Registered(c)
    BY DEF Look, BadPw, Topic
  <2> QED BY <2>1, RegIn DEF AccessInv, Shape
<1>2. Tame(r, L) /\ L \in Reg
  BY <1>1, LookedTame
<1>3. Tame(r, r) /\ Same(r, r)
  BY <1>1 DEF Tame, Keeps, Same
<1>4. Online(u) => (Closed(r) => L = r)
  BY <1>1, LookedSame
<1>5. CASE Look(u, c)
  <2>1. Online(u) /\ Put(c, L) /\ Only
    BY <1>5 DEF Look, Edit
  <2>2. Frame(c)
    BY <2>1, OnlyFrame DEF AccessInv
  <2>3. Closed(r) => Same(r, L)
    BY <1>3, <1>4, <2>1
  <2> HIDE DEF L, r
  <2> QED BY <1>1, <1>2, <2>1, <2>2, <2>3, TameEdits DEF AccessInv, r
<1>6. CASE BadPw(u, c)
  <2>1. Online(u) /\ Put(c, L) /\ users' = [users EXCEPT ![u] = Off]
        /\ UNCHANGED <<ident, chans, ptr, trig, keys, top, moved, focus>>
    BY <1>6 DEF BadPw, Put, IsReg
  <2>2. Frame(c)
    <3>1. top' = top /\ top \in [session : 0 .. MaxSession, id : 0 .. MaxId, reg : 0 .. MaxReg,
                                 pass : 0 .. MaxPass, key : 0 .. MaxKey]
      BY <2>1 DEF AccessInv, Shape, TopOK
    <3>2. top.pass \in Int
      <4>1. top.pass \in 0 .. MaxPass
        BY <3>1
      <4> QED BY <4>1, ConstantsAssumption
    <3>3. trig' \in [Chans -> [ops : 0 .. OpLimit + 1, aks : 0 .. AkickLimit + 1]]
      BY <2>1 DEF AccessInv, Shape, TypeOK
    <3>4. \E v \in Users : users' = [users EXCEPT ![v] = Off]
      BY <2>1
    <3>5. UNCHANGED <<ident, chans, moved, ptr>>
      BY <2>1
    <3>6. top'.id = top.id /\ top.pass <= top'.pass
      BY <3>1, <3>2
    <3>7. top' \in [session : 0 .. MaxSession, id : 0 .. MaxId, reg : 0 .. MaxReg,
                    pass : 0 .. MaxPass, key : 0 .. MaxKey]
      BY <3>1
    <3> HIDE DEF L
    <3> QED BY <3>3, <3>4, <3>5, <3>6, <3>7 DEF Frame
  <2>3. Closed(r) => Same(r, L)
    BY <1>3, <1>4, <2>1
  <2> HIDE DEF L, r
  <2> QED BY <1>1, <1>2, <2>1, <2>2, <2>3, TameEdits DEF AccessInv, r
<1>8. CASE Topic(u, c)
  <2>1. L.topic \in Users \cup {"none"}
    BY <1>2 DEF Reg
  <2>2. PICK x \in Users \cup {"none"} : Edit(c, [L EXCEPT !.topic = x]) /\ Online(u)
    <3> DEFINE x == IF getChanOp(r, u, FALSE) < r.tlock THEN L.topic ELSE u
    <3>1. Edit(c, [L EXCEPT !.topic = x]) /\ Online(u)
      BY <1>8 DEF Topic
    <3>2. x \in Users \cup {"none"}
      BY <2>1
    <3> QED BY <3>1, <3>2
  <2> DEFINE s == [L EXCEPT !.topic = x]
  <2>3. Put(c, s) /\ Only
    BY <2>2 DEF Edit
  <2>4. Frame(c)
    BY <2>3, OnlyFrame DEF AccessInv
  <2>5. Tame(r, s)
    <3>1. Tame(L, s)
      BY <1>2, <2>2, FieldsTame
    <3> HIDE DEF L, s
    <3> QED BY <1>2, <3>1, TameTwice
  <2>6. Closed(r) => Same(r, s)
    <3>1. SUFFICES ASSUME Closed(r) PROVE Same(r, [r EXCEPT !.topic = x])
      BY <1>4, <2>2
    <3> QED BY <1>1 DEF Same, Reg
  <2> HIDE DEF s, r
  <2> QED BY <1>1, <2>3, <2>4, <2>5, <2>6, TameEdits DEF AccessInv, r
<1> QED BY <1>5, <1>6, <1>8

\* CHANDROPTIME passes.
LEMMA AgeEdits ==
    ASSUME AccessInv, NEW c \in Chans, Age(c)
    PROVE  Edits(c)
<1> DEFINE r == reg[c]
           s == [r EXCEPT !.old = TRUE]
<1>1. Registered(c) /\ r \in Reg
  BY RegIn DEF Age, AccessInv, Shape
<1>2. Put(c, s) /\ Only
  BY DEF Age, Put, Only
<1>3. Frame(c)
  BY <1>2, OnlyFrame DEF AccessInv
<1>4. Tame(r, s)
  BY <1>1, FieldsTame
<1>5. Same(r, s)
  BY <1>1 DEF Same, Reg
<1> HIDE DEF s, r
<1> QED BY <1>1, <1>2, <1>3, <1>4, <1>5, TameEdits DEF AccessInv, r

\* What services operators do to a registration.
LEMMA OperEdits ==
    ASSUME AccessInv, NEW u \in Users, NEW ov, NEW c \in Chans, NEW on,
           \/ Banish(u, ov, c, on) \/ Close(u, ov, c, on) \/ Hold(u, ov, c, on) \/ Mark(u, ov, c, on)
           \/ DmodTopic(u, ov, c)
    PROVE  Edits(c)
<1> DEFINE r == reg[c]
<1>1. Ask({"opers"}, u, ov, c)
  BY DEF Banish, Close, Hold, Mark, DmodTopic, MayDmod
<1>2. Registered(c) /\ r \in Reg
  BY <1>1, Asked
<1>3. ~Closed(r)
  <2>1. IsOper(u) \/ opFlagged(u, ov, {"oper", "cbandel"})
    BY DEF Banish, Close, MayBanish, Hold, Mark, isRoot, isServop, DmodTopic, MayDmod
  <2>2. "oper" \in {"oper", "cbandel"}
    OBVIOUS
  <2> QED BY <1>1, <2>1, <2>2, Denied
<1>4. r.flags \in SUBSET ChanFlags
  BY <1>2 DEF Reg, ChanFlags
<1>5. PICK s : Tame(r, s) /\ Edit(c, s)
  <2>1. ASSUME NEW flag \in {"banish", "close", "hold", "mark"}, Turn(c, flag, on)
        PROVE  \E s : Tame(r, s) /\ Edit(c, s)
    <3> DEFINE x == IF on THEN r.flags \cup {flag} ELSE r.flags \ {flag}
    <3>1. x \in SUBSET ChanFlags /\ ("xfer" \in x => "xfer" \in r.flags)
      BY <1>4 DEF ChanFlags
    <3>2. Edit(c, [r EXCEPT !.flags = x])
      BY <2>1 DEF Turn
    <3> HIDE DEF x
    <3>3. Tame(r, [r EXCEPT !.flags = x])
      BY <1>2, <3>1, FieldsTame
    <3> QED BY <3>2, <3>3
  <2>2. CASE DmodTopic(u, ov, c)
    <3>1. Edit(c, [r EXCEPT !.topic = u])
      BY <2>2 DEF DmodTopic
    <3>2. Tame(r, [r EXCEPT !.topic = u])
      BY <1>2, FieldsTame
    <3> QED BY <3>1, <3>2
  <2> QED BY <2>1, <2>2 DEF Banish, Close, Hold, Mark
<1>6. Frame(c) /\ Put(c, s)
  BY <1>5, OnlyFrame DEF Edit, AccessInv
<1> QED BY <1>2, <1>3, <1>5, <1>6, TameEdits DEF AccessInv

\* TRIGGER leaves the registration as it is.
LEMMA TriggerEdits ==
    ASSUME AccessInv, NEW u \in Users, NEW c \in Chans, NEW limits \in Limits, Trigger(u, c, limits)
    PROVE  Edits(c)
<1> DEFINE r == reg[c]
<1>1. /\ Ask({"rules"}, u, FALSE, c) /\ trig' = [trig EXCEPT ![c] = limits]
      /\ UNCHANGED <<users, ident, chans, reg, ptr, keys, top, moved, focus>>
  BY DEF Trigger
<1>2. Registered(c) /\ r \in Reg
  BY <1>1, Asked
<1>3. Frame(c)
  <2>1. top' = top /\ top \in [session : 0 .. MaxSession, id : 0 .. MaxId, reg : 0 .. MaxReg,
                               pass : 0 .. MaxPass, key : 0 .. MaxKey]
    BY <1>1 DEF AccessInv, Shape, TopOK
  <2>2. top.pass \in Int
    <3>1. top.pass \in 0 .. MaxPass
      BY <2>1
    <3> QED BY <3>1, ConstantsAssumption
  <2>3. limits \in [ops : 0 .. OpLimit + 1, aks : 0 .. AkickLimit + 1]
    <3>1. OpLimit \in Nat /\ AkickLimit \in Nat
      BY ConstantsAssumption
    <3> QED BY <3>1 DEF Limits
  <2>4. trig' \in [Chans -> [ops : 0 .. OpLimit + 1, aks : 0 .. AkickLimit + 1]]
    BY <1>1, <2>3 DEF AccessInv, Shape, TypeOK
  <2> QED BY <1>1, <2>1, <2>2, <2>4 DEF Frame
<1>4. Put(c, r)
  <2>1. reg \in [Chans -> Reg \cup {NoReg}]
    BY DEF AccessInv, Shape, TypeOK
  <2> QED BY <1>1, <2>1 DEF Put
<1>5. Tame(r, r) /\ Same(r, r)
  BY <1>2 DEF Tame, Keeps, Same
<1> QED BY <1>2, <1>3, <1>4, <1>5, TameEdits DEF AccessInv
-----------------------------------------------------------------------------
(* The network and NickServ.                                                 *)

\* What stays as it is heeds every transfer.
LEMMA RegSame ==
    ASSUME reg' = reg
    PROVE  ProtectedStep
BY DEF ProtectedStep, Registered

\* A step that leaves registrations and pointers keeps what is said of them.
LEMMA RegStays ==
    ASSUME AccessInv, reg' = reg, ptr' = ptr
    PROVE  /\ PointersAgree' /\ LocksExclusive' /\ Trusted' /\ ProtectedStep
           /\ \A c : Registered(c)' <=> Registered(c)
           /\ \A i : Founded(i)' = Founded(i)
BY RegSame DEF AccessInv, PointersAgree, LocksExclusive, Trusted, Registered, Founded

UserSet == [nick : Nicks \cup {""}, num : 0 .. MaxSession, acc : 0 .. 3, remote : 0 .. MaxId]

\* A user who has identified is as good as before.
LEMMA AccIn ==
    ASSUME NEW v \in UserSet
    PROVE  /\ [v EXCEPT !.acc = 3] \in UserSet
           /\ [v EXCEPT !.acc = 3].num = v.num /\ [v EXCEPT !.acc = 3].nick = v.nick
<1>1. ASSUME NEW a \in 0 .. 3
      PROVE  /\ [v EXCEPT !.acc = a] \in UserSet
             /\ [v EXCEPT !.acc = a].num = v.num /\ [v EXCEPT !.acc = a].nick = v.nick
  BY DEF UserSet
<1>2. 3 \in 0 .. 3
  OBVIOUS
<1> QED BY <1>1, <1>2

\* Sign-ons, sign-offs and identifications change one user.
LEMMA UserStep ==
    ASSUME AccessInv, NEW u \in Users, NEW v \in UserSet, v.num # 0 => v.nick \in Nicks,
           users' = [users EXCEPT ![u] = v],
           UNCHANGED <<ident, chans, reg, ptr, trig, moved>>,
           top' \in [session : 0 .. MaxSession, id : 0 .. MaxId, reg : 0 .. MaxReg,
                     pass : 0 .. MaxPass, key : 0 .. MaxKey],
           top'.id = top.id, top'.pass = top.pass
    PROVE  AccessInv' /\ ProtectedStep
<1> USE DEF AccessInv, Shape
<1>1. users \in [Users -> UserSet]
  BY DEF TypeOK, UserSet
<1>2. users' \in [Users -> UserSet]
  BY <1>1
<1>3. TypeOK'
  BY <1>2 DEF TypeOK, UserSet
<1>4. TopOK'
  BY DEF TopOK
<1>5. NamesOK'
  BY <1>1 DEF NamesOK, Online
<1>6. NumbersOK'
  BY DEF NumbersOK, Registered
<1>7. /\ PointersAgree' /\ LocksExclusive' /\ Trusted' /\ ProtectedStep
      /\ \A i : Founded(i)' = Founded(i)
  BY RegStays
<1>8. ChansCounted'
  BY <1>7 DEF ChansCounted, Founded
<1> QED BY <1>3, <1>4, <1>5, <1>6, <1>7, <1>8

\* Signing on and off, and identifying to NickServ.
LEMMA UsersHold ==
    ASSUME AccessInv, NEW u \in Users, NEW n \in Nicks,
           SignOn(u, n) \/ SignOff(u) \/ NickIdentify(u, n)
    PROVE  AccessInv' /\ ProtectedStep
<1>1. users \in [Users -> UserSet]
  BY DEF AccessInv, Shape, TypeOK, UserSet
<1>2. users[u] \in UserSet /\ (users[u].num # 0 => users[u].nick \in Nicks)
  BY <1>1 DEF AccessInv, Shape, NamesOK, Online
<1>3. top \in [session : 0 .. MaxSession, id : 0 .. MaxId, reg : 0 .. MaxReg,
               pass : 0 .. MaxPass, key : 0 .. MaxKey]
  BY DEF AccessInv, Shape, TopOK
<1>4. ident[n] \in 0 .. MaxId
  BY DEF AccessInv, Shape, TypeOK
<1>5. CASE SignOn(u, n)
  <2> DEFINE v == [nick |-> n, num |-> top.session + 1, acc |-> SeenAs(u, n), remote |-> 0]
  <2>1. /\ users' = [users EXCEPT ![u] = v] /\ top' = [top EXCEPT !.session = top.session + 1]
        /\ UNCHANGED <<ident, chans, reg, ptr, trig, keys, moved, focus>>
        /\ top.session < (IF "founder" \in focus THEN MaxSession ELSE Cardinality(Users))
    BY <1>5 DEF SignOn
  <2>2. top.session + 1 \in 0 .. MaxSession
    <3>1. top.session \in 0 .. MaxSession /\ MaxSession \in Nat
      BY <1>3, ConstantsAssumption
    <3>2. Cardinality(Users) \in Nat /\ Cardinality(Users) <= MaxSession
      BY ConstantsAssumption, FS_CardinalityType
    <3>3. top.session < MaxSession
      BY <2>1, <3>1, <3>2
    <3> QED BY <3>1, <3>3
  <2>3. SeenAs(u, n) \in 0 .. 3
    BY DEF SeenAs
  <2>4. 0 \in 0 .. MaxId
    BY ConstantsAssumption
  <2>5. v \in UserSet /\ v.nick \in Nicks
    BY <2>2, <2>3, <2>4 DEF UserSet
  <2>6. /\ top' \in [session : 0 .. MaxSession, id : 0 .. MaxId, reg : 0 .. MaxReg,
                     pass : 0 .. MaxPass, key : 0 .. MaxKey]
        /\ top'.id = top.id /\ top'.pass = top.pass
    BY <1>3, <2>1, <2>2
  <2> HIDE DEF v
  <2> QED BY <2>1, <2>5, <2>6, UserStep
<1>6. CASE SignOff(u)
  <2>1. /\ users' = [users EXCEPT ![u] = Off] /\ top' = top
        /\ UNCHANGED <<ident, chans, reg, ptr, trig, keys, moved, focus>>
    BY <1>6 DEF SignOff
  <2>2. Off \in UserSet /\ Off.num = 0
    BY ConstantsAssumption DEF Off, UserSet
  <2> QED BY <1>3, <2>1, <2>2, UserStep
<1>7. CASE NickIdentify(u, n)
  <2>1. /\ top' = top /\ UNCHANGED <<ident, chans, reg, ptr, trig, keys, moved, focus>>
        /\ \/ users' = [users EXCEPT ![u].acc = 3]
           \/ users' = [users EXCEPT ![u].remote = ident[n]]
    BY <1>7 DEF NickIdentify
  <2>2. PICK v \in UserSet : users' = [users EXCEPT ![u] = v] /\ v.num = users[u].num /\ v.nick = users[u].nick
    <3> DEFINE v1 == [users[u] EXCEPT !.acc = 3]
               v2 == [users[u] EXCEPT !.remote = ident[n]]
    <3>1. v1 \in UserSet /\ v1.num = users[u].num /\ v1.nick = users[u].nick
      BY <1>2, AccIn
    <3>2. v2 \in UserSet /\ v2.num = users[u].num /\ v2.nick = users[u].nick
      BY <1>2, <1>4 DEF UserSet
    <3>3. users' = [users EXCEPT ![u] = v1] \/ users' = [users EXCEPT ![u] = v2]
      BY <2>1
    <3> HIDE DEF v1, v2
    <3> QED BY <3>1, <3>2, <3>3
  <2> QED BY <1>2, <1>3, <2>1, <2>2, UserStep
<1> QED BY <1>5, <1>6, <1>7

\* A nick change ends identifications.
LEMMA NickChangeHolds ==
    ASSUME AccessInv, NEW u \in Users, NEW n \in Nicks, NickChange(u, n)
    PROVE  AccessInv' /\ ProtectedStep
<1> USE DEF AccessInv, Shape
<1> DEFINE s(c) == [reg[c] EXCEPT !.id.fresh = FALSE]
           hit(c) == Registered(c) /\ reg[c].id.num = users[u].num
<1>1. /\ users' = [users EXCEPT ![u].nick = n, ![u].acc = SeenAs(u, n)]
      /\ UNCHANGED <<ident, chans, ptr, trig, keys, top, moved, focus>>
      /\ Online(u)
      /\ reg' = [c \in Chans |-> IF hit(c) THEN s(c) ELSE reg[c]]
  BY DEF NickChange, Aged
<1>2. users[u].num # 0
  BY <1>1 DEF Online
<1>3. ASSUME NEW c \in Chans, hit(c)
      PROVE  s(c) \in Reg /\ Tame(reg[c], s(c)) /\ "xfer" \notin reg[c].flags
  <2> DEFINE r == reg[c]
             id == [r.id EXCEPT !.fresh = FALSE]
  <2>1. r \in Reg
    BY <1>3, RegIn
  <2>2. r.id # NoIdent
    BY <1>2, <1>3, NoIdentIn
  <2>3. Proved(r) /\ Sealed(r)
    BY <1>3 DEF Trusted
  <2>4. r.id \in [nick : Nicks \cup {""}, num : 0 .. MaxSession, fresh : BOOLEAN, pass : 0 .. MaxPass]
    BY <2>1 DEF Reg
  <2>5. /\ id \in [nick : Nicks \cup {""}, num : 0 .. MaxSession, fresh : BOOLEAN, pass : 0 .. MaxPass]
        /\ id.pass = r.id.pass
    BY <2>4
  <2> DEFINE t == [r EXCEPT !.id = id]
  <2>6. s(c) = t
    OBVIOUS
  <2> HIDE DEF id, s
  <2>7. t \in Reg
    BY <2>1, <2>5 DEF Reg
  <2>8. /\ t.rid = r.rid /\ t.founder = r.founder /\ t.plus = r.plus /\ t.minus = r.minus
        /\ t.id = id /\ t.pass = r.pass /\ t.flags = r.flags /\ t.real = r.real
    BY <2>1 DEF Reg
  <2> HIDE DEF t
  <2>9. Proved(t)
    BY <2>2, <2>3, <2>5, <2>8 DEF Proved
  <2>10. "xfer" \notin r.flags
    BY <2>2, <2>3 DEF Sealed
  <2>11. Sealed(t)
    BY <2>8, <2>10 DEF Sealed
  <2> QED BY <2>6, <2>7, <2>8, <2>9, <2>10, <2>11 DEF Tame, Keeps
<1> HIDE DEF s
<1>4. \A c \in Chans : (hit(c) /\ reg'[c] = s(c)) \/ (~hit(c) /\ reg'[c] = reg[c])
  BY <1>1
<1>5. NoReg \notin Reg
  BY DEF NoReg, Reg
<1>6. \A c \in Chans : Registered(c)' <=> Registered(c)
  BY <1>3, <1>4, <1>5 DEF Registered
<1>7. \A c \in Chans : /\ reg'[c].rid = reg[c].rid /\ reg'[c].founder = reg[c].founder
                       /\ reg'[c].pass = reg[c].pass
  BY <1>3, <1>4 DEF Tame, Keeps
<1>8. TypeOK'
  <2>1. reg' \in [Chans -> Reg \cup {NoReg}]
    <3>1. \A c \in Chans : reg'[c] \in Reg \cup {NoReg}
      BY <1>3, <1>4 DEF TypeOK
    <3> HIDE DEF hit
    <3> QED BY <1>1, <3>1
  <2>2. users' \in [Users -> UserSet]
    <3>4. users \in [Users -> UserSet]
      BY DEF TypeOK, UserSet
    <3>5. SeenAs(u, n) \in 0 .. 3
      BY DEF SeenAs
    <3>1. users \in [Users -> UserSet] /\ SeenAs(u, n) \in 0 .. 3
      BY <3>4, <3>5
    <3>2. users' = [users EXCEPT ![u] = [users[u] EXCEPT !.nick = n, !.acc = SeenAs(u, n)]]
      BY <1>1, <3>1
    <3>3. [users[u] EXCEPT !.nick = n, !.acc = SeenAs(u, n)] \in UserSet
      BY <3>1 DEF UserSet
    <3> QED BY <3>1, <3>2, <3>3
  <2> QED BY <1>1, <2>1, <2>2 DEF TypeOK, UserSet
<1>9. TopOK'
  BY <1>1 DEF TopOK
<1>10. NamesOK'
  <2>1. users \in [Users -> UserSet]
    BY DEF TypeOK, UserSet
  <2>2. \A v \in Users : v # u => users'[v] = users[v]
    BY <1>1, <2>1
  <2>3. users'[u].nick = n
    BY <1>1, <2>1 DEF UserSet
  <2> QED BY <2>2, <2>3 DEF NamesOK, Online
<1>11. NumbersOK'
  BY <1>1, <1>6, <1>7 DEF NumbersOK
<1>12. PointersAgree'
  BY <1>1, <1>7 DEF PointersAgree
<1>13. LocksExclusive' /\ Trusted'
  BY <1>3, <1>4, <1>6 DEF LocksExclusive, Trusted, Tame, Keeps
<1>14. ChansCounted'
  <2>1. \A i : Founded(i)' = Founded(i)
    BY <1>6, <1>7 DEF Founded
  <2> QED BY <1>1, <2>1 DEF ChansCounted, Founded
<1>15. ProtectedStep
  <2>1. \A c \in Chans : Registered(c) => reg'[c] # NoReg
    BY <1>6 DEF Registered
  <2>2. \A c \in Chans : "xfer" \in reg[c].flags => reg'[c] = reg[c]
    BY <1>3, <1>4
  <2> QED BY <2>1, <2>2 DEF ProtectedStep
<1> QED BY <1>8, <1>9, <1>10, <1>11, <1>12, <1>13, <1>14, <1>15

\* A nick that is registered has no channels yet, and one that is dropped leaves
\* no count behind.
LEMMA NicksHold ==
    ASSUME AccessInv,
           \/ \E u \in Users : NickRegister(u)
           \/ \E n \in Nicks : NickDrop(n)
    PROVE  AccessInv' /\ ProtectedStep
<1> USE DEF AccessInv, Shape
<1>1. UNCHANGED <<reg, ptr, trig, moved>>
  BY DEF NickRegister, NickDrop
<1>2. /\ PointersAgree' /\ LocksExclusive' /\ Trusted' /\ ProtectedStep
      /\ \A c : Registered(c)' <=> Registered(c)
      /\ \A i : Founded(i)' = Founded(i)
  BY <1>1, RegStays
<1>3. /\ ident \in [Nicks -> 0 .. MaxId] /\ chans \in [0 .. MaxId -> Int]
      /\ users \in [Users -> UserSet] /\ MaxId \in Nat
  BY ConstantsAssumption DEF TypeOK, UserSet
<1>4. top \in [session : 0 .. MaxSession, id : 0 .. MaxId, reg : 0 .. MaxReg,
               pass : 0 .. MaxPass, key : 0 .. MaxKey]
  BY DEF TopOK
<1>5. \A c \in Chans : Registered(c) => reg[c].founder \in 0 .. MaxId /\ reg[c].founder <= top.id
  BY RegIn DEF NumbersOK
<1>6. top.id \in 0 .. MaxId
  BY <1>4
<1>7. ASSUME NEW u \in Users, NickRegister(u) PROVE AccessInv'
  <2> DEFINE i == top.id + 1
             m == users[u].nick
  <2>1. /\ Online(u) /\ top.id < MaxId
        /\ top' = [top EXCEPT !.id = i] /\ ident' = [ident EXCEPT ![m] = i]
        /\ chans' = [chans EXCEPT ![i] = 0] /\ users' = [users EXCEPT ![u].acc = 3]
    BY <1>7 DEF NickRegister
  <2>2. i \in 0 .. MaxId /\ top.id < i
    BY <1>3, <1>6, <2>1
  <2>3. m \in Nicks
    BY <2>1 DEF NamesOK
  <2> HIDE DEF i, m
  <2>4. ident' \in [Nicks -> 0 .. MaxId] /\ chans' \in [0 .. MaxId -> Int]
    <3>1. ident \in [Nicks -> 0 .. MaxId] /\ chans \in [0 .. MaxId -> Int]
      BY <1>3
    <3>2. ASSUME NEW f \in [Nicks -> 0 .. MaxId], NEW j \in 0 .. MaxId
          PROVE  [f EXCEPT ![m] = j] \in [Nicks -> 0 .. MaxId]
      OBVIOUS
    <3>3. ident' \in [Nicks -> 0 .. MaxId]
      BY <2>1, <2>2, <3>1, <3>2
    <3>4. chans' = [chans EXCEPT ![i] = 0] /\ 0 \in Int
      BY <2>1
    <3>5. chans' \in [0 .. MaxId -> Int]
      BY <3>1, <3>4
    <3> QED BY <3>3, <3>5
  <2>5. users' \in [Users -> UserSet] /\ \A v \in Users : users'[v].num = users[v].num /\ users'[v].nick = users[v].nick
    <3>1. [users[u] EXCEPT !.acc = 3] \in UserSet
      BY <1>3, AccIn
    <3>2. users' = [users EXCEPT ![u] = [users[u] EXCEPT !.acc = 3]]
      BY <2>1
    <3>3. users[u] \in UserSet
      BY <1>3
    <3>4. [users[u] EXCEPT !.acc = 3].num = users[u].num /\ [users[u] EXCEPT !.acc = 3].nick = users[u].nick
      BY <3>3 DEF UserSet
    <3> QED BY <1>3, <3>1, <3>2, <3>4
  <2>6. TypeOK'
    BY <1>1, <2>4, <2>5 DEF TypeOK, UserSet
  <2>7. TopOK'
    BY <1>1, <1>4, <2>1, <2>2 DEF TopOK
  <2>8. top'.id = i /\ top'.pass = top.pass
    BY <1>4, <2>1
  <2>9. NamesOK'
    BY <2>5 DEF NamesOK, Online
  <2>10. \A n \in Nicks : ident'[n] <= i /\ (ident'[n] = i \/ (ident'[n] = ident[n] /\ ident[n] < i))
    <3>1. \A n \in Nicks : ident[n] <= top.id /\ ident[n] \in 0 .. MaxId
      BY <1>3 DEF NumbersOK
    <3>2. \A n \in Nicks : ident[n] < i
      BY <1>3, <1>6, <2>2, <3>1
    <3>3. \A n \in Nicks : ident'[n] = i \/ ident'[n] = ident[n]
      BY <1>3, <2>1
    <3>4. \A j \in 0 .. MaxId : j < i => j <= i
      BY <1>3, <2>2
    <3>5. i <= i
      BY <2>2
    <3> QED BY <3>1, <3>2, <3>3, <3>4, <3>5
  <2>11. \A c \in Chans : Registered(c) => reg[c].founder < i
    <3>1. \A j \in 0 .. MaxId : j <= top.id => j < i
      BY <1>3, <1>6, <2>2
    <3> QED BY <1>5, <3>1
  <2>12. NumbersOK'
    <3>1. ASSUME NEW c \in Chans, Registered(c)'
          PROVE  reg'[c].founder <= top'.id /\ reg'[c].pass <= top'.pass
      <4>1. Registered(c) /\ reg[c].founder < i /\ reg[c].founder \in 0 .. MaxId
        BY <1>2, <1>5, <2>11, <3>1
      <4>2. reg[c].founder <= i
        BY <1>3, <2>2, <4>1
      <4>3. reg[c].pass <= top.pass
        BY <4>1 DEF NumbersOK
      <4> QED BY <1>1, <2>8, <4>2, <4>3
    <3> QED BY <2>8, <2>10, <3>1 DEF NumbersOK
  <2>13. ChansCounted'
    <3> SUFFICES ASSUME ~moved', NEW n \in Nicks, ident'[n] # 0
                 PROVE  chans'[ident'[n]] = Cardinality(Founded(ident'[n]))
      <4>1. \A k : Cardinality(Founded(k)') = Cardinality(Founded(k))
        BY <1>2
      <4> QED BY <4>1 DEF ChansCounted, Founded
    <3>2. CASE ident'[n] = i
      <4>1. chans'[i] = 0
        BY <1>3, <2>1, <2>2
      <4>2. Founded(i) = {}
        <5>1. \A j \in 0 .. MaxId : j < i => j # i
          BY <1>3, <2>2
        <5> QED BY <1>5, <2>11, <5>1 DEF Founded
      <4> QED BY <3>2, <4>1, <4>2, FS_EmptySet
    <3>3. CASE ident'[n] = ident[n] /\ ident[n] < i
      <4>1. ident[n] # i /\ ident[n] \in 0 .. MaxId
        BY <1>3, <2>2, <3>3
      <4>2. chans'[ident[n]] = chans[ident[n]]
        BY <1>3, <2>1, <4>1
      <4>3. ident[n] # 0 /\ ~moved
        BY <1>1, <3>3
      <4>4. chans[ident[n]] = Cardinality(Founded(ident[n]))
        BY <4>3 DEF ChansCounted, Founded
      <4> QED BY <3>3, <4>2, <4>4
    <3> QED BY <2>10, <3>2, <3>3
  <2> QED BY <1>2, <2>6, <2>7, <2>9, <2>12, <2>13
<1>8. ASSUME NEW n \in Nicks, NickDrop(n) PROVE AccessInv'
  <2>1. ident' = [ident EXCEPT ![n] = 0] /\ UNCHANGED <<users, chans, top>>
    BY <1>8 DEF NickDrop
  <2>2. ident' \in [Nicks -> 0 .. MaxId] /\ \A j \in Nicks : ident'[j] = ident[j] \/ ident'[j] = 0
    BY <1>3, <2>1
  <2>3. TypeOK'
    BY <1>1, <2>1, <2>2 DEF TypeOK
  <2>4. TopOK' /\ NamesOK'
    BY <1>1, <2>1 DEF TopOK, NamesOK, Online
  <2>5. NumbersOK'
    <3>1. 0 <= top.id
      BY <1>3, <1>6
    <3>2. \A j \in Nicks : ident'[j] <= top'.id
      BY <2>1, <2>2, <3>1 DEF NumbersOK
    <3> QED BY <1>1, <1>2, <2>1, <3>2 DEF NumbersOK
  <2>6. ChansCounted'
    BY <1>1, <1>2, <2>1, <2>2 DEF ChansCounted, Founded
  <2> QED BY <1>2, <2>3, <2>4, <2>5, <2>6
<1> QED BY <1>2, <1>7, <1>8

\* A channel comes into use with its registration, and goes out of use.
LEMMA PointersHold ==
    ASSUME AccessInv, NEW c \in Chans, Appear(c) \/ Vanish(c)
    PROVE  AccessInv' /\ ProtectedStep
<1> USE DEF AccessInv, Shape
<1>1. UNCHANGED <<users, ident, chans, reg, trig, keys, top, moved, focus>>
  BY DEF Appear, Vanish
<1>2. ptr' = [ptr EXCEPT ![c] = reg[c].rid] \/ ptr' = [ptr EXCEPT ![c] = -1]
  BY DEF Appear, Vanish
<1>3. ptr \in [Chans -> -1 .. MaxReg] /\ MaxReg \in Nat
  BY ConstantsAssumption DEF TypeOK
<1>4. reg[c].rid \in -1 .. MaxReg
  BY <1>3, RegIn
<1>5. ptr' \in [Chans -> -1 .. MaxReg] /\ \A d \in Chans : ptr'[d] = -1 \/ ptr'[d] = reg[d].rid \/ ptr'[d] = ptr[d]
  <2>1. -1 \in -1 .. MaxReg
    BY <1>3
  <2> QED BY <1>2, <1>3, <1>4, <2>1
<1>6. TypeOK'
  BY <1>1, <1>5 DEF TypeOK
<1>7. PointersAgree'
  BY <1>1, <1>5 DEF PointersAgree
<1>8. TopOK' /\ NamesOK' /\ NumbersOK' /\ LocksExclusive' /\ Trusted'
  BY <1>1 DEF TopOK, NamesOK, Online, NumbersOK, LocksExclusive, Trusted, Registered
<1>9. ChansCounted'
  BY <1>1 DEF ChansCounted, Registered
<1> QED BY <1>1, <1>6, <1>7, <1>8, <1>9, RegSame
-----------------------------------------------------------------------------
(* Counting the channels of a nick.                                          *)

\* Of the channels of T, those that i founded.
Part(T, i) == {c \in T : reg[c].founder = i}
Live(i) == i # 0 /\ \E n \in Nicks : ident[n] = i

\* One channel less for its founder, if there is one.
LEMMA DiscountIs ==
    ASSUME NEW c, NEW counts \in [0 .. MaxId -> Int]
    PROVE  /\ Discount(c, counts) \in [0 .. MaxId -> Int]
           /\ \A i \in 0 .. MaxId : Live(i) =>
                 /\ reg[c].founder = i => Discount(c, counts)[i] = counts[i] - 1
                 /\ reg[c].founder # i => Discount(c, counts)[i] = counts[i]
<1> DEFINE f == reg[c].founder
<1>1. CASE Live(f)
  <2>1. Discount(c, counts) = [counts EXCEPT ![f] = counts[f] - 1]
    BY <1>1 DEF Discount, Live
  <2> HIDE DEF f
  <2>2. f \in 0 .. MaxId => counts[f] - 1 \in Int
    OBVIOUS
  <2>3. [counts EXCEPT ![f] = counts[f] - 1] \in [0 .. MaxId -> Int]
    BY <2>2
  <2>4. \A i \in 0 .. MaxId :
           [counts EXCEPT ![f] = counts[f] - 1][i] = IF f = i THEN counts[i] - 1 ELSE counts[i]
    OBVIOUS
  <2> QED BY <2>1, <2>3, <2>4 DEF f
<1>2. CASE ~Live(f)
  <2>1. Discount(c, counts) = counts
    BY <1>2 DEF Discount, Live
  <2> QED BY <1>2, <2>1
<1> QED BY <1>1, <1>2

\* A channel more or less in a set.
LEMMA PartCount ==
    ASSUME NEW T \in SUBSET Chans, NEW c \in T, NEW i
    PROVE  /\ Cardinality(Part(T, i)) \in Nat
           /\ Cardinality(Part(T \ {c}, i)) =
                 IF reg[c].founder = i THEN Cardinality(Part(T, i)) - 1 ELSE Cardinality(Part(T, i))
<1>1. IsFiniteSet(Part(T, i))
  <2>1. Part(T, i) \in SUBSET Chans
    BY DEF Part
  <2> QED BY <2>1, FS_Subset, ConstantsAssumption
<1>2. Cardinality(Part(T, i)) \in Nat
  BY <1>1, FS_CardinalityType
<1>3. Part(T \ {c}, i) = Part(T, i) \ {c} /\ (c \in Part(T, i) <=> reg[c].founder = i)
  BY DEF Part
<1> DEFINE P == Part(T, i)
<1>4. Cardinality(P \ {c}) = IF c \in P THEN Cardinality(P) - 1 ELSE Cardinality(P)
  <2> HIDE DEF P
  <2>1. IsFiniteSet(P)
    BY <1>1 DEF P
  <2> QED BY <2>1, FS_RemoveElement
<1> QED BY <1>2, <1>3, <1>4

\* expireChans() counts every one of them.
LEMMA DiscountsAll ==
    ASSUME NEW C \in SUBSET Chans, chans \in [0 .. MaxId -> Int]
    PROVE  /\ FoldSet(Discount, chans, C) \in [0 .. MaxId -> Int]
           /\ \A i \in 0 .. MaxId : Live(i) =>
                 FoldSet(Discount, chans, C)[i] = chans[i] - Cardinality(Part(C, i))
<1> DEFINE pick == [T \in SUBSET C |-> CHOOSE x \in T : TRUE]
           All == [0 .. MaxId -> Int]
           F == [p \in C \X All |-> Discount(p[1], p[2])]
           W == [T \in SUBSET C |-> {q \in All :
                   \A i \in 0 .. MaxId : Live(i) => q[i] = chans[i] - Cardinality(Part(T, i))}]
<1>1. IsFiniteSet(C)
  BY FS_Subset, ConstantsAssumption
<1>2. Picks(pick, C)
  BY DEF Picks
<1>3. F \in [C \X All -> All]
  <2>1. ASSUME NEW p \in C \X All PROVE Discount(p[1], p[2]) \in All
    <3>1. p[2] \in [0 .. MaxId -> Int]
      OBVIOUS
    <3> QED BY <3>1, DiscountIs
  <2> HIDE DEF All
  <2> QED BY <2>1
<1> HIDE DEF F, W
<1>4. PICK g \in [SUBSET C -> All] : Folds(g, C, pick, chans, F)
  <2>1. chans \in All
    OBVIOUS
  <2> HIDE DEF pick, All
  <2> QED BY <1>1, <1>2, <1>3, <2>1, FoldExists
<1>5. g = [T \in SUBSET C |-> IF T = {} THEN chans
            ELSE Discount(CHOOSE x \in T : TRUE, g[T \ {CHOOSE x \in T : TRUE}])]
  <2>1. ASSUME NEW T \in SUBSET C, T # {}
        PROVE  F[<<pick[T], g[T \ {pick[T]}]>>] = Discount(pick[T], g[T \ {pick[T]}])
    <3>1. <<pick[T], g[T \ {pick[T]}]>> \in C \X All
      BY <1>2, <2>1 DEF Picks
    <3> HIDE DEF pick, All
    <3> QED BY <3>1 DEF F
  <2> QED BY <1>4, <2>1 DEF Folds
<1>6. PICK h : /\ h = [T \in SUBSET C |-> IF T = {} THEN chans
                        ELSE Discount(CHOOSE x \in T : TRUE, h[T \ {CHOOSE x \in T : TRUE}])]
               /\ FoldSet(Discount, chans, C) = h[C]
  BY <1>5 DEF FoldSet, MapThenFoldSet
<1>7. h[{}] \in W[{}]
  <2>1. h[{}] = chans
    BY <1>6
  <2>2. \A i : Cardinality(Part({}, i)) = 0
    BY FS_EmptySet DEF Part
  <2>3. \A i \in 0 .. MaxId : chans[i] = chans[i] - 0
    OBVIOUS
  <2> QED BY <2>1, <2>2, <2>3 DEF W
<1>8. ASSUME NEW T \in SUBSET C, T # {}, h[T \ {pick[T]}] \in W[T \ {pick[T]}]
      PROVE  h[T] \in W[T]
  <2> DEFINE q == h[T \ {pick[T]}]  v == pick[T]
  <2>1. h[T] = Discount(v, q) /\ v \in T
    BY <1>2, <1>6, <1>8 DEF Picks
  <2>2. /\ q \in All
        /\ \A i \in 0 .. MaxId : Live(i) => q[i] = chans[i] - Cardinality(Part(T \ {v}, i))
    BY <1>8 DEF W
  <2> HIDE DEF q, v, pick
  <2>3. T \in SUBSET Chans
    OBVIOUS
  <2>4. h[T] \in All
    BY <2>1, <2>2, DiscountIs
  <2>5. ASSUME NEW i \in 0 .. MaxId, Live(i)
        PROVE  h[T][i] = chans[i] - Cardinality(Part(T, i))
    <3> DEFINE k == Cardinality(Part(T, i))  k1 == Cardinality(Part(T \ {v}, i))
    <3>1. k \in Nat /\ k1 = IF reg[v].founder = i THEN k - 1 ELSE k
      BY <2>1, <2>3, PartCount
    <3>2. h[T][i] = IF reg[v].founder = i THEN q[i] - 1 ELSE q[i]
      <4>1. q \in [0 .. MaxId -> Int]
        BY <2>2
      <4>2. /\ reg[v].founder = i => Discount(v, q)[i] = q[i] - 1
            /\ reg[v].founder # i => Discount(v, q)[i] = q[i]
        BY <2>5, <4>1, DiscountIs
      <4> QED BY <2>1, <4>2
    <3>3. q[i] = chans[i] - k1 /\ chans[i] \in Int
      BY <2>2, <2>5
    <3> HIDE DEF k, k1
    <3> QED BY <3>1, <3>2, <3>3 DEF k
  <2> QED BY <2>4, <2>5 DEF W
<1>9. h[C] \in W[C]
  <2> HIDE DEF pick, All
  <2> QED BY <1>1, <1>2, <1>7, <1>8, FoldInduct
<1> QED BY <1>6, <1>9 DEF W
-----------------------------------------------------------------------------
(* Registrations that come, go and change hands.                             *)

\* The counts are right when those of the nicks there are change as their channels do.
LEMMA CountedBy ==
    ASSUME AccessInv, UNCHANGED <<ident, moved>>,
           \A i \in 0 .. MaxId : Live(i) /\ chans[i] = Cardinality(Founded(i)) =>
                 chans'[i] = Cardinality(Founded(i)')
    PROVE  ChansCounted'
<1> SUFFICES ASSUME ~moved, NEW n \in Nicks, ident[n] # 0
             PROVE  chans'[ident[n]] = Cardinality(Founded(ident[n])')
  BY DEF ChansCounted, Founded
<1>1. ident[n] \in 0 .. MaxId /\ Live(ident[n])
  BY DEF AccessInv, Shape, TypeOK, Live
<1>2. chans[ident[n]] = Cardinality(Founded(ident[n]))
  BY DEF AccessInv, ChansCounted, Founded
<1>3. PICK i : i = ident[n]
  OBVIOUS
<1>4. chans'[i] = Cardinality(Founded(i)')
  BY <1>1, <1>2, <1>3
<1>5. Founded(i)' = Founded(ident[n])'
  BY <1>3 DEF Founded
<1> QED BY <1>3, <1>4, <1>5

\* The registrations of C are freed.
LEMMA GoneHolds ==
    ASSUME AccessInv, NEW C \in SUBSET Chans, \A c \in C : Registered(c),
           \A c \in C : "hold" \in reg[c].flags => \E u \in Users : isRoot(u),
           chans' \in [0 .. MaxId -> Int],
           \A i \in 0 .. MaxId : Live(i) => chans'[i] = chans[i] - Cardinality(Part(C, i)),
           reg' = Drops(C), ptr' = Unlinks(C),
           UNCHANGED <<users, ident, trig, top, moved>>
    PROVE  AccessInv' /\ ProtectedStep
<1> USE DEF AccessInv, Shape
<1>1. reg' = [c \in Chans |-> IF c \in C THEN NoReg ELSE reg[c]]
  BY DEF Drops
<1>2. ptr' = [c \in Chans |-> IF c \in C /\ ptr[c] # -1 THEN 0 ELSE ptr[c]]
  BY DEF Unlinks
<1>3. \A c \in Chans : (c \in C => reg'[c] = NoReg) /\ (c \notin C => reg'[c] = reg[c])
  BY <1>1
<1>4. \A c \in Chans : Registered(c)' <=> Registered(c) /\ c \notin C
  BY <1>3 DEF Registered
<1>5. TypeOK'
  <2>1. reg' \in [Chans -> Reg \cup {NoReg}]
    <3>1. \A c \in Chans : reg[c] \in Reg \cup {NoReg}
      BY DEF TypeOK
    <3> QED BY <1>1, <3>1
  <2>2. ptr' \in [Chans -> -1 .. MaxReg]
    <3>1. ptr \in [Chans -> -1 .. MaxReg] /\ MaxReg \in Nat
      BY ConstantsAssumption DEF TypeOK
    <3>2. \A c \in Chans : (IF c \in C /\ ptr[c] # -1 THEN 0 ELSE ptr[c]) \in -1 .. MaxReg
      BY <3>1
    <3> QED BY <1>2, <3>2
  <2> QED BY <2>1, <2>2 DEF TypeOK
<1>6. TopOK' /\ NamesOK'
  BY DEF TopOK, NamesOK, Online
<1>7. NumbersOK'
  BY <1>3, <1>4 DEF NumbersOK
<1>8. PointersAgree'
  <2> SUFFICES ASSUME NEW c \in Chans, ptr'[c] # -1 PROVE ptr'[c] = reg'[c].rid
    BY DEF PointersAgree
  <2>1. CASE c \in C
    <3>1. NoReg.rid = 0
      BY DEF NoReg
    <3> QED BY <1>2, <1>3, <2>1, <3>1
  <2>2. CASE c \notin C
    BY <1>2, <1>3, <2>2 DEF PointersAgree
  <2> QED BY <2>1, <2>2
<1>9. LocksExclusive' /\ Trusted'
  BY <1>3, <1>4 DEF LocksExclusive, Trusted
<1>10. ChansCounted'
  <2> SUFFICES ASSUME NEW i \in 0 .. MaxId, Live(i), chans[i] = Cardinality(Founded(i))
               PROVE  chans'[i] = Cardinality(Founded(i)')
    BY CountedBy
  <2> DEFINE F == Founded(i)  P == Part(C, i)
  <2>1. chans'[i] = chans[i] - Cardinality(P)
    OBVIOUS
  <2>2. Founded(i)' = F \ P /\ F \cap P = P
    BY <1>3, <1>4 DEF Founded, Part
  <2>3. IsFiniteSet(F)
    <3>1. F \in SUBSET Chans
      BY DEF Founded
    <3> QED BY <3>1, FS_Subset, ConstantsAssumption
  <2> SUFFICES chans'[i] = Cardinality(F \ P)
    BY <2>2
  <2>4. chans[i] = Cardinality(F)
    OBVIOUS
  <2> HIDE DEF F, P
  <2>5. Cardinality(F \ P) = Cardinality(F) - Cardinality(P)
    <3>1. Cardinality(F \ P) = Cardinality(F) - Cardinality(F \cap P)
      BY <2>3, FS_Difference
    <3>2. F \cap P = P
      BY <2>2
    <3> QED BY <3>1, <3>2
  <2> QED BY <2>1, <2>4, <2>5
<1>11. ProtectedStep
  <2>1. \A c \in Chans : reg'[c] = NoReg \/ reg'[c] = reg[c]
    BY <1>3
  <2>2. \A c \in Chans : Registered(c) /\ reg'[c] = NoReg => c \in C
    BY <1>3 DEF Registered
  <2> QED BY <2>1, <2>2 DEF ProtectedStep
<1> QED BY <1>5, <1>6, <1>7, <1>8, <1>9, <1>10, <1>11

\* DROP and DELETE.
LEMMA UnregisterHolds ==
    ASSUME AccessInv, NEW u \in Users, NEW ov, NEW c \in Chans, Drop(u, c) \/ Delete(u, ov, c)
    PROVE  AccessInv' /\ ProtectedStep
<1>1. /\ Registered(c) /\ Unregister(c) /\ UNCHANGED <<users, ident, trig, top, moved>>
      /\ IsReg(u)
  BY DEF Drop, Delete, Ask
<1>2. "hold" \in reg[c].flags => isRoot(u)
  <2>1. CASE Drop(u, c)
    BY <2>1 DEF Drop
  <2>2. CASE Delete(u, ov, c)
    <3>1. SUFFICES ASSUME "hold" \in reg[c].flags PROVE isRoot(u)
      OBVIOUS
    <3>2. opFlagged(u, ov, {"root"})
      BY <2>2, <3>1 DEF Delete
    <3>3. IsOper(u)
      BY <2>2 DEF Delete, isServop, opFlagged
    <3>4. opFlagged(u, FALSE, {"root"})
      BY <3>2 DEF opFlagged
    <3> QED BY <3>3, <3>4 DEF isRoot
  <2> QED BY <2>1, <2>2
<1>3. chans \in [0 .. MaxId -> Int]
  BY DEF AccessInv, Shape, TypeOK
<1>4. /\ chans' = Discount(c, chans) /\ reg' = Drops({c}) /\ ptr' = Unlinks({c})
      /\ {c} \in SUBSET Chans
  BY <1>1 DEF Unregister
<1>5. chans' \in [0 .. MaxId -> Int]
  BY <1>3, <1>4, DiscountIs
<1>6. ASSUME NEW i \in 0 .. MaxId, Live(i) PROVE chans'[i] = chans[i] - Cardinality(Part({c}, i))
  <2>1. /\ reg[c].founder = i => chans'[i] = chans[i] - 1
        /\ reg[c].founder # i => chans'[i] = chans[i]
    BY <1>3, <1>4, <1>6, DiscountIs
  <2>2. /\ reg[c].founder = i => Part({c}, i) = {c}
        /\ reg[c].founder # i => Part({c}, i) = {}
    BY DEF Part
  <2>3. Cardinality({c}) = 1 /\ Cardinality({}) = 0
    BY FS_Singleton, FS_EmptySet
  <2>4. chans[i] \in Int
    BY <1>3
  <2>5. CASE reg[c].founder = i
    BY <2>1, <2>2, <2>3, <2>5
  <2>6. CASE reg[c].founder # i
    <3>1. chans'[i] = chans[i] /\ Cardinality(Part({c}, i)) = 0
      BY <2>1, <2>2, <2>3, <2>6
    <3> QED BY <2>4, <3>1
  <2> QED BY <2>5, <2>6
<1> QED BY <1>1, <1>2, <1>4, <1>5, <1>6, GoneHolds

\* expireChans().
LEMMA ExpireHolds ==
    ASSUME AccessInv, ExpireChans
    PROVE  AccessInv' /\ ProtectedStep
<1> DEFINE C == {c \in Chans : Expiring(c)}
<1>1. /\ chans' = FoldSet(Discount, chans, C) /\ reg' = Drops(C) /\ ptr' = Unlinks(C)
      /\ UNCHANGED <<users, ident, trig, keys, top, moved, focus>>
  BY DEF ExpireChans
<1>2. C \in SUBSET Chans /\ \A c \in C : Registered(c) /\ "hold" \notin reg[c].flags
  BY DEF Expiring
<1>3. chans \in [0 .. MaxId -> Int]
  BY DEF AccessInv, Shape, TypeOK
<1> HIDE DEF C
<1>4. /\ chans' \in [0 .. MaxId -> Int]
      /\ \A i \in 0 .. MaxId : Live(i) => chans'[i] = chans[i] - Cardinality(Part(C, i))
  BY <1>1, <1>2, <1>3, DiscountsAll
<1> QED BY <1>1, <1>2, <1>4, GoneHolds

\* A channel is registered that was not.
LEMMA NewHolds ==
    ASSUME AccessInv, NEW c \in Chans, ~Registered(c), NEW s \in Reg,
           s.plus \cap s.minus = {}, s.id = NoIdent,
           s.founder = 0 \/ Live(s.founder), s.founder <= top.id, s.pass <= top'.pass,
           s.founder = 0 => chans' = chans,
           s.founder # 0 => chans' = [chans EXCEPT ![s.founder] = @ + 1],
           reg' = [reg EXCEPT ![c] = s],
           ptr' = IF ptr[c] = -1 THEN ptr ELSE [ptr EXCEPT ![c] = s.rid],
           top' \in [session : 0 .. MaxSession, id : 0 .. MaxId, reg : 0 .. MaxReg,
                     pass : 0 .. MaxPass, key : 0 .. MaxKey],
           top'.id = top.id, top.pass <= top'.pass,
           UNCHANGED <<users, ident, trig>>, moved' = moved
    PROVE  AccessInv' /\ ProtectedStep
<1> USE DEF AccessInv, Shape
<1>1. reg \in [Chans -> Reg \cup {NoReg}] /\ NoReg \notin Reg
  BY DEF TypeOK, NoReg, Reg
<1>2. reg'[c] = s /\ \A d \in Chans : d # c => reg'[d] = reg[d]
  BY <1>1
<1>3. \A d \in Chans : Registered(d)' <=> Registered(d) \/ d = c
  BY <1>1, <1>2 DEF Registered
<1>4. s.founder \in 0 .. MaxId /\ s.rid \in 1 .. MaxReg
  BY DEF Reg
<1>5. TypeOK'
  <2>1. reg' \in [Chans -> Reg \cup {NoReg}]
    BY <1>1
  <2>2. ptr' \in [Chans -> -1 .. MaxReg]
    <3>1. ptr \in [Chans -> -1 .. MaxReg]
      BY DEF TypeOK
    <3>2. s.rid \in -1 .. MaxReg
      BY <1>4, ConstantsAssumption
    <3> QED BY <3>1, <3>2
  <2>3. chans' \in [0 .. MaxId -> Int]
    <3>1. chans \in [0 .. MaxId -> Int]
      BY DEF TypeOK
    <3>2. chans[s.founder] + 1 \in Int
      BY <1>4, <3>1
    <3> QED BY <3>1, <3>2
  <2> QED BY <2>1, <2>2, <2>3 DEF TypeOK
<1>6. TopOK' /\ NamesOK'
  BY DEF TopOK, NamesOK, Online
<1>7. NumbersOK'
  <2>1. ASSUME NEW d \in Chans, Registered(d)' PROVE reg'[d].founder <= top'.id /\ reg'[d].pass <= top'.pass
    <3>1. CASE d = c
      BY <1>2, <3>1
    <3>2. CASE d # c
      <4>1. Registered(d) /\ reg[d] \in Reg
        BY <1>3, <2>1, <3>2, RegIn
      <4>2. reg[d].founder <= top.id /\ reg[d].pass <= top.pass
        BY <4>1 DEF NumbersOK
      <4>3. top.pass \in 0 .. MaxPass /\ top'.pass \in 0 .. MaxPass /\ reg[d].pass \in 0 .. MaxPass
        BY <4>1 DEF TopOK, Reg
      <4>5. MaxPass \in Nat
        BY ConstantsAssumption
      <4>6. top.pass \in Int /\ top'.pass \in Int /\ reg[d].pass \in Int
        BY <4>3, <4>5
      <4>4. reg[d].pass <= top'.pass
        BY <4>2, <4>6
      <4> QED BY <1>2, <3>2, <4>2, <4>4
    <3> QED BY <3>1, <3>2
  <2>2. \A n \in Nicks : ident'[n] <= top'.id
    BY DEF NumbersOK
  <2> QED BY <2>1, <2>2 DEF NumbersOK
<1>8. PointersAgree'
  <2> SUFFICES ASSUME NEW d \in Chans, ptr'[d] # -1 PROVE ptr'[d] = reg'[d].rid
    BY DEF PointersAgree
  <2>1. ptr \in [Chans -> -1 .. MaxReg]
    BY DEF TypeOK
  <2>2. CASE d = c
    BY <1>2, <2>1, <2>2
  <2>3. CASE d # c
    BY <1>2, <2>1, <2>3 DEF PointersAgree
  <2> QED BY <2>2, <2>3
<1>9. Proved(s) /\ Sealed(s)
  BY DEF Proved, Sealed
<1>10. LocksExclusive' /\ Trusted'
  BY <1>2, <1>3, <1>9 DEF LocksExclusive, Trusted
<1>11. ChansCounted'
  <2> SUFFICES ASSUME NEW i \in 0 .. MaxId, Live(i), chans[i] = Cardinality(Founded(i))
               PROVE  chans'[i] = Cardinality(Founded(i)')
    BY CountedBy
  <2>1. chans \in [0 .. MaxId -> Int] /\ i # 0
    BY DEF TypeOK, Live
  <2>2. IsFiniteSet(Founded(i)) /\ c \notin Founded(i)
    <3>1. Founded(i) \in SUBSET Chans
      BY DEF Founded
    <3> QED BY <3>1, FS_Subset, ConstantsAssumption DEF Founded
  <2>3. CASE s.founder = i
    <3>1. Founded(i)' = Founded(i) \cup {c}
      BY <1>2, <1>3, <2>3 DEF Founded
    <3>2. chans'[i] = chans[i] + 1
      BY <2>1, <2>3
    <3> DEFINE F == Founded(i)
    <3>3. IsFiniteSet(F) /\ c \notin F
      BY <2>2
    <3>4. Cardinality(F \cup {c}) = Cardinality(F) + 1
      <4> HIDE DEF F
      <4> QED BY <3>3, FS_AddElement
    <3> QED BY <3>1, <3>2, <3>4
  <2>4. CASE s.founder # i
    <3>1. Founded(i)' = Founded(i)
      BY <1>2, <1>3, <2>4 DEF Founded
    <3>2. chans'[i] = chans[i]
      BY <2>1, <2>4
    <3> QED BY <3>1, <3>2
  <2> QED BY <2>3, <2>4
<1>12. ProtectedStep
  <2>1. \A d \in Chans : Registered(d) => reg'[d] = reg[d]
    BY <1>2
  <2> QED BY <2>1 DEF ProtectedStep, Registered
<1> QED BY <1>5, <1>6, <1>7, <1>8, <1>10, <1>11, <1>12

\* What a new registration is.
LEMMA NewRegIn ==
    ASSUME NEW rid \in 1 .. MaxReg, NEW f \in 0 .. MaxId, NEW pass \in 0 .. MaxPass,
           NEW flags \in SUBSET ChanFlags,
           NEW plus \in SUBSET LockModes, NEW minus \in SUBSET LockModes
    PROVE  /\ NewReg(rid, f, pass, flags, plus, minus) \in Reg
           /\ NewReg(rid, f, pass, flags, plus, minus).rid = rid
           /\ NewReg(rid, f, pass, flags, plus, minus).founder = f
           /\ NewReg(rid, f, pass, flags, plus, minus).pass = pass
           /\ NewReg(rid, f, pass, flags, plus, minus).plus = plus
           /\ NewReg(rid, f, pass, flags, plus, minus).minus = minus
           /\ NewReg(rid, f, pass, flags, plus, minus).id = NoIdent
<1> DEFINE ops == [i \in 0 .. MaxId |-> IF i = f /\ i # 0 THEN FOUNDER ELSE 0]
           facc == f # 0
           s == [rid |-> rid, founder |-> f, ops |-> ops,
                 akicks |-> {}, pass |-> pass, key |-> 0, flags |-> flags, facc |-> facc, restrict |-> 0,
                 tlock |-> 0, memo |-> 3, plus |-> plus, minus |-> minus, old |-> FALSE, topic |-> "none",
                 real |-> FALSE, id |-> NoIdent]
<1>1. NewReg(rid, f, pass, flags, plus, minus) = s
  BY DEF NewReg
<1>2. ops \in [0 .. MaxId -> 0 .. 15]
  BY DEF FOUNDER
<1>3. facc \in BOOLEAN
  OBVIOUS
<1>4. 0 \in 0 .. MaxKey /\ 0 \in 0 .. 15 /\ 3 \in 0 .. 15
  BY ConstantsAssumption
<1> HIDE DEF ops, facc
<1>5. s \in Reg
  BY <1>2, <1>3, <1>4, NoIdentIn DEF Reg, ChanFlags, LockModes
<1>6. s.rid = rid /\ s.founder = f /\ s.pass = pass /\ s.plus = plus /\ s.minus = minus /\ s.id = NoIdent
  OBVIOUS
<1> QED BY <1>1, <1>5, <1>6

\* REGISTER.
LEMMA RegisterHolds ==
    ASSUME AccessInv, NEW u \in Users, NEW ov, NEW c \in Chans, NEW op, Register(u, ov, c, op)
    PROVE  AccessInv' /\ ProtectedStep
<1> USE DEF AccessInv, Shape
<1> DEFINE s == NewReg(top.reg + 1, Own(u), top.pass + 1, {"encrypt", "ident"}, {"n", "t"}, {"k", "H"})
<1>1. /\ Identified(u) /\ ptr[c] <= 0
      /\ top.reg < MaxReg /\ top.pass < MaxPass
      /\ chans' = [chans EXCEPT ![Own(u)] = @ + 1]
      /\ reg' = IF Registered(c) THEN reg ELSE [reg EXCEPT ![c] = s]
      /\ ptr' = IF ptr[c] = -1 THEN ptr ELSE [ptr EXCEPT ![c] = top.reg + 1]
      /\ top' = [top EXCEPT !.reg = @ + 1, !.pass = @ + 1]
      /\ moved' = (moved \/ Registered(c))
      /\ UNCHANGED <<users, ident, trig>>
  BY DEF Register, MayRegister
<1>2. users[u].nick \in Nicks /\ Own(u) \in 0 .. MaxId /\ Own(u) # 0 /\ Own(u) <= top.id /\ Live(Own(u))
  <2>1. Online(u) /\ Own(u) # 0
    BY <1>1 DEF Identified, IsReg
  <2>2. users[u].nick \in Nicks /\ Own(u) \in 0 .. MaxId
    BY <2>1, OwnIn
  <2> QED BY <2>1, <2>2 DEF NumbersOK, Own, Live
<1>3. top \in [session : 0 .. MaxSession, id : 0 .. MaxId, reg : 0 .. MaxReg,
               pass : 0 .. MaxPass, key : 0 .. MaxKey]
  BY DEF TopOK
<1>4. top.reg + 1 \in 1 .. MaxReg /\ top.pass + 1 \in 0 .. MaxPass /\ top.pass <= top.pass + 1
  <2>1. top.reg \in 0 .. MaxReg /\ top.pass \in 0 .. MaxPass
    BY <1>3
  <2>2. MaxReg \in Nat /\ MaxPass \in Nat /\ top.reg < MaxReg /\ top.pass < MaxPass
    BY <1>1, ConstantsAssumption
  <2> QED BY <2>1, <2>2
<1>5. /\ top' \in [session : 0 .. MaxSession, id : 0 .. MaxId, reg : 0 .. MaxReg,
                   pass : 0 .. MaxPass, key : 0 .. MaxKey]
      /\ top'.id = top.id /\ top'.pass = top.pass + 1
  <2>1. top.reg + 1 \in 0 .. MaxReg
    BY <1>4
  <2>2. top' = [top EXCEPT !.reg = top.reg + 1, !.pass = top.pass + 1]
    BY <1>1
  <2> QED BY <1>3, <1>4, <2>1, <2>2
<1>6. moved \in BOOLEAN
  BY DEF TopOK
<1>7. CASE ~Registered(c)
  <2>1. /\ s \in Reg /\ s.rid = top.reg + 1 /\ s.founder = Own(u) /\ s.pass = top.pass + 1
        /\ s.plus = {"n", "t"} /\ s.minus = {"k", "H"} /\ s.id = NoIdent
    <3>1. {"encrypt", "ident"} \in SUBSET ChanFlags /\ {"n", "t"} \in SUBSET LockModes
          /\ {"k", "H"} \in SUBSET LockModes
      BY DEF ChanFlags, LockModes
    <3> QED BY <1>2, <1>4, <3>1, NewRegIn
  <2>2. s.plus \cap s.minus = {}
    BY <2>1
  <2>3. moved' = moved
    BY <1>1, <1>6, <1>7
  <2>4. top.pass + 1 <= top.pass + 1
    BY <1>4
  <2>5. /\ reg' = [reg EXCEPT ![c] = s]
        /\ ptr' = IF ptr[c] = -1 THEN ptr ELSE [ptr EXCEPT ![c] = s.rid]
        /\ chans' = [chans EXCEPT ![s.founder] = @ + 1]
    BY <1>1, <1>7, <2>1
  <2>6. /\ s.founder # 0 /\ Live(s.founder) /\ s.founder <= top.id
        /\ s.pass <= top'.pass /\ top.pass <= top'.pass
    BY <1>2, <1>4, <1>5, <2>1, <2>4
  <2> HIDE DEF s
  <2> QED BY <1>1, <1>5, <1>7, <2>1, <2>2, <2>3, <2>5, <2>6, NewHolds
<1>8. CASE Registered(c)
  <2>1. ptr' = ptr
    <3>1. reg[c].rid \in 1 .. MaxReg /\ ptr[c] \in -1 .. MaxReg /\ MaxReg \in Nat
      BY <1>8, RegIn, ConstantsAssumption DEF TypeOK
    <3>2. ptr[c] # -1 => ptr[c] = reg[c].rid
      BY DEF PointersAgree
    <3>3. ptr[c] = -1
      BY <1>1, <3>1, <3>2
    <3> QED BY <1>1, <3>3
  <2>2. reg' = reg /\ moved' = TRUE
    BY <1>1, <1>8
  <2>3. /\ PointersAgree' /\ LocksExclusive' /\ Trusted' /\ ProtectedStep
        /\ \A d : Registered(d)' <=> Registered(d)
    BY <2>1, <2>2, RegStays
  <2>4. TypeOK'
    <3>1. chans \in [0 .. MaxId -> Int]
      BY DEF TypeOK
    <3>2. chans[Own(u)] + 1 \in Int
      BY <1>2, <3>1
    <3>3. chans' \in [0 .. MaxId -> Int]
      BY <1>1, <3>1, <3>2
    <3> QED BY <1>1, <2>1, <2>2, <3>3 DEF TypeOK
  <2>5. TopOK' /\ NamesOK'
    BY <1>1, <1>5, <2>2 DEF TopOK, NamesOK, Online
  <2>6. NumbersOK'
    <3>1. ASSUME NEW d \in Chans, Registered(d) PROVE reg[d].founder <= top'.id /\ reg[d].pass <= top'.pass
      <4>1. reg[d].founder <= top.id /\ reg[d].pass <= top.pass /\ reg[d] \in Reg
        BY <3>1, RegIn DEF NumbersOK
      <4>2. reg[d].pass \in 0 .. MaxPass /\ top.pass \in 0 .. MaxPass
        BY <1>3, <4>1 DEF Reg
      <4>3. MaxPass \in Nat
        BY ConstantsAssumption
      <4>4. reg[d].pass <= top.pass + 1
        BY <4>1, <4>2, <4>3
      <4> QED BY <1>5, <4>1, <4>4
    <3>2. \A n \in Nicks : ident'[n] <= top'.id
      BY <1>1, <1>5 DEF NumbersOK
    <3> QED BY <2>2, <2>3, <3>1, <3>2 DEF NumbersOK
  <2>7. ChansCounted'
    BY <2>2 DEF ChansCounted
  <2> QED BY <2>3, <2>4, <2>5, <2>6, <2>7
<1> QED BY <1>7, <1>8

\* BANISH of a name that nobody registered.
LEMMA BanishNewHolds ==
    ASSUME AccessInv, NEW u \in Users, NEW c \in Chans, BanishNew(u, c)
    PROVE  AccessInv' /\ ProtectedStep
<1> USE DEF AccessInv, Shape
<1> DEFINE s == NewReg(top.reg + 1, 0, 0, {"banish", "encrypt"}, {"n", "t"}, {"k"})
<1>1. /\ ~Registered(c) /\ top.reg < MaxReg
      /\ reg' = [reg EXCEPT ![c] = s]
      /\ ptr' = IF ptr[c] = -1 THEN ptr ELSE [ptr EXCEPT ![c] = top.reg + 1]
      /\ top' = [top EXCEPT !.reg = @ + 1]
      /\ UNCHANGED <<users, ident, chans, trig, keys, moved, focus>>
  BY DEF BanishNew
<1>2. top \in [session : 0 .. MaxSession, id : 0 .. MaxId, reg : 0 .. MaxReg,
               pass : 0 .. MaxPass, key : 0 .. MaxKey]
  BY DEF TopOK
<1>3. top.reg + 1 \in 1 .. MaxReg
  <2>1. top.reg \in 0 .. MaxReg
    BY <1>2
  <2>2. MaxReg \in Nat /\ top.reg < MaxReg
    BY <1>1, ConstantsAssumption
  <2> QED BY <2>1, <2>2
<1>4. /\ top' \in [session : 0 .. MaxSession, id : 0 .. MaxId, reg : 0 .. MaxReg,
                   pass : 0 .. MaxPass, key : 0 .. MaxKey]
      /\ top'.id = top.id /\ top'.pass = top.pass
  <2>1. top.reg + 1 \in 0 .. MaxReg
    BY <1>3
  <2> QED BY <1>1, <1>2, <2>1
<1>5. 0 \in 0 .. MaxId /\ 0 \in 0 .. MaxPass
  BY ConstantsAssumption
<1>6. /\ s \in Reg /\ s.rid = top.reg + 1 /\ s.founder = 0 /\ s.pass = 0
      /\ s.plus = {"n", "t"} /\ s.minus = {"k"} /\ s.id = NoIdent
  <2>1. {"banish", "encrypt"} \in SUBSET ChanFlags /\ {"n", "t"} \in SUBSET LockModes
        /\ {"k"} \in SUBSET LockModes
    BY DEF ChanFlags, LockModes
  <2> QED BY <1>3, <1>5, <2>1, NewRegIn
<1>7. s.plus \cap s.minus = {}
  BY <1>6
<1>8. 0 <= top.id /\ 0 <= top.pass /\ top.pass <= top.pass
  <2>1. top.id \in 0 .. MaxId /\ top.pass \in 0 .. MaxPass
    BY <1>2
  <2> QED BY <2>1, ConstantsAssumption
<1>9. ptr' = IF ptr[c] = -1 THEN ptr ELSE [ptr EXCEPT ![c] = s.rid]
  BY <1>1, <1>6
<1> HIDE DEF s
<1> QED BY <1>1, <1>4, <1>6, <1>7, <1>8, <1>9, NewHolds

\* A registration changes hands.
LEMMA ReplaceHolds ==
    ASSUME AccessInv, NEW c \in Chans, Registered(c), ~Closed(reg[c]),
           NEW l, Tame(reg[c], l), NEW f \in 0 .. MaxId, f <= top.id,
           reg' = [reg EXCEPT ![c] = [l EXCEPT !.founder = f]],
           ptr' = ptr \/ (ptr[c] # -1 /\ ptr' = [ptr EXCEPT ![c] = reg[c].rid]),
           UNCHANGED <<users, ident, trig, top>>, moved' \in BOOLEAN,
           chans' \in [0 .. MaxId -> Int], ChansCounted'
    PROVE  AccessInv' /\ ProtectedStep
<1> USE DEF AccessInv, Shape
<1> DEFINE s == [l EXCEPT !.founder = f]
<1>1. reg \in [Chans -> Reg \cup {NoReg}] /\ NoReg \notin Reg
  BY DEF TypeOK, NoReg, Reg
<1>2. l \in Reg /\ l.rid = reg[c].rid /\ l.pass = reg[c].pass
  BY DEF Tame, Keeps
<1>3. s \in Reg
  BY <1>2 DEF Reg
<1>4. /\ s.rid = l.rid /\ s.founder = f /\ s.plus = l.plus /\ s.minus = l.minus
      /\ s.id = l.id /\ s.pass = l.pass /\ s.real = l.real /\ s.flags = l.flags
  BY <1>2 DEF Reg
<1>5. reg' = [reg EXCEPT ![c] = s]
  OBVIOUS
<1> HIDE DEF s
<1>6. reg'[c] = s /\ \A d \in Chans : d # c => reg'[d] = reg[d]
  BY <1>1, <1>5
<1>7. \A d \in Chans : Registered(d)' <=> Registered(d)
  BY <1>1, <1>3, <1>6 DEF Registered
<1>8. Proved(s) /\ Sealed(s) /\ s.plus \cap s.minus = {}
  <2>1. Proved(reg[c]) /\ Sealed(reg[c]) /\ reg[c].plus \cap reg[c].minus = {}
    BY DEF Trusted, LocksExclusive
  <2>2. Proved(l) /\ Sealed(l) /\ l.plus \cap l.minus = {}
    BY <2>1 DEF Tame, Keeps
  <2>3. Proved(s)
    BY <1>4, <2>2 DEF Proved
  <2>4. Sealed(s)
    BY <1>4, <2>2 DEF Sealed
  <2> QED BY <1>4, <2>2, <2>3, <2>4
<1>9. TypeOK'
  <2>1. reg' \in [Chans -> Reg \cup {NoReg}]
    BY <1>1, <1>3, <1>5
  <2>2. ptr' \in [Chans -> -1 .. MaxReg]
    <3>1. ptr \in [Chans -> -1 .. MaxReg]
      BY DEF TypeOK
    <3>2. reg[c].rid \in -1 .. MaxReg
      BY RegIn, ConstantsAssumption
    <3> QED BY <3>1, <3>2
  <2> QED BY <2>1, <2>2 DEF TypeOK
<1>10. TopOK' /\ NamesOK'
  BY DEF TopOK, NamesOK, Online
<1>11. NumbersOK'
  <2>1. reg[c].pass <= top.pass
    BY DEF NumbersOK
  <2> QED BY <1>2, <1>4, <1>6, <1>7, <2>1 DEF NumbersOK
<1>12. PointersAgree'
  <2> SUFFICES ASSUME NEW d \in Chans, ptr'[d] # -1 PROVE ptr'[d] = reg'[d].rid
    BY DEF PointersAgree
  <2>1. reg'[d].rid = reg[d].rid
    BY <1>2, <1>4, <1>6
  <2>2. ptr \in [Chans -> -1 .. MaxReg]
    BY DEF TypeOK
  <2> QED BY <2>1, <2>2 DEF PointersAgree
<1>13. LocksExclusive' /\ Trusted'
  BY <1>6, <1>7, <1>8 DEF LocksExclusive, Trusted
<1>14. ProtectedStep
  <2>1. \A d \in Chans : Registered(d) => reg'[d] # NoReg
    BY <1>7 DEF Registered
  <2>2. \A d \in Chans : Closed(reg[d]) => reg'[d] = reg[d]
    BY <1>6
  <2> QED BY <2>1, <2>2 DEF ProtectedStep, Closed, Calm
<1> QED BY <1>9, <1>10, <1>11, <1>12, <1>13, <1>14

\* SET FOUNDER and DMOD FOUNDER.
LEMMA FounderHolds ==
    ASSUME AccessInv, NEW u \in Users, NEW ov, NEW c \in Chans,
           SetFounder(u, ov, c) \/ \E n \in Nicks : DmodFounder(u, ov, c, n)
    PROVE  AccessInv' /\ ProtectedStep
<1> USE DEF AccessInv, Shape
<1> DEFINE r == reg[c]
           L == Looked(r, u, ov)
           f == Own(u)
<1>1. chans \in [0 .. MaxId -> Int] /\ reg \in [Chans -> Reg \cup {NoReg}] /\ moved \in BOOLEAN
  BY DEF TypeOK, TopOK
<1>2. ASSUME SetFounder(u, ov, c) PROVE AccessInv' /\ ProtectedStep
  <2>1. /\ MaySet({"founder", "nicks"}, u, ov, c, 0)
        /\ chans' = [Discount(c, chans) EXCEPT ![f] = @ + 1]
        /\ reg' = [reg EXCEPT ![c] = [L EXCEPT !.founder = f]]
        /\ ptr' = ptr \/ (ptr[c] # -1 /\ ptr' = [ptr EXCEPT ![c] = reg[c].rid])
        /\ UNCHANGED <<users, ident, trig, top, moved>>
    BY <1>2 DEF SetFounder, Set, Put
  <2>2. Ask({"founder", "nicks"}, u, ov, c) /\ Registered(c) /\ r \in Reg /\ ~Closed(r)
    BY <2>1, SetAllowed
  <2>3. f \in 0 .. MaxId /\ f # 0 /\ users[u].nick \in Nicks
    BY <2>2, Asked
  <2>4. f <= top.id /\ Live(f)
    BY <2>3 DEF NumbersOK, Own, Live
  <2>5. Tame(r, L)
    BY <2>2, LookedTame
  <2> DEFINE D == Discount(c, chans)
  <2>6. /\ D \in [0 .. MaxId -> Int]
        /\ \A i \in 0 .. MaxId : Live(i) =>
              /\ r.founder = i => D[i] = chans[i] - 1
              /\ r.founder # i => D[i] = chans[i]
    BY <1>1, DiscountIs
  <2> HIDE DEF D
  <2>7. chans' = [D EXCEPT ![f] = D[f] + 1] /\ D[f] + 1 \in Int
    BY <2>1, <2>3, <2>6 DEF D
  <2>8. chans' \in [0 .. MaxId -> Int]
    BY <2>6, <2>7
  <2>9. reg'[c].founder = f /\ \A d \in Chans : d # c => reg'[d] = reg[d]
    <3>1. L \in Reg
      BY <2>5 DEF Tame, Keeps
    <3>2. [L EXCEPT !.founder = f].founder = f
      BY <3>1 DEF Reg
    <3> QED BY <1>1, <2>1, <3>2
  <2>10. \A d \in Chans : Registered(d)' <=> Registered(d)
    <3>1. [L EXCEPT !.founder = f] \in Reg
      BY <2>3, <2>5 DEF Tame, Keeps, Reg
    <3>2. NoReg \notin Reg
      BY DEF NoReg, Reg
    <3> QED BY <1>1, <2>1, <2>2, <2>9, <3>1, <3>2 DEF Registered
  <2>11. ChansCounted'
    <3> SUFFICES ASSUME NEW i \in 0 .. MaxId, Live(i), chans[i] = Cardinality(Founded(i))
                 PROVE  chans'[i] = Cardinality(Founded(i)')
      BY <2>1, CountedBy
    <3> DEFINE F == Founded(i)
    <3>1. IsFiniteSet(F)
      <4>1. F \in SUBSET Chans
        BY DEF Founded
      <4> QED BY <4>1, FS_Subset, ConstantsAssumption
    <3>2. c \in F <=> r.founder = i
      BY <2>2 DEF Founded
    <3>3. /\ f = i => Founded(i)' = F \cup {c}
          /\ f # i => Founded(i)' = F \ {c}
      BY <2>2, <2>9, <2>10 DEF Founded
    <3>4. chans[i] = Cardinality(F) /\ chans[i] \in Int
      BY <1>1
    <3>5. /\ r.founder = i => D[i] = chans[i] - 1
          /\ r.founder # i => D[i] = chans[i]
      BY <2>6
    <3>6. /\ f = i => chans'[i] = D[i] + 1
          /\ f # i => chans'[i] = D[i]
      BY <2>6, <2>7
    <3> HIDE DEF F
    <3>7. /\ Cardinality(F \cup {c}) = IF c \in F THEN Cardinality(F) ELSE Cardinality(F) + 1
          /\ Cardinality(F \ {c}) = IF c \in F THEN Cardinality(F) - 1 ELSE Cardinality(F)
      BY <3>1, FS_AddElement, FS_RemoveElement
    <3>8. CASE f = i
      <4>1. Founded(i)' = F \cup {c} /\ chans'[i] = D[i] + 1
        BY <3>3, <3>6, <3>8
      <4>2. chans'[i] = Cardinality(F \cup {c})
        BY <3>2, <3>4, <3>5, <3>7, <4>1
      <4> QED BY <4>1, <4>2
    <3>9. CASE f # i
      <4>1. Founded(i)' = F \ {c} /\ chans'[i] = D[i]
        BY <3>3, <3>6, <3>9
      <4>2. chans'[i] = Cardinality(F \ {c})
        BY <3>2, <3>4, <3>5, <3>7, <4>1
      <4> QED BY <4>1, <4>2
    <3> QED BY <3>8, <3>9
  <2>12. moved' \in BOOLEAN /\ UNCHANGED <<users, ident, trig, top>>
    BY <1>1, <2>1
  <2> HIDE DEF L, f, r
  <2> QED BY <2>1, <2>2, <2>3, <2>4, <2>5, <2>8, <2>11, <2>12, ReplaceHolds DEF r
<1>3. ASSUME NEW n \in Nicks, DmodFounder(u, ov, c, n) PROVE AccessInv' /\ ProtectedStep
  <2>1. /\ Ask({"opers"}, u, ov, c) /\ IsOper(u)
        /\ reg' = [reg EXCEPT ![c] = [r EXCEPT !.founder = ident[n]]]
        /\ moved' = TRUE
        /\ UNCHANGED <<users, ident, chans, ptr, trig, top>>
    BY <1>3 DEF DmodFounder, MayDmod, Put
  <2>2. Registered(c) /\ r \in Reg /\ ~Closed(r)
    BY <2>1, Asked, Denied
  <2>3. ident[n] \in 0 .. MaxId /\ ident[n] <= top.id
    BY DEF TypeOK, NumbersOK
  <2>4. Tame(r, r)
    BY <2>2 DEF Tame, Keeps
  <2>5. ChansCounted'
    BY <2>1 DEF ChansCounted
  <2> QED BY <1>1, <2>1, <2>2, <2>3, <2>4, <2>5, ReplaceHolds
<1> QED BY <1>2, <1>3
-----------------------------------------------------------------------------
(* The theorems.                                                             *)

\* The databases are in order when the program has loaded them.
LEMMA InitHolds ==
    ASSUME Init
    PROVE  AccessInv
<1>1. Cardinality(Nicks) \in Nat /\ Cardinality(Nicks) > 0 /\ Cardinality(Nicks) <= MaxId
  <2>1. IsFiniteSet(Nicks) /\ Nicks # {}
    BY ConstantsAssumption
  <2>2. Cardinality(Nicks) \in Nat /\ Cardinality(Nicks) # 0
    BY <2>1, FS_CardinalityType, FS_EmptySet
  <2> QED BY <2>2, ConstantsAssumption
<1>2. /\ MaxId \in Nat /\ MaxSession \in Nat /\ MaxReg \in Nat /\ MaxReg > 0 /\ MaxPass \in Nat /\ MaxPass > 0
      /\ MaxKey \in Nat /\ OpLimit \in Nat /\ AkickLimit \in Nat
  BY ConstantsAssumption
<1>3. Cardinality(Nicks) \in 0 .. MaxId /\ 1 \in 0 .. MaxId /\ 1 \in 1 .. MaxReg /\ 1 \in 0 .. MaxPass
      /\ 1 <= Cardinality(Nicks) /\ 1 \in 0 .. MaxReg /\ 0 \in 0 .. MaxSession /\ 0 \in 0 .. MaxKey
      /\ 0 \in 0 .. MaxReg /\ 0 \in 0 .. MaxPass /\ 1 <= 1 /\ 0 \in 0 .. MaxId /\ 0 \in 0 .. 3
  BY <1>1, <1>2
<1> DEFINE s == NewReg(1, 1, 1, {"encrypt", "ident"}, {"n", "t"}, {"k", "H"})
<1>4. /\ s \in Reg /\ s.rid = 1 /\ s.founder = 1 /\ s.pass = 1
      /\ s.plus = {"n", "t"} /\ s.minus = {"k", "H"} /\ s.id = NoIdent
  <2>1. {"encrypt", "ident"} \in SUBSET ChanFlags /\ {"n", "t"} \in SUBSET LockModes
        /\ {"k", "H"} \in SUBSET LockModes
    BY DEF ChanFlags, LockModes
  <2> QED BY <1>3, <2>1, NewRegIn
<1>5. /\ users = [u \in Users |-> Off] /\ ident = Registry
      /\ trig = [c \in Chans |-> [ops |-> 0, aks |-> 0]]
      /\ ptr = [c \in Chans |-> -1] /\ moved = FALSE
  BY DEF Init
<1>6. PICK known \in BOOLEAN :
        /\ top = [session |-> 0, id |-> Cardinality(Nicks), reg |-> IF known THEN 1 ELSE 0,
                  pass |-> IF known THEN 1 ELSE 0, key |-> 0]
        /\ chans = [i \in 0 .. MaxId |-> IF known /\ i = 1 THEN Cardinality(Chans) ELSE 0]
        /\ reg = [c \in Chans |-> IF known THEN s ELSE NoReg]
  BY DEF Init
<1> HIDE DEF s
<1>7. NoReg \notin Reg
  BY DEF NoReg, Reg
<1>8. TypeOK
  <2>1. users \in [Users -> [nick : Nicks \cup {""}, num : 0 .. MaxSession, acc : 0 .. 3, remote : 0 .. MaxId]]
    <3>1. Off \in [nick : Nicks \cup {""}, num : 0 .. MaxSession, acc : 0 .. 3, remote : 0 .. MaxId]
      BY <1>3 DEF Off
    <3> QED BY <1>5, <3>1
  <2>2. ident \in [Nicks -> 0 .. MaxId]
    <3>1. Registry \in [Nicks -> 1 .. Cardinality(Nicks)]
      BY ConstantsAssumption
    <3>2. \A i \in 1 .. Cardinality(Nicks) : i \in 0 .. MaxId
      BY <1>1, <1>2
    <3> QED BY <1>5, <3>1, <3>2
  <2>3. chans \in [0 .. MaxId -> Int]
    <3>1. Cardinality(Chans) \in Int
      BY FS_CardinalityType, ConstantsAssumption
    <3>2. \A i \in 0 .. MaxId : (IF known /\ i = 1 THEN Cardinality(Chans) ELSE 0) \in Int
      BY <3>1
    <3> QED BY <1>6, <3>2
  <2>4. reg \in [Chans -> Reg \cup {NoReg}]
    BY <1>4, <1>6
  <2>5. ptr \in [Chans -> -1 .. MaxReg]
    <3>1. -1 \in -1 .. MaxReg
      BY <1>2
    <3> QED BY <1>5, <3>1
  <2>6. trig \in [Chans -> [ops : 0 .. OpLimit + 1, aks : 0 .. AkickLimit + 1]]
    <3>1. 0 \in 0 .. OpLimit + 1 /\ 0 \in 0 .. AkickLimit + 1
      BY <1>2
    <3> QED BY <1>5, <3>1
  <2> QED BY <2>1, <2>2, <2>3, <2>4, <2>5, <2>6 DEF TypeOK
<1>9. TopOK
  <2>1. (IF known THEN 1 ELSE 0) \in 0 .. MaxReg /\ (IF known THEN 1 ELSE 0) \in 0 .. MaxPass
    BY <1>3
  <2> QED BY <1>3, <1>5, <1>6, <2>1 DEF TopOK
<1>10. NamesOK
  BY <1>5 DEF NamesOK, Online, Off
<1>11. \A c \in Chans : Registered(c) => known /\ reg[c] = s
  BY <1>6 DEF Registered
<1>12. NumbersOK
  <2>1. ASSUME NEW n \in Nicks PROVE ident[n] <= top.id
    <3>1. ident[n] \in 1 .. Cardinality(Nicks)
      BY <1>5, ConstantsAssumption
    <3> QED BY <1>1, <1>6, <3>1
  <2>2. ASSUME NEW c \in Chans, Registered(c) PROVE reg[c].founder <= top.id /\ reg[c].pass <= top.pass
    <3>1. known /\ reg[c] = s
      BY <1>11, <2>2
    <3>2. top.id = Cardinality(Nicks) /\ top.pass = 1
      BY <1>6, <3>1
    <3> QED BY <1>3, <1>4, <3>1, <3>2
  <2> QED BY <2>1, <2>2 DEF NumbersOK
<1>13. PointersAgree
  BY <1>5 DEF PointersAgree
<1>14. LocksExclusive
  BY <1>4, <1>11 DEF LocksExclusive
<1>15. Trusted
  <2>1. Proved(s) /\ Sealed(s)
    BY <1>4 DEF Proved, Sealed
  <2> QED BY <1>11, <2>1 DEF Trusted
<1>16. ChansCounted
  <2> SUFFICES ASSUME NEW n \in Nicks
               PROVE  chans[ident[n]] = Cardinality(Founded(ident[n]))
    BY DEF ChansCounted, Founded
  <2>1. PICK i : i = ident[n]
    OBVIOUS
  <2>2. i \in 0 .. MaxId
    BY <1>8, <2>1 DEF TypeOK
  <2>3. CASE known /\ i = 1
    <3>1. Founded(i) = Chans
      BY <1>4, <1>6, <1>7, <2>3 DEF Founded, Registered
    <3>2. chans[i] = Cardinality(Chans)
      BY <1>6, <2>2, <2>3
    <3> QED BY <2>1, <3>1, <3>2
  <2>4. CASE ~(known /\ i = 1)
    <3>1. Founded(i) = {}
      BY <1>4, <1>11, <2>4 DEF Founded
    <3>2. chans[i] = 0
      BY <1>6, <2>2, <2>4
    <3> QED BY <2>1, <3>1, <3>2, FS_EmptySet
  <2> QED BY <2>3, <2>4
<1> QED BY <1>8, <1>9, <1>10, <1>12, <1>13, <1>14, <1>15, <1>16 DEF AccessInv, Shape

\* Every command preserves the invariant, and heeds a transfer and a hold.
LEMMA CommandHolds ==
    ASSUME AccessInv, NEW u \in Users, NEW ov \in BOOLEAN, NEW c \in Chans,
           \/ FounderCommand(u, ov, c) \/ KeyCommand(u, ov, c) \/ OpsCommand(u, ov, c)
           \/ RuleCommand(u, ov, c) \/ OperCommand(u, ov, c)
    PROVE  AccessInv' /\ ProtectedStep
<1>1. CASE FounderCommand(u, ov, c)
  <2>1. CASE \E op \in BOOLEAN : Register(u, ov, c, op)
    BY <2>1, RegisterHolds
  <2>2. CASE Drop(u, c)
    BY <2>2, UnregisterHolds
  <2>3. CASE SetFounder(u, ov, c)
    BY <2>3, FounderHolds
  <2>4. CASE Identify(u, c) \/ SetPasswd(u, ov, c) \/ BadPw(u, c)
    BY <2>4, IdentifyEdits, SetPasswdEdits, EventEdits, EditsHold
  <2> QED BY <1>1, <2>1, <2>2, <2>3, <2>4 DEF FounderCommand
<1>2. CASE KeyCommand(u, ov, c)
  BY <1>2, GetpassEdits, SetpassEdits, SetrealpassEdits, EditsHold DEF KeyCommand
<1>3. CASE OpsCommand(u, ov, c)
  <2>1. \/ \E n \in Nicks, level \in -1 .. 15 : AddOp(u, ov, c, n, level)
        \/ \E i \in 1 .. MaxId : DelOp(u, ov, c, i)
    <3>1. {CommandLevel(a, l) : a \in Aliases, l \in Levels} \subseteq -1 .. 15
      BY CommandLevelIn
    <3> QED BY <1>3, <3>1 DEF OpsCommand
  <2> QED BY <2>1, OpsEdits, EditsHold
<1>4. CASE RuleCommand(u, ov, c)
  <2>1. CASE \E level \in Levels : \/ SetRestrict(u, ov, c, level) \/ SetTopiclock(u, ov, c, level)
                                   \/ SetMemolevel(u, ov, c, level)
    BY <2>1, SetLevelEdits, EditsHold
  <2>2. CASE \E arg \in Locks : SetMlock(u, ov, c, arg)
    BY <2>2, SetMlockEdits, EditsHold
  <2>3. CASE \E on \in BOOLEAN : SetEncrypt(u, ov, c, on) \/ SetIdent(u, ov, c, on)
    BY <2>3, SetFlagEdits, EditsHold
  <2>4. CASE \/ \E on \in BOOLEAN : DelAkicks(u, ov, c, on)
             \/ \E v \in Users : AddAkick(u, ov, c, v)
    BY <2>4, AkickEdits, EditsHold
  <2>5. CASE Topic(u, c)
    BY <2>5, EventEdits, EditsHold
  <2>6. CASE Clean(u, ov, c) \/ WipeOp(u, ov, c)
    BY <2>6, OpsEdits, EditsHold
  <2>7. CASE \E t \in Limits : Trigger(u, c, t)
    BY <2>7, TriggerEdits, EditsHold
  <2> QED BY <1>4, <2>1, <2>2, <2>3, <2>4, <2>5, <2>6, <2>7 DEF RuleCommand
<1>5. CASE OperCommand(u, ov, c)
  <2>1. CASE BanishNew(u, c)
    BY <2>1, BanishNewHolds
  <2>2. CASE Delete(u, ov, c)
    BY <2>2, UnregisterHolds
  <2>3. CASE \E n \in Nicks : DmodFounder(u, ov, c, n)
    BY <2>3, FounderHolds
  <2>4. CASE \/ \E on \in BOOLEAN : \/ Banish(u, ov, c, on) \/ Close(u, ov, c, on)
                                    \/ Hold(u, ov, c, on) \/ Mark(u, ov, c, on)
             \/ DmodTopic(u, ov, c)
    BY <2>4, OperEdits, EditsHold
  <2> QED BY <1>5, <2>1, <2>2, <2>3, <2>4 DEF OperCommand
<1> QED BY <1>1, <1>2, <1>3, <1>4, <1>5

\* So does every step.
LEMMA NextHolds ==
    ASSUME AccessInv, [Next]_vars
    PROVE  AccessInv' /\ ProtectedStep
<1>1. CASE Network
  <2>1. CASE \E u \in Users, n \in Nicks : SignOn(u, n) \/ NickIdentify(u, n)
    BY <2>1, UsersHold
  <2>2. CASE \E u \in Users, n \in Nicks : NickChange(u, n)
    BY <2>2, NickChangeHolds
  <2>3. CASE \E u \in Users : SignOff(u)
    <3>1. PICK n : n \in Nicks
      BY ConstantsAssumption
    <3> QED BY <2>3, <3>1, UsersHold
  <2>4. CASE (\E u \in Users : NickRegister(u)) \/ \E n \in Nicks : NickDrop(n)
    BY <2>4, NicksHold
  <2>5. CASE \E c \in Chans : Appear(c) \/ Vanish(c)
    BY <2>5, PointersHold
  <2>6. CASE \E c \in Chans : Age(c)
    BY <2>6, AgeEdits, EditsHold
  <2> QED BY <1>1, <2>1, <2>2, <2>3, <2>4, <2>5, <2>6 DEF Network
<1>2. CASE ExpireChans
  BY <1>2, ExpireHolds
<1>3. CASE \E u \in Users, c \in Chans : Look(u, c)
  BY <1>3, EventEdits, EditsHold
<1>4. CASE \E u \in Users, ov \in BOOLEAN, c \in Chans :
             \/ FounderCommand(u, ov, c) \/ KeyCommand(u, ov, c) \/ OpsCommand(u, ov, c)
             \/ RuleCommand(u, ov, c) \/ OperCommand(u, ov, c)
  BY <1>4, CommandHolds
<1>5. CASE UNCHANGED vars
  <2>1. UNCHANGED <<users, ident, chans, reg, ptr, trig, top, moved>>
    BY <1>5 DEF vars
  <2> QED BY <2>1, RegSame DEF AccessInv, Shape, TypeOK, TopOK, NamesOK, NumbersOK, Online, Registered,
                               PointersAgree, LocksExclusive, Trusted, ChansCounted
<1> QED BY <1>1, <1>2, <1>3, <1>4, <1>5 DEF Next

\* The invariant holds in every state.
LEMMA Invariant == Spec => []AccessInv
<1>1. Init => AccessInv
  BY InitHolds
<1>2. AccessInv /\ [Next]_vars => AccessInv'
  BY NextHolds
<1> QED BY <1>1, <1>2, PTL DEF Spec

\* Every variable keeps its type: no command stores a level, a number or a flag
\* that its field cannot hold (chanserv.c).
THEOREM TypeCorrect == Spec => []TypeOK
<1>1. AccessInv => TypeOK
  BY DEF AccessInv, Shape
<1> QED BY <1>1, Invariant, PTL

\* A channel in use knows its registration and no other, each nick counts its
\* channels, and no mode is locked both ways (cs_register, delRegChan,
\* cs_set_founder, cs_set_mlock).
THEOREM RegistrationsConsistent == Spec => []Consistent
<1>1. AccessInv => Consistent
  BY DEF AccessInv, Shape, Consistent
<1> QED BY <1>1, Invariant, PTL

\* Who is founder by password has given the password of now, and nobody inherits
\* it (isFounder, clearChanIdent).
THEOREM FoundersProved == Spec => []FounderProved
<1>1. AccessInv => FounderProved
  <2> SUFFICES ASSUME AccessInv, NEW u \in Users, NEW c \in Chans,
                      Registered(c), isFounder(reg[c], u, FALSE), ~reg[c].real,
                      ~(reg[c].facc /\ reg[c].founder = Own(u))
               PROVE  reg[c].id.pass = reg[c].pass /\ reg[c].id.num = users[u].num
    BY DEF FounderProved
  <2>1. IdHolds(reg[c], u)
    BY DEF isFounder
  <2>2. reg[c].id # NoIdent /\ reg[c].id.num = users[u].num
    BY <2>1 DEF IdHolds
  <2>3. Proved(reg[c])
    BY DEF AccessInv, Trusted
  <2> QED BY <2>2, <2>3 DEF Proved
<1> QED BY <1>1, Invariant, PTL

\* Only the key changes a channel that is being transferred while no operator is
\* there, and a held channel is not lost while no services root is (cs_getpass,
\* cs_set, getMiscChanOp, cs_drop, cs_delete, expireChans).
THEOREM TransfersProtected == Spec => Protected
<1>1. AccessInv /\ [Next]_vars => [ProtectedStep]_vars
  BY NextHolds
<1>2. Spec => [][ProtectedStep]_vars
  BY <1>1, Invariant, PTL DEF Spec
<1> QED BY <1>2 DEF Protected, ProtectedStep

LevelsStep ==
    \A c \in Chans : Registered(c) /\ reg'[c] # NoReg /\ reg'[c].ops # reg[c].ops =>
        \A u \in Users, i \in 1 .. MaxId :
            LET old == reg[c].ops[i]
                new == reg'[c].ops[i]
                my == getChanOp(reg[c], u, FALSE) IN
            /\ old # new /\ my < FOUNDER
            /\ \/ \E n \in Nicks, level \in {0, new} : ident[n] = i /\ AddOp(u, FALSE, c, n, level)
               \/ DelOp(u, FALSE, c, i)
            => (old < my /\ new < my) \/ (i = Own(u) /\ new = 0)

\* What a level below founder may edit is below it.
LEMMA EditBelow ==
    ASSUME NEW my \in -1 .. 14, NEW low \in {AOP - 1, AOP}, NEW level \in 1 .. 15, level <= MaxEdit(my, low)
    PROVE  level < my
<1>1. MaxEdit(my, low) \in -1 .. 14 /\ (my <= low => MaxEdit(my, low) = 0) /\ (my > low => MaxEdit(my, low) < my)
  BY DEF MaxEdit, AOP, MSOP, SOP, MAOP, FOUNDER
<1> QED BY <1>1 DEF AOP

\* Without an override, and below founder, the shortcuts of the commands on the
\* access list are closed.
LEMMA NoShortcut ==
    ASSUME AccessInv, NEW u \in Users, NEW c \in Chans, MayEditOps(u, FALSE, c),
           getChanOp(reg[c], u, FALSE) < FOUNDER
    PROVE  /\ Registered(c) /\ reg[c] \in Reg /\ getChanOp(reg[c], u, FALSE) \in -1 .. 14
           /\ ~opFlagged(u, FALSE, {"dmod", "oacc"}) /\ ~DirectMod(u, FALSE)
           /\ ~isFounder(reg[c], u, FALSE)
<1>1. Ask({"ops"}, u, FALSE, c)
  BY DEF MayEditOps
<1>2. Registered(c) /\ reg[c] \in Reg /\ Online(u)
  BY <1>1, Asked DEF IsReg
<1>3. \A need : "oacc" \in need => ~opFlagged(u, FALSE, need)
  BY DEF opFlagged
<1>4. ~opFlagged(u, FALSE, {"dmod", "oacc"}) /\ ~DirectMod(u, FALSE) /\ ~opFlagged(u, FALSE, {"oacc", "dmod", "oper"})
  BY <1>3 DEF DirectMod
<1>5. getChanOp(reg[c], u, FALSE) \in -1 .. 15
  BY <1>2, AccessIn DEF getChanOp, AccessInv
<1>6. getChanOp(reg[c], u, FALSE) \in -1 .. 14 /\ getChanOp(reg[c], u, FALSE) # FOUNDER
  <2> DEFINE my == getChanOp(reg[c], u, FALSE)
  <2>1. my < FOUNDER /\ my \in -1 .. 15
    BY <1>5
  <2> HIDE DEF my
  <2>2. my \in -1 .. 14 /\ my # FOUNDER
    BY <2>1 DEF FOUNDER
  <2> QED BY <2>2 DEF my
<1>7. ASSUME isFounder(reg[c], u, FALSE)
      PROVE  FALSE
  <2>1. reg[c].flags \cap {"banish", "close"} # {} /\ ~IsOper(u)
    BY <1>2, <1>6, <1>7 DEF getChanOp, Access
  <2>2. getChanOpId(reg[c], u, FALSE) = 0
    BY <2>1 DEF getChanOpId, Access
  <2>3. opFlagged(u, FALSE, {"oacc", "dmod", "oper"}) \/ getChanOpId(reg[c], u, FALSE) >= AOP
    BY Zenon DEF MayEditOps
  <2>4. ~(getChanOpId(reg[c], u, FALSE) >= AOP)
    <3> DEFINE byId == getChanOpId(reg[c], u, FALSE)
    <3> SUFFICES ~(byId >= AOP)
      OBVIOUS
    <3>1. byId = 0
      BY <2>2
    <3> HIDE DEF byId
    <3> QED BY <3>1 DEF AOP
  <2> QED BY <1>4, <2>3, <2>4, Zenon
<1> QED BY <1>2, <1>4, <1>6, <1>7

\* ADD, for an entry that is new or changed.
LEMMA AddBounded ==
    ASSUME AccessInv, NEW u \in Users, NEW c \in Chans, NEW n \in Nicks, NEW level \in 0 .. 15,
           AddOp(u, FALSE, c, n, level), getChanOp(reg[c], u, FALSE) < FOUNDER
    PROVE  reg[c].ops[ident[n]] < getChanOp(reg[c], u, FALSE) /\ reg'[c].ops[ident[n]] < getChanOp(reg[c], u, FALSE)
<1> DEFINE r == reg[c]
           i == ident[n]
           my == getChanOp(reg[c], u, FALSE)
           new == IF level = 0 THEN MAOP ELSE level
           most == Lesser(MaxEdit(my, AOP), FOUNDER - 1)
<1>1. MayEditOps(u, FALSE, c) /\ Edit(c, [Looked(r, u, FALSE) EXCEPT !.ops[i] = new])
  BY DEF AddOp
<1>2. /\ Registered(c) /\ r \in Reg /\ my \in -1 .. 14
      /\ ~opFlagged(u, FALSE, {"dmod", "oacc"}) /\ ~isFounder(r, u, FALSE)
  BY <1>1, NoShortcut
<1>3. my # FOUNDER
  <2> HIDE DEF my
  <2> QED BY <1>2 DEF FOUNDER
<1>4. IF r.ops[i] > 0 THEN level # 0 /\ level < my /\ r.ops[i] < my
      ELSE new <= most
  BY <1>2, <1>3 DEF AddOp
<1>5. i \in 0 .. MaxId /\ r.ops \in [0 .. MaxId -> 0 .. 15]
  BY <1>2 DEF AccessInv, Shape, TypeOK, Reg
<1>6. reg'[c].ops[i] = new
  <2>1. Looked(r, u, FALSE).ops = r.ops
    <3>1. [r EXCEPT !.id = NoIdent].ops = r.ops
      BY <1>2 DEF Reg
    <3> QED BY <3>1 DEF Looked
  <2>2. Looked(r, u, FALSE) \in Reg
    BY <1>2, LookedTame DEF Tame, Keeps
  <2>3. [Looked(r, u, FALSE) EXCEPT !.ops[i] = new].ops[i] = new
    BY <1>5, <2>1, <2>2 DEF Reg
  <2>4. reg'[c] = [Looked(r, u, FALSE) EXCEPT !.ops[i] = new]
    BY <1>1 DEF Edit, Put, AccessInv, Shape, TypeOK
  <2> QED BY <2>3, <2>4
<1> SUFFICES r.ops[i] < my /\ reg'[c].ops[i] < my
  OBVIOUS
<1>7. new \in 1 .. 15 /\ (level # 0 => new = level)
  BY DEF MAOP
<1>8. r.ops[i] \in 0 .. 15
  BY <1>5
<1> HIDE DEF my, new, r, i
<1>9. CASE r.ops[i] > 0
  BY <1>4, <1>6, <1>7, <1>9
<1>10. CASE ~(r.ops[i] > 0)
  <2>1. r.ops[i] = 0
    BY <1>8, <1>10
  <2>2. new <= most
    BY <1>4, <1>10
  <2>3. MaxEdit(my, AOP) \in Int
    BY <1>2 DEF MaxEdit, AOP, MSOP, SOP, MAOP, FOUNDER
  <2>4. new <= MaxEdit(my, AOP)
    BY <1>7, <2>2, <2>3 DEF Lesser, FOUNDER
  <2>5. new < my
    BY <1>2, <1>7, <2>4, EditBelow
  <2> QED BY <1>2, <1>6, <1>7, <2>1, <2>5
<1> QED BY <1>9, <1>10

\* DEL, of one's own entry or another.
LEMMA DelBounded ==
    ASSUME AccessInv, NEW u \in Users, NEW c \in Chans, NEW i \in 1 .. MaxId,
           DelOp(u, FALSE, c, i), getChanOp(reg[c], u, FALSE) < FOUNDER
    PROVE  /\ reg'[c].ops[i] = 0
           /\ i = Own(u) \/ (reg[c].ops[i] < getChanOp(reg[c], u, FALSE) /\ 0 < getChanOp(reg[c], u, FALSE))
<1> DEFINE r == reg[c]
           my == getChanOp(reg[c], u, FALSE)
<1>1. /\ MayEditOps(u, FALSE, c) /\ Edit(c, [Looked(r, u, FALSE) EXCEPT !.ops[i] = 0])
      /\ r.ops[i] > 0
  BY DEF DelOp
<1>2. /\ Registered(c) /\ r \in Reg /\ my \in -1 .. 14 /\ ~DirectMod(u, FALSE)
  BY <1>1, NoShortcut
<1>3. i = Own(u) \/ r.ops[i] <= MaxEdit(my, AOP - 1)
  BY <1>2 DEF DelOp
<1>4. MaxId \in Nat
  BY ConstantsAssumption
<1>5. i \in 0 .. MaxId
  BY <1>4
<1>6. r.ops[i] \in 1 .. 15
  <2>1. r.ops \in [0 .. MaxId -> 0 .. 15]
    BY <1>2 DEF Reg
  <2>2. r.ops[i] \in 0 .. 15
    BY <1>5, <2>1
  <2> QED BY <1>1, <2>2
<1>7. reg'[c].ops[i] = 0
  <2>2. Looked(r, u, FALSE) \in Reg
    BY <1>2, LookedTame DEF Tame, Keeps
  <2>3. [Looked(r, u, FALSE) EXCEPT !.ops[i] = 0].ops[i] = 0
    BY <1>5, <2>2 DEF Reg
  <2>4. reg'[c] = [Looked(r, u, FALSE) EXCEPT !.ops[i] = 0]
    BY <1>1 DEF Edit, Put, AccessInv, Shape, TypeOK
  <2> QED BY <2>3, <2>4
<1> HIDE DEF my, r
<1>8. ASSUME r.ops[i] <= MaxEdit(my, AOP - 1) PROVE r.ops[i] < my
  BY <1>2, <1>6, <1>8, EditBelow
<1>9. i = Own(u) \/ (r.ops[i] < my /\ 0 < my)
  BY <1>2, <1>3, <1>6, <1>8
<1> QED BY <1>7, <1>9 DEF my, r

\* Nobody below founder gives, changes or takes an entry that is not below his
\* own level, unless it is his own that he takes off (do_chanop_add, do_chanop_del).
THEOREM LevelsKept == Spec => LevelsBounded
<1>1. AccessInv /\ AccessInv' => LevelsStep
  <2> SUFFICES ASSUME AccessInv, AccessInv', NEW c \in Chans, Registered(c), reg'[c] # NoReg,
                      NEW u \in Users, NEW i \in 1 .. MaxId, getChanOp(reg[c], u, FALSE) < FOUNDER,
                      \/ \E n \in Nicks, level \in {0, reg'[c].ops[i]} : ident[n] = i /\ AddOp(u, FALSE, c, n, level)
                      \/ DelOp(u, FALSE, c, i)
               PROVE  \/ reg[c].ops[i] < getChanOp(reg[c], u, FALSE) /\ reg'[c].ops[i] < getChanOp(reg[c], u, FALSE)
                      \/ i = Own(u) /\ reg'[c].ops[i] = 0
    BY DEF LevelsStep
  <2>1. reg'[c].ops[i] \in 0 .. 15
    <3>1. MaxId \in Nat
      BY ConstantsAssumption
    <3>2. reg'[c] \in Reg
      BY DEF AccessInv, Shape, TypeOK
    <3>3. reg'[c].ops \in [0 .. MaxId -> 0 .. 15]
      BY <3>2 DEF Reg
    <3>4. i \in 0 .. MaxId
      BY <3>1
    <3> QED BY <3>3, <3>4
  <2>2. CASE DelOp(u, FALSE, c, i)
    BY <2>2, DelBounded
  <2>3. CASE \E n \in Nicks, level \in {0, reg'[c].ops[i]} : ident[n] = i /\ AddOp(u, FALSE, c, n, level)
    <3>1. PICK n \in Nicks, level \in {0, reg'[c].ops[i]} : ident[n] = i /\ AddOp(u, FALSE, c, n, level)
      BY <2>3
    <3>2. level \in 0 .. 15
      BY <2>1
    <3> QED BY <3>1, <3>2, AddBounded
  <2> QED BY <2>2, <2>3
<1>2. AccessInv /\ AccessInv' => [LevelsStep]_vars
  BY <1>1
<1>3. Spec => [][LevelsStep]_vars
  BY <1>2, Invariant, PTL DEF Spec
<1> QED BY <1>3 DEF LevelsBounded, LevelsStep
=============================================================================
