----------------------------- MODULE AkillProofs -----------------------------
(***************************************************************************)
(* Theorems about Akill: which ban goes when, what its timer is, and that  *)
(* addakill() keeps its hands off entries that were freed.  Then about     *)
(* Conn, the server that applies the bans: its counts and pointers, its    *)
(* lists of lines, whom it lets in and which links.                        *)
(***************************************************************************)
EXTENDS Akill, Conn, FoldLemmas

(***************************************************************************)
(* The inductive invariant.                                                *)
(***************************************************************************)

\* The list at firstBanItem when top is the last id that was handed out.
BansOk(q, top) ==
    /\ q \in Seq(Ban) /\ IsInjective(q)
    /\ \A b \in ToSet(q) : b.unset >= 0 /\ b.id <= top
    /\ \A a, b \in ToSet(q) : a.id = b.id => a = b

\* What a file holds.
DiskOk(q) ==
    /\ q \in Seq(Saved) /\ IsInjective(q)
    /\ \A b \in ToSet(q) : b.unset >= 0
    /\ \A a, b \in ToSet(q) : a.id = b.id => a = b

\* The calls that are to end the bans in B.
TimersOf(B) == {[tid |-> b.tid, run |-> b.unset, mask |-> b.mask] : b \in {c \in B : c.unset # 0}}

\* Those are the calls in tm, of the first n ids, no two of them of one id.
Wired(B, tm, n) ==
    /\ tm = TimersOf(B)
    /\ \A b \in B : (b.unset = 0 => b.tid = 0) /\ (b.unset # 0 => b.tid \in 1 .. n)
    /\ \A a, b \in B : a.unset # 0 /\ a.tid = b.tid => a = b

MasksOnce(q) == \A a, b \in ToSet(q) : a.mask = b.mask => a = b

\* What holds whether or not masks are added twice.
Base ==
    /\ TypeOK
    /\ BansOk(bans, stamp) /\ DiskOk(disk)
    /\ mode # "linked" => bans = <<>> /\ timers = {}

\* What else holds when none is.
Tied == MasksOnce(bans) /\ MasksOnce(disk) /\ Wired(ToSet(bans), timers, tids)

IInv == Base /\ (~DupMasks => Tied)

\* A file of a list without repetitions has none.
LEMMA SavedIs ==
    ASSUME NEW q \in Seq(Ban), NEW top, BansOk(q, top), NEW d, d = [i \in DOMAIN q |-> ToSaved(q[i])]
    PROVE  DiskOk(d) /\ ToSet(d) = {ToSaved(b) : b \in ToSet(q)} /\ (MasksOnce(q) => MasksOnce(d))
<1>1. DOMAIN q = 1 .. Len(q) /\ Len(q) \in Nat /\ \A i \in DOMAIN q : q[i] \in Ban /\ q[i] \in ToSet(q)
  BY DEF ToSet
<1>2. \A b \in Ban : /\ ToSaved(b) \in Saved /\ ToSaved(b).id = b.id /\ ToSaved(b).mask = b.mask
                     /\ ToSaved(b).unset = b.unset
  BY DEF Ban, Saved, ToSaved
<1>3. \A i \in DOMAIN q : /\ d[i] = ToSaved(q[i]) /\ d[i] \in Saved /\ d[i].id = q[i].id
                          /\ d[i].mask = q[i].mask /\ d[i].unset = q[i].unset
  BY <1>1, <1>2
<1>4. d \in Seq(Saved) /\ DOMAIN d = DOMAIN q
  BY <1>1, <1>3
<1>5. \A s \in ToSet(d) : \E i \in DOMAIN q : s = d[i]
  BY <1>4 DEF ToSet
<1>6. \A i, j \in DOMAIN q : q[i].id = q[j].id => i = j
  BY <1>1 DEF BansOk, IsInjective
<1>7. IsInjective(d)
  BY <1>3, <1>4, <1>6 DEF IsInjective
<1>8. \A s \in ToSet(d) : s.unset >= 0
  BY <1>1, <1>3, <1>5 DEF BansOk
<1>9. \A s, t \in ToSet(d) : s.id = t.id => s = t
  BY <1>3, <1>5, <1>6
<1>10. ToSet(d) = {ToSaved(b) : b \in ToSet(q)}
  BY <1>1, <1>3, <1>4 DEF ToSet
<1>11. ASSUME MasksOnce(q), NEW s \in ToSet(d), NEW t \in ToSet(d), s.mask = t.mask PROVE s = t
  <2>1. PICK i \in DOMAIN q : s = d[i]
    BY <1>5
  <2>2. PICK j \in DOMAIN q : t = d[j]
    BY <1>5
  <2>3. q[i] = q[j]
    BY <1>1, <1>3, <1>11, <2>1, <2>2 DEF MasksOnce
  <2> QED BY <1>3, <2>1, <2>2, <2>3
<1> QED BY <1>4, <1>7, <1>8, <1>9, <1>10, <1>11 DEF DiskOk, MasksOnce

\* The entry b goes, and its timer.
LEMMA UnwiredIs ==
    ASSUME NEW B \in SUBSET Ban, NEW tm, NEW n \in Nat, Wired(B, tm, n), NEW b \in B
    PROVE  /\ Wired(B \ {b}, {t \in tm : t.tid # b.tid}, n)
           /\ b.unset # 0 => \A t \in tm : t.tid # b.tid <=>
                                t # [tid |-> b.tid, run |-> b.unset, mask |-> b.mask]
<1> DEFINE Call(c) == [tid |-> c.tid, run |-> c.unset, mask |-> c.mask]
<1>1. \A c \in B : Call(c).tid = c.tid
  OBVIOUS
<1>2. tm = {Call(c) : c \in {a \in B : a.unset # 0}}
  BY DEF Wired, TimersOf
<1>3. \A c \in B : c.unset # 0 => c.tid # 0
  BY DEF Wired
<1>4. \A c \in B : c.unset # 0 /\ c.tid = b.tid => c = b
  BY DEF Wired
<1>5. {t \in tm : t.tid # b.tid} = {Call(c) : c \in {a \in B \ {b} : a.unset # 0}}
  <2> HIDE DEF Call
  <2>1. ASSUME NEW c \in B, c.unset # 0 PROVE Call(c).tid # b.tid <=> c # b
    BY <1>1, <1>4, <2>1
  <2> QED BY <1>2, <2>1
<1>6. b.unset # 0 => \A t \in tm : t.tid # b.tid <=> t # Call(b)
  <2> HIDE DEF Call
  <2>1. \A t \in tm : b.unset # 0 /\ t.tid = b.tid => t = Call(b)
    BY <1>1, <1>2, <1>4
  <2>2. Call(b).tid = b.tid
    BY <1>1
  <2> QED BY <2>1, <2>2
<1>7. Wired(B \ {b}, {t \in tm : t.tid # b.tid}, n)
  BY <1>5 DEF Wired, TimersOf
<1> QED BY <1>6, <1>7

\* A new ban, with a timer of its own when it is for a time.
LEMMA WiredWith ==
    ASSUME NEW B \in SUBSET Ban, NEW tm, NEW n \in Nat, Wired(B, tm, n), NEW b \in Ban
    PROVE  /\ b.unset = 0 /\ b.tid = 0 => Wired(B \cup {b}, tm, n)
           /\ b.unset # 0 /\ b.tid = n + 1 =>
                 Wired(B \cup {b}, tm \cup {[tid |-> n + 1, run |-> b.unset, mask |-> b.mask]}, n + 1)
<1>1. \A c \in B : c.tid \in Nat /\ (c.unset = 0 => c.tid = 0) /\ (c.unset # 0 => c.tid \in 1 .. n)
  BY DEF Wired, Ban
<1>2. tm = TimersOf(B) /\ \A a, c \in B : a.unset # 0 /\ a.tid = c.tid => a = c
  BY DEF Wired
<1>3. ASSUME b.unset = 0, b.tid = 0 PROVE Wired(B \cup {b}, tm, n)
  <2>1. TimersOf(B \cup {b}) = TimersOf(B)
    BY <1>3 DEF TimersOf
  <2>2. \A a, c \in B \cup {b} : a.unset # 0 /\ a.tid = c.tid => a = c
    BY <1>1, <1>2, <1>3
  <2> QED BY <1>1, <1>2, <1>3, <2>1, <2>2 DEF Wired
<1>4. ASSUME b.unset # 0, b.tid = n + 1
      PROVE  Wired(B \cup {b}, tm \cup {[tid |-> n + 1, run |-> b.unset, mask |-> b.mask]}, n + 1)
  <2>1. TimersOf(B \cup {b}) = TimersOf(B) \cup {[tid |-> n + 1, run |-> b.unset, mask |-> b.mask]}
    BY <1>4 DEF TimersOf
  <2>2. \A c \in B : c.tid # n + 1
    BY <1>1
  <2>3. \A a, c \in B \cup {b} : a.unset # 0 /\ a.tid = c.tid => a = c
    BY <1>2, <1>4, <2>2
  <2>4. \A c \in B \cup {b} : (c.unset = 0 => c.tid = 0) /\ (c.unset # 0 => c.tid \in 1 .. n + 1)
    BY <1>1, <1>4
  <2> QED BY <1>2, <2>1, <2>3, <2>4 DEF Wired
<1> QED BY <1>3, <1>4
-----------------------------------------------------------------------------
(***************************************************************************)
(* The steps.                                                              *)
(***************************************************************************)

\* addakill(), for a time, for ever, or with a length that is no length.
LEMMA AddHolds ==
    ASSUME IInv, mode = "linked", NEW mask \in Masks, NEW type \in Types,
           NEW by \in Opers \cup {OperServ}, NEW length \in Int, AddAkill(mask, type, by, length)
    PROVE  IInv'
<1> DEFINE ban == [mask |-> mask, type |-> type, setby |-> by, id |-> stamp + 1,
                   unset |-> IF length = 0 THEN 0 ELSE now + length,
                   tid |-> IF length > 0 THEN tids + 1 ELSE 0]
           timer == [tid |-> tids + 1, run |-> now + length, mask |-> mask]
<1>1. /\ bans' = IF length < 0 THEN bans ELSE <<ban>> \o bans
      /\ stamp' = stamp + 1 /\ freedUse' = (freedUse \/ length < 0)
      /\ tids' = IF length > 0 THEN tids + 1 ELSE tids
      /\ timers' = IF length > 0 THEN timers \cup {timer} ELSE timers
      /\ UNCHANGED <<now, mode, disk, totals>>
      /\ budget.add > 0 /\ budget' = [budget EXCEPT !.add = @ - 1]
      /\ DupMasks \/ \A i \in DOMAIN bans : bans[i].mask # mask
  BY DEF AddAkill
<1>2. TypeOK /\ BansOk(bans, stamp) /\ DiskOk(disk) /\ (~DupMasks => Tied)
  BY DEF IInv, Base
<1>3. /\ now \in Nat /\ stamp \in Nat /\ tids \in Nat /\ timers \subseteq Timer /\ freedUse \in BOOLEAN
      /\ disk \in Seq(Saved) /\ totals \in Nat /\ budget \in [add : Nat, start : Nat]
      /\ mode \in {"down", "connecting", "linked"}
  BY <1>2 DEF TypeOK
<1>4. length >= 0 => /\ ban \in Ban /\ ban.id = stamp + 1 /\ ban.unset >= 0 /\ ban.mask = mask
                     /\ (length = 0 => ban.unset = 0 /\ ban.tid = 0)
                     /\ (length > 0 => ban.unset = now + length /\ ban.unset # 0 /\ ban.tid = tids + 1)
  BY <1>3 DEF Ban
<1>5. length > 0 => timer \in Timer /\ timer = [tid |-> tids + 1, run |-> ban.unset, mask |-> ban.mask]
  BY <1>3 DEF Timer
<1> HIDE DEF ban, timer
<1>6. /\ bans \in Seq(Ban) /\ IsInjective(bans) /\ \A b \in ToSet(bans) : b \in Ban /\ b.unset >= 0 /\ b.id <= stamp
      /\ \A a, b \in ToSet(bans) : a.id = b.id => a = b
  BY <1>2 DEF BansOk, ToSet
<1>7. \A b \in ToSet(bans) : b.id \in Nat
  BY <1>6 DEF Ban
<1>8. BansOk(bans', stamp')
  <2>1. CASE length < 0
    <3>1. bans' = bans /\ \A b \in ToSet(bans) : b.id <= stamp + 1
      BY <1>1, <1>3, <1>6, <1>7, <2>1
    <3> QED BY <1>1, <1>6, <3>1 DEF BansOk
  <2>2. CASE ~(length < 0)
    <3>1. ban \in Ban /\ ban.id = stamp + 1 /\ ban.unset >= 0
      BY <1>4, <2>2
    <3>2. \A b \in ToSet(bans) : b.id # ban.id
      BY <1>3, <1>6, <1>7, <3>1
    <3>3. ban \notin ToSet(bans)
      BY <3>2
    <3>4. bans' = <<ban>> \o bans
      BY <1>1, <2>2
    <3>5. bans' \in Seq(Ban) /\ IsInjective(bans') /\ ToSet(bans') = ToSet(bans) \cup {ban}
      BY <1>6, <3>1, <3>3, <3>4, AtHead
    <3>6. \A b \in ToSet(bans') : b.unset >= 0 /\ b.id <= stamp + 1
      BY <1>3, <1>6, <1>7, <3>1, <3>5
    <3>7. \A a, b \in ToSet(bans') : a.id = b.id => a = b
      BY <1>6, <3>2, <3>5
    <3> QED BY <1>1, <3>5, <3>6, <3>7 DEF BansOk
  <2> QED BY <2>1, <2>2
<1>9. TypeOK'
  <2>1. bans' \in Seq(Ban)
    BY <1>8 DEF BansOk
  <2>2. timers' \subseteq Timer /\ tids' \in Nat /\ stamp' \in Nat /\ freedUse' \in BOOLEAN
    BY <1>1, <1>3, <1>5
  <2>3. budget' \in [add : Nat, start : Nat]
    <3>1. budget.add \in Nat /\ budget.add - 1 \in Nat
      BY <1>1, <1>3
    <3> QED BY <1>1, <1>3, <3>1
  <2> QED BY <1>1, <1>3, <2>1, <2>2, <2>3 DEF TypeOK
<1>10. Base'
  <2>1. DiskOk(disk')
    BY <1>1, <1>2 DEF DiskOk
  <2> QED BY <1>1, <1>8, <1>9, <2>1 DEF Base
<1>11. ASSUME ~DupMasks PROVE Tied'
  <2>1. MasksOnce(bans) /\ MasksOnce(disk) /\ Wired(ToSet(bans), timers, tids)
    BY <1>2, <1>11 DEF Tied
  <2>2. MasksOnce(disk')
    BY <1>1, <2>1 DEF MasksOnce
  <2>3. CASE length < 0
    <3>1. bans' = bans /\ timers' = timers /\ tids' = tids
      BY <1>1, <2>3
    <3> QED BY <2>1, <2>2, <3>1 DEF Tied, MasksOnce, Wired, TimersOf
  <2>4. CASE ~(length < 0)
    <3>1. ban \in Ban /\ ban.mask = mask /\ ban.id = stamp + 1
      BY <1>4, <2>4
    <3>2. \A b \in ToSet(bans) : b.id # ban.id /\ b.mask # mask
      <4>1. \A b \in ToSet(bans) : b.id # ban.id
        BY <1>3, <1>6, <1>7, <3>1
      <4>2. \A b \in ToSet(bans) : b.mask # mask
        BY <1>1, <1>11 DEF ToSet
      <4> QED BY <4>1, <4>2
    <3>3. bans' = <<ban>> \o bans /\ ban \notin ToSet(bans)
      BY <1>1, <2>4, <3>2
    <3>4. ToSet(bans') = ToSet(bans) \cup {ban}
      BY <1>6, <3>1, <3>3, AtHead
    <3>5. MasksOnce(bans')
      BY <2>1, <3>1, <3>2, <3>4 DEF MasksOnce
    <3>6. ToSet(bans) \in SUBSET Ban
      BY <1>6
    <3>7. Wired(ToSet(bans'), timers', tids')
      <4>1. CASE length = 0
        <5>1. timers' = timers /\ tids' = tids /\ ban.unset = 0 /\ ban.tid = 0
          BY <1>1, <1>4, <4>1
        <5>2. Wired(ToSet(bans) \cup {ban}, timers, tids)
          BY <1>3, <2>1, <3>1, <3>6, <5>1, WiredWith
        <5> QED BY <3>4, <5>1, <5>2
      <4>2. CASE length > 0
        <5>1. timers' = timers \cup {timer} /\ tids' = tids + 1 /\ ban.unset # 0 /\ ban.tid = tids + 1
          BY <1>1, <1>4, <4>2
        <5>2. timer = [tid |-> tids + 1, run |-> ban.unset, mask |-> ban.mask]
          BY <1>5, <4>2
        <5>3. Wired(ToSet(bans) \cup {ban}, timers \cup {timer}, tids + 1)
          BY <1>3, <2>1, <3>1, <3>6, <5>1, <5>2, WiredWith
        <5> QED BY <3>4, <5>1, <5>3
      <4> QED BY <2>4, <4>1, <4>2
    <3> QED BY <2>2, <3>5, <3>7 DEF Tied
  <2> QED BY <2>3, <2>4
<1> QED BY <1>10, <1>11 DEF IInv

\* An entry leaves the list.
LEMMA LessHolds ==
    ASSUME IInv, mode = "linked", NEW k \in DOMAIN bans, bans' = RemoveAt(bans, k), timers' \subseteq timers,
           UNCHANGED <<now, mode, tids, stamp, disk, freedUse, totals, budget>>
    PROVE  /\ Base'
           /\ ToSet(bans') = ToSet(bans) \ {bans[k]} /\ bans[k] \in ToSet(bans) /\ bans[k] \in Ban
           /\ Tied /\ timers' = {t \in timers : t.tid # bans[k].tid} => Tied'
<1>1. TypeOK /\ BansOk(bans, stamp) /\ DiskOk(disk)
  BY DEF IInv, Base
<1>2. bans' \in Seq(Ban) /\ IsInjective(bans') /\ ToSet(bans') = ToSet(bans) \ {bans[k]}
  BY <1>1, Removed DEF BansOk
<1>3. bans[k] \in ToSet(bans) /\ bans[k] \in Ban /\ ToSet(bans) \in SUBSET Ban
  BY <1>1 DEF BansOk, ToSet
<1>4. BansOk(bans', stamp')
  BY <1>1, <1>2 DEF BansOk
<1>5. TypeOK'
  BY <1>1, <1>2 DEF TypeOK
<1>6. Base'
  BY <1>1, <1>4, <1>5 DEF Base, DiskOk
<1>7. ASSUME Tied, timers' = {t \in timers : t.tid # bans[k].tid} PROVE Tied'
  <2>1. MasksOnce(bans') /\ MasksOnce(disk')
    BY <1>2, <1>7 DEF Tied, MasksOnce
  <2>2. tids \in Nat /\ Wired(ToSet(bans), timers, tids)
    BY <1>1, <1>7 DEF TypeOK, Tied
  <2>3. Wired(ToSet(bans) \ {bans[k]}, {t \in timers : t.tid # bans[k].tid}, tids)
    BY <1>3, <2>2, UnwiredIs
  <2>4. Wired(ToSet(bans'), timers', tids')
    BY <1>2, <1>7, <2>3
  <2> QED BY <2>1, <2>4 DEF Tied
<1> QED BY <1>2, <1>3, <1>6, <1>7

\* An operator takes one off, or is refused.
LEMMA OperRemoveHolds ==
    ASSUME IInv, OperRemove
    PROVE  IInv'
<1>1. PICK o \in Opers, mask \in Masks, type \in Types :
          RemoveAkillType(o, mask, type) \/ RemoveAkill(o, mask)
  BY DEF OperRemove
<1>2. mode = "linked" /\ UNCHANGED <<now, mode, tids, stamp, disk, freedUse, totals, budget>>
  BY DEF OperRemove
<1>3. Len(bans) \in Nat /\ DOMAIN bans = 1 .. Len(bans)
  BY DEF IInv, Base, TypeOK
<1>4. (\E k \in DOMAIN bans : Unlink(o, k)) \/ UNCHANGED <<bans, timers>>
  <2>1. CASE RemoveAkillType(o, mask, type)
    <3> DEFINE I == {i \in 1 .. Len(bans) : bans[i].mask = mask /\ bans[i].type = type /\ MayRemove(o, bans[i])}
    <3>1. I # {} => Min(I) \in I
      <4>1. I \in SUBSET (1 .. Len(bans))
        OBVIOUS
      <4> HIDE DEF I
      <4> QED BY <1>3, <4>1, FirstIs
    <3>2. IF (IF I # {} THEN Min(I) ELSE 0) # 0 THEN Unlink(o, IF I # {} THEN Min(I) ELSE 0)
          ELSE UNCHANGED <<bans, timers>>
      BY <2>1 DEF RemoveAkillType, SelectInSeq
    <3>3. \A i \in I : i \in 1 .. Len(bans) /\ i # 0
      OBVIOUS
    <3> HIDE DEF I
    <3>4. CASE I = {}
      BY <3>2, <3>4
    <3>5. CASE I # {}
      <4>1. Min(I) \in I
        BY <3>1, <3>5
      <4>2. Min(I) \in 1 .. Len(bans) /\ Min(I) # 0
        BY <3>3, <4>1
      <4> QED BY <1>3, <3>2, <3>5, <4>2
    <3> QED BY <3>4, <3>5
  <2>2. CASE RemoveAkill(o, mask)
    <3> DEFINE I == {i \in 1 .. Len(bans) : bans[i].mask = mask}
    <3>1. I # {} => Min(I) \in I
      <4>1. I \in SUBSET (1 .. Len(bans))
        OBVIOUS
      <4> HIDE DEF I
      <4> QED BY <1>3, <4>1, FirstIs
    <3>2. LET i == IF I # {} THEN Min(I) ELSE 0 IN
          IF i # 0 /\ MayRemove(o, bans[i]) THEN Unlink(o, i) ELSE UNCHANGED <<bans, timers>>
      BY <2>2 DEF RemoveAkill, SelectInSeq
    <3>3. \A i \in I : i \in 1 .. Len(bans) /\ i # 0
      OBVIOUS
    <3> HIDE DEF I
    <3>4. CASE I = {}
      BY <3>2, <3>4
    <3>5. CASE I # {}
      <4>1. Min(I) \in I
        BY <3>1, <3>5
      <4>2. Min(I) \in 1 .. Len(bans) /\ Min(I) # 0
        BY <3>3, <4>1
      <4> QED BY <1>3, <3>2, <3>5, <4>2
    <3> QED BY <3>4, <3>5
  <2> QED BY <1>1, <2>1, <2>2
<1>5. CASE \E k \in DOMAIN bans : Unlink(o, k)
  <2>1. PICK k \in DOMAIN bans : Unlink(o, k)
    BY <1>5
  <2>2. o # OperServ
    BY ConstantAssumption
  <2>3. bans' = RemoveAt(bans, k) /\ timers' = {t \in timers : t.tid # bans[k].tid}
    BY <2>1, <2>2 DEF Unlink
  <2>4. Base' /\ (Tied => Tied')
    BY <1>2, <2>3, LessHolds
  <2> QED BY <2>4 DEF IInv
<1>6. CASE UNCHANGED <<bans, timers>>
  <2>1. Base'
    BY <1>2, <1>6 DEF IInv, Base, TypeOK, BansOk, DiskOk
  <2>2. Tied => Tied'
    BY <1>2, <1>6 DEF Tied, MasksOnce, Wired, TimersOf
  <2> QED BY <2>1, <2>2 DEF IInv
<1> QED BY <1>4, <1>5, <1>6

\* A timer takes the entry off that it was set for.
LEMMA ExpireHolds ==
    ASSUME IInv, NEW t \in timers, Expire(t)
    PROVE  /\ IInv'
           /\ ~DupMasks => \E b \in ToSet(bans) :
                 ToSet(bans') = ToSet(bans) \ {b} /\ b.unset # 0 /\ b.unset <= now
<1> DEFINE I == {i \in 1 .. Len(bans) : bans[i].mask = t.mask}
<1>1. /\ mode = "linked" /\ t.run <= now
      /\ bans' = IF (IF I # {} THEN Min(I) ELSE 0) = 0 THEN bans
                 ELSE RemoveAt(bans, IF I # {} THEN Min(I) ELSE 0)
      /\ timers' = timers \ {t}
      /\ UNCHANGED <<now, mode, tids, stamp, disk, freedUse, totals, budget>>
  BY DEF Expire, SelectInSeq
<1>2. Len(bans) \in Nat /\ DOMAIN bans = 1 .. Len(bans) /\ tids \in Nat /\ bans \in Seq(Ban) /\ TypeOK
  BY DEF IInv, Base, TypeOK
<1>3. I # {} => Min(I) \in I
  <2>1. I \in SUBSET (1 .. Len(bans))
    OBVIOUS
  <2> HIDE DEF I
  <2> QED BY <1>2, <2>1, FirstIs
<1>4. CASE I = {}
  <2>1. bans' = bans
    BY <1>1, <1>4
  <2>2. Base'
    <3>1. TypeOK'
      BY <1>1, <1>2, <2>1 DEF TypeOK
    <3> QED BY <1>1, <2>1, <3>1 DEF IInv, Base, BansOk, DiskOk
  <2>3. ASSUME Tied PROVE FALSE
    <3>1. PICK b \in ToSet(bans) : b.mask = t.mask
      BY <2>3 DEF Tied, Wired, TimersOf
    <3>2. PICK i \in DOMAIN bans : b = bans[i]
      BY DEF ToSet
    <3>3. i \in I
      BY <1>2, <3>1, <3>2
    <3> QED BY <1>4, <3>3
  <2> QED BY <2>2, <2>3 DEF IInv
<1>5. CASE I # {}
  <2> DEFINE k == Min(I)
  <2>1. k \in DOMAIN bans /\ bans[k].mask = t.mask /\ k # 0
    <3>1. \A i \in I : i \in 1 .. Len(bans) /\ bans[i].mask = t.mask /\ i # 0
      OBVIOUS
    <3>2. k \in I
      BY <1>3, <1>5
    <3> HIDE DEF k, I
    <3> QED BY <1>2, <3>1, <3>2
  <2>2. bans' = RemoveAt(bans, k) /\ timers' \subseteq timers
    BY <1>1, <1>5, <2>1
  <2> HIDE DEF k, I
  <2>3. /\ Base' /\ ToSet(bans') = ToSet(bans) \ {bans[k]} /\ bans[k] \in ToSet(bans) /\ bans[k] \in Ban
        /\ Tied /\ timers' = {u \in timers : u.tid # bans[k].tid} => Tied'
    BY <1>1, <2>1, <2>2, LessHolds
  <2>4. ASSUME Tied
        PROVE  /\ timers' = {u \in timers : u.tid # bans[k].tid}
               /\ bans[k].unset # 0 /\ bans[k].unset <= now
    <3>1. PICK b \in ToSet(bans) : t = [tid |-> b.tid, run |-> b.unset, mask |-> b.mask] /\ b.unset # 0
      BY <2>4 DEF Tied, Wired, TimersOf
    <3>2. b = bans[k]
      BY <2>1, <2>3, <2>4, <3>1 DEF Tied, MasksOnce
    <3>3. Wired(ToSet(bans), timers, tids) /\ ToSet(bans) \in SUBSET Ban
      BY <1>2, <2>4 DEF Tied, ToSet
    <3>4. {u \in timers : u.tid # bans[k].tid} = timers \ {t}
      <4>1. \A u \in timers : u.tid # b.tid <=> u # t
        BY <1>2, <3>1, <3>3, UnwiredIs
      <4> QED BY <3>2, <4>1
    <3> QED BY <1>1, <3>1, <3>2, <3>4
  <2> QED BY <2>3, <2>4 DEF IInv
<1> QED BY <1>4, <1>5

\* What loadakills() makes of a file.
LEMMA LoadIs ==
    ASSUME DiskOk(disk), now \in Nat, NEW n \in Nat, NEW top \in Nat,
           NEW list, list = FoldLeft(Load, [bans |-> <<>>, timers |-> {}, tids |-> n, stamp |-> top], disk)
    PROVE  /\ BansOk(list.bans, list.stamp) /\ list.timers \subseteq Timer /\ list.tids \in Nat /\ list.stamp \in Nat
           /\ {ToSaved(b) : b \in ToSet(list.bans)} = {s \in ToSet(disk) : StillOn(s)}
           /\ Wired(ToSet(list.bans), list.timers, list.tids)
<1> DEFINE S == DOMAIN disk
           All == [bans : Seq(Ban), timers : SUBSET Timer, tids : Nat, stamp : Nat]
           base == [bans |-> <<>>, timers |-> {}, tids |-> n, stamp |-> top]
           pick == [T \in SUBSET S |-> Max(T)]
           F == [p \in S \X All |-> Load(p[2], disk[p[1]])]
           On(T) == {disk[i] : i \in {j \in T : StillOn(disk[j])}}
           Fit(T, L) == /\ BansOk(L.bans, L.stamp) /\ \A i \in T : disk[i].id <= L.stamp
                        /\ {ToSaved(b) : b \in ToSet(L.bans)} = On(T)
                        /\ Wired(ToSet(L.bans), L.timers, L.tids)
           W == [T \in SUBSET S |-> {L \in All : Fit(T, L)}]
<1>1. /\ S = 1 .. Len(disk) /\ Len(disk) \in Nat /\ \A i \in S : disk[i] \in Saved /\ disk[i].unset \in Nat
      /\ \A i, j \in S : disk[i].id = disk[j].id => i = j
  <2>1. disk \in Seq(Saved)
    BY DEF DiskOk
  <2>2. \A i \in S : disk[i] \in Saved /\ disk[i] \in ToSet(disk)
    BY <2>1 DEF ToSet
  <2>3. \A i \in S : disk[i].unset \in Nat
    <3>1. \A b \in Saved : b.unset \in Int
      BY DEF Saved
    <3> QED BY <2>2, <3>1 DEF DiskOk
  <2>4. \A i, j \in S : disk[i].id = disk[j].id => i = j
    BY <2>2 DEF DiskOk, IsInjective
  <2>5. S = 1 .. Len(disk) /\ Len(disk) \in Nat
    BY <2>1
  <2> QED BY <2>2, <2>3, <2>4, <2>5
<1>2. IsFiniteSet(S)
  BY <1>1, FS_Interval
<1>3. Picks(pick, S)
  <2> SUFFICES ASSUME NEW T \in SUBSET S, T # {} PROVE Max(T) \in T
    BY DEF Picks
  <2>1. T \in SUBSET (1 .. Len(disk))
    BY <1>1
  <2>2. \E m \in T : \A k \in T : m >= k
    BY <1>1, <2>1, NatMax
  <2> QED BY <2>2 DEF Max
<1> HIDE DEF S
<1>4. ASSUME NEW L \in All, NEW k \in S
      PROVE  LET s == disk[k]
                 ban == [mask |-> s.mask, type |-> s.type, unset |-> s.unset, setby |-> s.setby, id |-> s.id,
                         tid |-> IF s.unset = 0 THEN 0 ELSE L.tids + 1]
                 M == Load(L, s)
             IN
             /\ M \in All /\ M.stamp = IF s.id > L.stamp THEN s.id ELSE L.stamp
             /\ ~StillOn(s) => M.bans = L.bans /\ M.timers = L.timers /\ M.tids = L.tids
             /\ StillOn(s) => ban \in Ban /\ M.bans = <<ban>> \o L.bans
             /\ StillOn(s) /\ s.unset = 0 => M.timers = L.timers /\ M.tids = L.tids
             /\ StillOn(s) /\ s.unset # 0 =>
                   /\ M.timers = L.timers \cup {[tid |-> L.tids + 1, run |-> s.unset, mask |-> s.mask]}
                   /\ M.tids = L.tids + 1
  <2> DEFINE s == disk[k]
             ban == [mask |-> s.mask, type |-> s.type, unset |-> s.unset, setby |-> s.setby, id |-> s.id,
                     tid |-> IF s.unset = 0 THEN 0 ELSE L.tids + 1]
             timer == [tid |-> L.tids + 1, run |-> s.unset, mask |-> s.mask]
             up == IF s.id > L.stamp THEN s.id ELSE L.stamp
             M == Load(L, s)
  <2>1. s \in Saved /\ s.unset \in Nat /\ s.id \in Nat
    BY <1>1 DEF Saved
  <2>2. /\ L.bans \in Seq(Ban) /\ L.timers \in SUBSET Timer /\ L.tids \in Nat /\ L.stamp \in Nat
        /\ L = [bans |-> L.bans, timers |-> L.timers, tids |-> L.tids, stamp |-> L.stamp]
    OBVIOUS
  <2>3. ban \in Ban
    BY <2>1, <2>2 DEF Saved, Ban
  <2>4. timer \in Timer /\ up \in Nat
    BY <2>1, <2>2 DEF Saved, Timer
  <2>5. <<ban>> \o L.bans \in Seq(Ban)
    BY <2>2, <2>3
  <2>6. ~StillOn(s) => M = [bans |-> L.bans, timers |-> L.timers, tids |-> L.tids, stamp |-> up]
    BY <2>2 DEF Load
  <2>7. StillOn(s) /\ s.unset = 0 =>
           M = [bans |-> <<ban>> \o L.bans, timers |-> L.timers, tids |-> L.tids, stamp |-> up]
    BY <2>2 DEF Load
  <2>8. StillOn(s) /\ s.unset # 0 =>
           M = [bans |-> <<ban>> \o L.bans, timers |-> L.timers \cup {timer}, tids |-> L.tids + 1, stamp |-> up]
    BY <2>2 DEF Load
  <2> HIDE DEF ban, M, up, s, timer
  <2>9. M \in All
    <3> DEFINE q == <<ban>> \o L.bans
    <3>1. q \in Seq(Ban)
      BY <2>5
    <3>2. CASE ~StillOn(s)
      BY <2>2, <2>4, <2>6, <3>2
    <3>3. CASE StillOn(s) /\ s.unset = 0
      <4>1. M = [bans |-> q, timers |-> L.timers, tids |-> L.tids, stamp |-> up]
        BY <2>7, <3>3
      <4> HIDE DEF q
      <4> QED BY <2>2, <2>4, <3>1, <4>1
    <3>4. CASE StillOn(s) /\ s.unset # 0
      <4>1. L.timers \cup {timer} \in SUBSET Timer /\ L.tids + 1 \in Nat
        BY <2>2, <2>4
      <4>2. M = [bans |-> q, timers |-> L.timers \cup {timer}, tids |-> L.tids + 1, stamp |-> up]
        BY <2>8, <3>4
      <4> HIDE DEF q
      <4> QED BY <2>4, <3>1, <4>1, <4>2
    <3> QED BY <3>2, <3>3, <3>4
  <2>10. M.stamp = up
    BY <2>6, <2>7, <2>8
  <2>11. ~StillOn(s) => M.bans = L.bans /\ M.timers = L.timers /\ M.tids = L.tids
    BY <2>6
  <2>12. StillOn(s) => M.bans = <<ban>> \o L.bans
    BY <2>7, <2>8
  <2>13. StillOn(s) /\ s.unset = 0 => M.timers = L.timers /\ M.tids = L.tids
    BY <2>7
  <2>14. StillOn(s) /\ s.unset # 0 => M.timers = L.timers \cup {timer} /\ M.tids = L.tids + 1
    BY <2>8
  <2> QED BY <2>3, <2>9, <2>10, <2>11, <2>12, <2>13, <2>14 DEF ban, M, up, s, timer
<1>5. F \in [S \X All -> All] /\ base \in All
  <2>1. ASSUME NEW p \in S \X All PROVE Load(p[2], disk[p[1]]) \in All
    <3>1. p[1] \in S /\ p[2] \in All
      OBVIOUS
    <3> HIDE DEF All
    <3> QED BY <1>4, <3>1
  <2>2. base \in All
    OBVIOUS
  <2> HIDE DEF All, base
  <2> QED BY <2>1, <2>2
<1>6. PICK g \in [SUBSET S -> All] : Folds(g, S, pick, base, F)
  <2> HIDE DEF pick, F, All, base
  <2> QED BY <1>2, <1>3, <1>5, FoldExists
<1>7. g = [T \in SUBSET S |-> IF T = {} THEN base ELSE Load(g[T \ {Max(T)}], disk[Max(T)])]
  <2>1. ASSUME NEW T \in SUBSET S, T # {}
        PROVE  F[<<pick[T], g[T \ {pick[T]}]>>] = Load(g[T \ {Max(T)}], disk[Max(T)])
    <3>1. pick[T] = Max(T) /\ Max(T) \in S /\ g[T \ {Max(T)}] \in All
      BY <1>3, <2>1 DEF Picks
    <3> HIDE DEF pick, All
    <3>2. <<Max(T), g[T \ {Max(T)}]>> \in S \X All
      BY <3>1
    <3> QED BY <3>1, <3>2
  <2> HIDE DEF F, base
  <2> QED BY <1>6, <2>1 DEF Folds
<1> HIDE DEF base
<1>8. PICK h : /\ h = [T \in SUBSET S |-> IF T = {} THEN base ELSE Load(h[T \ {Max(T)}], disk[Max(T)])]
               /\ FoldLeft(Load, base, disk) = h[S]
  <2> HIDE DEF pick, F
  <2> QED BY <1>7 DEF FoldLeft, MapThenFoldSet, S
<1>9. h[{}] \in W[{}]
  <2>1. h[{}] = base /\ base \in All
    BY <1>5, <1>8
  <2>2. base.bans = <<>> /\ base.timers = {}
    BY DEF base
  <2>3. <<>> \in Seq(Ban) /\ IsInjective(<<>>) /\ ToSet(<<>>) = {}
    BY DEF IsInjective, ToSet
  <2>4. BansOk(<<>>, base.stamp)
    BY <2>3 DEF BansOk
  <2>5. Wired({}, {}, base.tids)
    BY DEF Wired, TimersOf
  <2>6. Fit({}, base)
    BY <2>2, <2>3, <2>4, <2>5
  <2> HIDE DEF Fit, All
  <2> QED BY <2>1, <2>6
<1>10. ASSUME NEW T \in SUBSET S, T # {}, h[T \ {pick[T]}] \in W[T \ {pick[T]}]
       PROVE  h[T] \in W[T]
  <2> DEFINE k == Max(T)
             U == T \ {k}
             L == h[U]
             s == disk[k]
             ban == [mask |-> s.mask, type |-> s.type, unset |-> s.unset, setby |-> s.setby, id |-> s.id,
                     tid |-> IF s.unset = 0 THEN 0 ELSE L.tids + 1]
             M == Load(L, s)
  <2>1. h[T] = M /\ k \in T /\ k \in S /\ T = U \cup {k} /\ k \notin U /\ U \in SUBSET S
    <3>1. pick[T] = k
      OBVIOUS
    <3>2. k \in T /\ T = U \cup {k} /\ k \notin U /\ U \in SUBSET S
      <4>1. pick[T] \in T
        BY <1>3, <1>10 DEF Picks
      <4>2. k \in T
        BY <3>1, <4>1
      <4> HIDE DEF k, pick
      <4> QED BY <4>2
    <3>3. h[T] = M
      BY <1>8, <1>10
    <3> HIDE DEF k, M
    <3> QED BY <3>2, <3>3
  <2>2. L \in All /\ Fit(U, L)
    <3>1. pick[T] = k
      OBVIOUS
    <3>2. L \in W[U]
      BY <1>10, <3>1
    <3> HIDE DEF L, Fit, All, k
    <3> QED BY <2>1, <3>2
  <2>3. s \in Saved /\ s.unset \in Nat /\ s.id \in Nat
    BY <1>1, <2>1 DEF Saved
  <2>4. /\ L.bans \in Seq(Ban) /\ L.timers \in SUBSET Timer /\ L.tids \in Nat /\ L.stamp \in Nat
    BY <2>2
  <2>5. /\ M \in All /\ M.stamp = IF s.id > L.stamp THEN s.id ELSE L.stamp
        /\ ~StillOn(s) => M.bans = L.bans /\ M.timers = L.timers /\ M.tids = L.tids
        /\ StillOn(s) => ban \in Ban /\ M.bans = <<ban>> \o L.bans
        /\ StillOn(s) /\ s.unset = 0 => M.timers = L.timers /\ M.tids = L.tids
        /\ StillOn(s) /\ s.unset # 0 =>
              /\ M.timers = L.timers \cup {[tid |-> L.tids + 1, run |-> s.unset, mask |-> s.mask]}
              /\ M.tids = L.tids + 1
    <3> HIDE DEF L, All, k
    <3> QED BY <1>4, <2>1, <2>2
  <2>6. /\ ban.unset = s.unset /\ ban.id = s.id /\ ban.mask = s.mask /\ ToSaved(ban) = s
        /\ ban.tid = IF s.unset = 0 THEN 0 ELSE L.tids + 1
    BY <2>3 DEF ToSaved, Saved
  <2>7. /\ BansOk(L.bans, L.stamp) /\ \A i \in U : disk[i].id <= L.stamp
        /\ {ToSaved(b) : b \in ToSet(L.bans)} = On(U)
        /\ Wired(ToSet(L.bans), L.timers, L.tids)
    BY <2>2
  <2>8. ToSet(L.bans) \in SUBSET Ban /\ \A b \in ToSet(L.bans) : ToSaved(b).id = b.id /\ b.id \in Nat
    <3>1. ToSet(L.bans) \in SUBSET Ban
      BY <2>4 DEF ToSet
    <3> QED BY <3>1 DEF Ban, ToSaved
  <2>9. \A b \in ToSet(L.bans) : b.id # s.id
    <3> SUFFICES ASSUME NEW b \in ToSet(L.bans) PROVE b.id # s.id
      OBVIOUS
    <3>1. ToSaved(b) \in On(U)
      BY <2>7
    <3>2. PICK i \in U : ToSaved(b) = disk[i]
      BY <3>1
    <3>3. i \in S /\ i # k
      BY <2>1
    <3>4. disk[i].id # disk[k].id
      BY <1>1, <2>1, <3>3
    <3> QED BY <2>8, <3>2, <3>4
  <2> HIDE DEF L, M, s, ban, k, U
  <2>10. M.stamp \in Nat /\ L.stamp <= M.stamp /\ s.id <= M.stamp
    BY <2>3, <2>4, <2>5
  <2>11. \A i \in T : disk[i].id <= M.stamp
    <3>1. \A i \in U : disk[i].id \in Nat
      BY <1>1, <2>1 DEF Saved
    <3> QED BY <2>1, <2>4, <2>7, <2>10, <3>1 DEF s
  <2>12. \A b \in ToSet(L.bans) : b.unset >= 0 /\ b.id <= M.stamp
    BY <2>4, <2>7, <2>8, <2>10 DEF BansOk
  <2>13. CASE ~StillOn(s)
    <3>1. M.bans = L.bans /\ M.timers = L.timers /\ M.tids = L.tids
      BY <2>5, <2>13
    <3>2. BansOk(M.bans, M.stamp)
      BY <2>7, <2>12, <3>1 DEF BansOk
    <3>3. On(T) = On(U)
      BY <2>1, <2>13 DEF s
    <3>4. Fit(T, M)
      BY <2>7, <2>11, <3>1, <3>2, <3>3
    <3> HIDE DEF Fit, All
    <3> QED BY <2>1, <2>5, <3>4
  <2>14. CASE StillOn(s)
    <3>1. ban \in Ban /\ M.bans = <<ban>> \o L.bans
      BY <2>5, <2>14
    <3>2. ban \notin ToSet(L.bans)
      BY <2>6, <2>9
    <3>3. M.bans \in Seq(Ban) /\ IsInjective(M.bans) /\ ToSet(M.bans) = ToSet(L.bans) \cup {ban}
      BY <2>4, <2>7, <3>1, <3>2, AtHead DEF BansOk
    <3>4. BansOk(M.bans, M.stamp)
      <4>1. \A b \in ToSet(M.bans) : b.unset >= 0 /\ b.id <= M.stamp
        BY <2>3, <2>6, <2>10, <2>12, <3>3
      <4>2. \A a, b \in ToSet(M.bans) : a.id = b.id => a = b
        BY <2>6, <2>7, <2>9, <3>3 DEF BansOk
      <4> QED BY <3>3, <4>1, <4>2 DEF BansOk
    <3>5. On(T) = On(U) \cup {s}
      BY <2>1, <2>14 DEF s
    <3>6. {ToSaved(b) : b \in ToSet(M.bans)} = On(T)
      <4> HIDE DEF On
      <4> QED BY <2>6, <2>7, <3>3, <3>5
    <3>7. Wired(ToSet(M.bans), M.timers, M.tids)
      <4>1. CASE s.unset = 0
        <5>1. Wired(ToSet(L.bans) \cup {ban}, L.timers, L.tids)
          BY <2>4, <2>6, <2>7, <2>8, <3>1, <4>1, WiredWith
        <5> QED BY <2>5, <2>14, <3>3, <4>1, <5>1
      <4>2. CASE s.unset # 0
        <5>1. ban.unset # 0 /\ ban.tid = L.tids + 1
          BY <2>6, <4>2
        <5>2. Wired(ToSet(L.bans) \cup {ban},
                    L.timers \cup {[tid |-> L.tids + 1, run |-> ban.unset, mask |-> ban.mask]}, L.tids + 1)
          BY <2>4, <2>7, <2>8, <3>1, <5>1, WiredWith
        <5> QED BY <2>5, <2>6, <2>14, <3>3, <4>2, <5>2
      <4> QED BY <4>1, <4>2
    <3>8. Fit(T, M)
      <4> HIDE DEF On
      <4> QED BY <2>11, <3>4, <3>6, <3>7
    <3> HIDE DEF Fit, All
    <3> QED BY <2>1, <2>5, <3>8
  <2> QED BY <2>13, <2>14
<1>11. h[S] \in W[S]
  <2> HIDE DEF pick, W
  <2> QED BY <1>2, <1>3, <1>9, <1>10, FoldInduct
<1>12. list = h[S]
  BY <1>8 DEF base
<1>13. On(S) = {s \in ToSet(disk) : StillOn(s)}
  BY DEF ToSet, S
<1> QED BY <1>11, <1>12, <1>13

\* The uplink announces the link, and the list is loaded.
LEMMA LinkUpHolds ==
    ASSUME IInv, LinkUp
    PROVE  IInv' /\ {ToSaved(b) : b \in ToSet(bans')} = {s \in ToSet(disk) : StillOn(s)}
<1> DEFINE list == FoldLeft(Load, [bans |-> <<>>, timers |-> {}, tids |-> tids, stamp |-> stamp], disk)
<1>1. TypeOK /\ BansOk(bans, stamp) /\ DiskOk(disk) /\ (~DupMasks => Tied) /\ bans = <<>> /\ timers = {}
  BY DEF IInv, Base, LinkUp
<1>2. tids \in Nat /\ stamp \in Nat /\ now \in Nat
  BY <1>1 DEF TypeOK
<1>3. /\ bans' = list.bans /\ timers' = list.timers /\ tids' = list.tids
      /\ stamp' = IF list.stamp = 0 THEN 0 ELSE list.stamp + StampGap
      /\ mode' = "linked" /\ UNCHANGED <<now, disk, freedUse, totals, budget>>
  BY <1>1 DEF LinkUp, LoadAkills
<1>4. /\ BansOk(list.bans, list.stamp) /\ list.timers \subseteq Timer /\ list.tids \in Nat /\ list.stamp \in Nat
      /\ {ToSaved(b) : b \in ToSet(list.bans)} = {s \in ToSet(disk) : StillOn(s)}
      /\ Wired(ToSet(list.bans), list.timers, list.tids)
  BY <1>1, <1>2, LoadIs
<1> HIDE DEF list
<1>5. stamp' \in Nat /\ list.stamp <= stamp'
  BY <1>3, <1>4, ConstantAssumption
<1>6. BansOk(bans', stamp')
  <2>1. \A b \in ToSet(list.bans) : b \in Ban /\ b.id \in Nat
    <3>1. list.bans \in Seq(Ban)
      BY <1>4 DEF BansOk
    <3>2. \A b \in ToSet(list.bans) : b \in Ban
      BY <3>1 DEF ToSet
    <3> QED BY <3>2 DEF Ban
  <2>2. \A b \in ToSet(list.bans) : b.unset >= 0 /\ b.id <= stamp'
    BY <1>4, <1>5, <2>1 DEF BansOk
  <2> QED BY <1>3, <1>4, <2>2 DEF BansOk
<1>7. TypeOK'
  <2>1. bans' \in Seq(Ban)
    BY <1>6 DEF BansOk
  <2> QED BY <1>1, <1>3, <1>4, <1>5, <2>1 DEF TypeOK
<1>8. Base'
  <2>1. DiskOk(disk')
    BY <1>1, <1>3 DEF DiskOk
  <2> QED BY <1>3, <1>6, <1>7, <2>1 DEF Base
<1>9. {ToSaved(b) : b \in ToSet(bans')} = {s \in ToSet(disk) : StillOn(s)}
  BY <1>3, <1>4
<1>10. ASSUME ~DupMasks PROVE Tied'
  <2>1. MasksOnce(disk')
    BY <1>1, <1>3, <1>10 DEF Tied, MasksOnce
  <2>2. Wired(ToSet(bans'), timers', tids')
    BY <1>3, <1>4
  <2>3. ASSUME NEW a \in ToSet(bans'), NEW b \in ToSet(bans'), a.mask = b.mask PROVE a = b
    <3>1. ToSaved(a) \in ToSet(disk) /\ ToSaved(b) \in ToSet(disk)
      BY <1>9
    <3>2. /\ ToSaved(a).mask = a.mask /\ ToSaved(b).mask = b.mask
          /\ ToSaved(a).id = a.id /\ ToSaved(b).id = b.id
      BY DEF ToSaved
    <3>3. ToSaved(a) = ToSaved(b)
      BY <1>1, <1>10, <2>3, <3>1, <3>2 DEF Tied, MasksOnce
    <3>4. a.id = b.id
      BY <3>2, <3>3
    <3> QED BY <1>6, <3>4 DEF BansOk
  <2> QED BY <2>1, <2>2, <2>3 DEF Tied, MasksOnce
<1> QED BY <1>8, <1>9, <1>10 DEF IInv

\* The list is saved, and kept or forgotten with the process.
LEMMA SaveHolds ==
    ASSUME IInv, mode = "linked", SaveAkills, UNCHANGED <<now, freedUse, budget>>, totals' \in Nat,
           \/ UNCHANGED <<mode, bans, timers, tids, stamp>>
           \/ Forget
    PROVE  IInv' /\ ToSet(disk') = {ToSaved(b) : b \in ToSet(bans)}
<1>1. TypeOK /\ BansOk(bans, stamp) /\ DiskOk(disk) /\ (~DupMasks => Tied)
  BY DEF IInv, Base
<1>2. disk' = [i \in DOMAIN bans |-> ToSaved(bans[i])] /\ bans \in Seq(Ban)
  BY <1>1 DEF SaveAkills, TypeOK
<1>3. DiskOk(disk') /\ ToSet(disk') = {ToSaved(b) : b \in ToSet(bans)} /\ (MasksOnce(bans) => MasksOnce(disk'))
  BY <1>1, <1>2, SavedIs
<1>4. disk' \in Seq(Saved)
  BY <1>3 DEF DiskOk
<1>5. CASE UNCHANGED <<mode, bans, timers, tids, stamp>>
  <2>1. TypeOK'
    BY <1>1, <1>4, <1>5 DEF TypeOK
  <2>2. BansOk(bans', stamp')
    BY <1>1, <1>5 DEF BansOk
  <2>3. Tied => Tied'
    BY <1>3, <1>5 DEF Tied, MasksOnce, Wired, TimersOf
  <2>4. Base'
    BY <1>3, <1>5, <2>1, <2>2 DEF Base
  <2> QED BY <1>1, <1>3, <2>3, <2>4 DEF IInv
<1>6. CASE Forget
  <2>1. bans' = <<>> /\ timers' = {} /\ tids' = 0 /\ stamp' = 0 /\ mode' = "down"
    BY <1>6 DEF Forget
  <2>2. <<>> \in Seq(Ban) /\ IsInjective(<<>>) /\ ToSet(<<>>) = {}
    BY DEF IsInjective, ToSet
  <2>3. BansOk(bans', stamp')
    BY <2>1, <2>2 DEF BansOk
  <2>4. TypeOK'
    BY <1>1, <1>4, <2>1, <2>2 DEF TypeOK
  <2>5. Base'
    BY <1>3, <2>1, <2>3, <2>4 DEF Base
  <2>6. Tied => Tied'
    BY <1>3, <2>1, <2>2 DEF Tied, MasksOnce, Wired, TimersOf
  <2> QED BY <1>1, <1>3, <2>5, <2>6 DEF IInv
<1> QED BY <1>5, <1>6

\* The process forgets the list and leaves the file.
LEMMA ForgetHolds ==
    ASSUME IInv, Forget, UNCHANGED <<now, disk, freedUse, totals, budget>>
    PROVE  IInv'
<1>1. TypeOK /\ DiskOk(disk) /\ (~DupMasks => Tied)
  BY DEF IInv, Base
<1>2. bans' = <<>> /\ timers' = {} /\ tids' = 0 /\ stamp' = 0 /\ mode' = "down"
  BY DEF Forget
<1>3. <<>> \in Seq(Ban) /\ IsInjective(<<>>) /\ ToSet(<<>>) = {}
  BY DEF IsInjective, ToSet
<1>4. BansOk(bans', stamp')
  BY <1>2, <1>3 DEF BansOk
<1>5. TypeOK'
  BY <1>1, <1>2, <1>3 DEF TypeOK
<1>6. Base'
  BY <1>1, <1>2, <1>4, <1>5 DEF Base, DiskOk
<1>7. Tied => Tied'
  BY <1>2, <1>3 DEF Tied, MasksOnce, Wired, TimersOf
<1> QED BY <1>1, <1>6, <1>7 DEF IInv

\* What touches neither the list nor the file.
LEMMA IdleHolds ==
    ASSUME IInv, UNCHANGED <<bans, timers, tids, disk>>,
           stamp' = stamp \/ (mode = "down" /\ stamp' = 0), freedUse' = freedUse,
           now' \in Nat, totals' \in Nat, mode' = mode \/ (mode = "down" /\ mode' = "connecting"),
           budget' \in [add : Nat, start : Nat]
    PROVE  IInv'
<1>1. TypeOK /\ BansOk(bans, stamp) /\ DiskOk(disk) /\ (~DupMasks => Tied)
  BY DEF IInv, Base
<1>2. mode = "down" => bans = <<>> /\ timers = {}
  BY DEF IInv, Base
<1>3. BansOk(bans', stamp')
  <2>1. CASE stamp' = stamp
    BY <1>1, <2>1 DEF BansOk
  <2>2. CASE mode = "down"
    <3>1. bans = <<>> /\ ToSet(<<>>) = {}
      BY <1>2, <2>2 DEF ToSet
    <3> QED BY <1>1, <3>1 DEF BansOk
  <2> QED BY <2>1, <2>2
<1>4. TypeOK'
  BY <1>1 DEF TypeOK
<1>5. Base'
  BY <1>1, <1>2, <1>3, <1>4 DEF IInv, Base, DiskOk
<1>6. Tied => Tied'
  BY DEF Tied, MasksOnce, Wired, TimersOf
<1> QED BY <1>1, <1>5, <1>6 DEF IInv
-----------------------------------------------------------------------------
(***************************************************************************)
(* The theorems.                                                           *)
(***************************************************************************)

\* The product of two naturals is one.
LEMMA TimesNat ==
    ASSUME NEW m \in Nat, NEW n \in Nat
    PROVE  m * n \in Nat
OBVIOUS

\* The length os_akill() passes on is an int, and no negative one when the hours
\* asked for fit an int as seconds.
LEMMA DurationIs ==
    ASSUME NEW o \in Opers, NEW type \in Types, NEW h \in Hours
    PROVE  Duration(o, type, h) \in Int /\ (h * HourLen <= IntMax => Duration(o, type, h) >= 0)
<1>1. h \in Nat /\ HourLen \in Nat /\ MaxHours \in Nat /\ IntMax \in Nat
  BY ConstantAssumption
<1> DEFINE n == h * HourLen
           top == MaxHours * HourLen
           t == Wrap(n)
<1>2. n \in Nat /\ top \in Nat
  BY <1>1, TimesNat
<1> HIDE DEF n, top
<1>3. t \in Int /\ (n <= IntMax => t >= 0)
  <2> DEFINE w == 2 * (IntMax + 1)
             r == (n + IntMax + 1) % w
  <2>1. w \in Nat /\ w > 0 /\ n + IntMax + 1 \in Nat
    BY <1>1, <1>2
  <2>2. t = r - IntMax - 1
    BY DEF Wrap
  <2>3. r \in Int
    <3> HIDE DEF w
    <3> QED BY <2>1
  <2>4. n <= IntMax => r = n + IntMax + 1
    <3>1. n <= IntMax => n + IntMax + 1 < w
      BY <1>1, <1>2
    <3> HIDE DEF w
    <3> QED BY <2>1, <3>1
  <2> HIDE DEF r, t
  <2> QED BY <1>1, <1>2, <2>2, <2>3, <2>4
<1>4. Duration(o, type, h) \in {t, top}
  BY DEF Duration, n, top
<1> HIDE DEF t
<1> QED BY <1>2, <1>3, <1>4 DEF n

\* Each step preserves the invariant.
LEMMA StepHolds ==
    ASSUME IInv, Next
    PROVE  IInv'
<1>1. TypeOK /\ now \in Nat /\ totals \in Nat /\ stamp \in Nat /\ budget \in [add : Nat, start : Nat]
  BY DEF IInv, Base, TypeOK
<1>2. CASE Tick
  BY <1>1, <1>2, IdleHolds DEF Tick
<1>3. CASE OperAdd
  <2>1. PICK o \in Opers, mask \in Masks, type \in Types, h \in Hours : AddAkill(mask, type, o, Duration(o, type, h))
    BY <1>3 DEF OperAdd
  <2>2. Duration(o, type, h) \in Int /\ mode = "linked"
    BY <1>3, DurationIs DEF OperAdd
  <2> QED BY <2>1, <2>2, AddHolds
<1>4. CASE TempAkill
  <2>1. PICK o \in Opers, mask \in Masks : AddAkill(mask, "akill", o, HourLen)
    BY <1>4 DEF TempAkill
  <2>2. HourLen \in Int /\ mode = "linked" /\ "akill" \in Types
    BY <1>4, ConstantAssumption DEF TempAkill, Types
  <2> QED BY <2>1, <2>2, AddHolds
<1>5. CASE FloodIgnore
  <2>1. PICK mask \in Masks : AddAkill(mask, "ignore", OperServ, FloodHours * HourLen)
    BY <1>5 DEF FloodIgnore
  <2>2. FloodHours * HourLen \in Nat
    BY ConstantAssumption, TimesNat
  <2>3. mode = "linked" /\ "ignore" \in Types
    BY <1>5 DEF FloodIgnore, Types
  <2> QED BY <2>1, <2>2, <2>3, AddHolds
<1>6. CASE OperRemove
  BY <1>6, OperRemoveHolds
<1>7. CASE Sync
  <2>1. mode = "linked" /\ SaveAkills /\ totals' = stamp
        /\ UNCHANGED <<now, mode, bans, timers, tids, stamp, freedUse, budget>>
    BY <1>7 DEF Sync, WriteTotals
  <2> QED BY <1>1, <2>1, SaveHolds
<1>8. CASE SyncTotals
  BY <1>1, <1>8, IdleHolds DEF SyncTotals, WriteTotals
<1>9. CASE Start
  <2>1. budget' \in [add : Nat, start : Nat]
    <3>1. budget.start \in Nat /\ budget.start > 0
      BY <1>1, <1>9 DEF Start
    <3>2. budget.start - 1 \in Nat
      BY <3>1
    <3> QED BY <1>1, <1>9, <3>2 DEF Start
  <2>2. /\ UNCHANGED <<bans, timers, tids, disk>> /\ mode = "down" /\ stamp' = 0 /\ freedUse' = freedUse
        /\ now' = now /\ totals' = totals /\ mode' = "connecting"
    BY <1>9 DEF Start
  <2> QED BY <1>1, <2>1, <2>2, IdleHolds
<1>10. CASE LinkUp
  BY <1>10, LinkUpHolds
<1>11. CASE NoNLine
  BY <1>11, ForgetHolds DEF NoNLine
<1>12. CASE Shutdown
  <2>1. SaveAkills /\ totals' = stamp /\ Forget /\ UNCHANGED <<now, freedUse, budget>>
    BY <1>12 DEF Shutdown, WriteTotals
  <2>2. CASE mode = "linked"
    BY <1>1, <2>1, <2>2, SaveHolds
  <2>3. CASE mode # "linked"
    <3>1. bans = <<>>
      BY <2>3 DEF IInv, Base
    <3>2. disk' = [i \in DOMAIN bans |-> ToSaved(bans[i])] /\ bans \in Seq(Ban) /\ BansOk(bans, stamp)
      BY <2>1 DEF SaveAkills, IInv, Base, TypeOK
    <3>3. DiskOk(disk') /\ ToSet(disk') = {ToSaved(b) : b \in ToSet(bans)}
      BY <3>2, SavedIs
    <3>4. ToSet(bans) = {} /\ <<>> \in Seq(Ban) /\ IsInjective(<<>>) /\ ToSet(<<>>) = {}
      BY <3>1 DEF ToSet, IsInjective
    <3>5. bans' = <<>> /\ timers' = {} /\ tids' = 0 /\ stamp' = 0 /\ mode' = "down"
      BY <2>1 DEF Forget
    <3>6. TypeOK'
      BY <1>1, <2>1, <3>3, <3>4, <3>5 DEF TypeOK, DiskOk
    <3>7. Base'
      BY <3>3, <3>4, <3>5, <3>6 DEF Base, BansOk
    <3>8. Tied'
      BY <3>3, <3>4, <3>5 DEF Tied, MasksOnce, Wired, TimersOf
    <3> QED BY <3>7, <3>8 DEF IInv
  <2> QED BY <2>2, <2>3
<1>13. CASE Crash
  BY <1>13, ForgetHolds DEF Crash
<1>14. CASE Expires
  <2>1. PICK t \in timers : Expire(t)
    BY <1>14 DEF Expires
  <2> QED BY <2>1, ExpireHolds
<1> QED BY <1>2, <1>3, <1>4, <1>5, <1>6, <1>7, <1>8, <1>9, <1>10, <1>11, <1>12, <1>13, <1>14
        DEF Next, Commands, Syncs, Process

\* The invariant holds of every state.
THEOREM Invariance ==
    Spec => []IInv
<1>1. Init => IInv
  <2> SUFFICES ASSUME Init PROVE IInv
    OBVIOUS
  <2>1. <<>> \in Seq(Ban) /\ <<>> \in Seq(Saved) /\ IsInjective(<<>>) /\ ToSet(<<>>) = {}
    BY DEF IsInjective, ToSet
  <2>2. TypeOK
    <3>1. budget \in [add : Nat, start : Nat]
      BY ConstantAssumption DEF Init
    <3> QED BY <2>1, <3>1 DEF Init, TypeOK
  <2>3. Base
    BY <2>1, <2>2 DEF Init, Base, BansOk, DiskOk
  <2>4. Tied
    BY <2>1 DEF Init, Tied, MasksOnce, Wired, TimersOf
  <2> QED BY <2>3, <2>4 DEF IInv
<1>2. IInv /\ [Next]_vars => IInv'
  <2> SUFFICES ASSUME IInv, [Next]_vars PROVE IInv'
    OBVIOUS
  <2>1. CASE Next
    BY <2>1, StepHolds
  <2>2. CASE UNCHANGED vars
    <3>1. now \in Nat /\ totals \in Nat /\ budget \in [add : Nat, start : Nat]
      BY DEF IInv, Base, TypeOK
    <3> QED BY <2>2, <3>1, IdleHolds DEF vars
  <2> QED BY <2>1, <2>2
<1> QED BY <1>1, <1>2, PTL DEF Spec

\* Every variable keeps its type, whatever is added, removed, saved and loaded.
THEOREM TypeCorrect ==
    Spec => []TypeOK
<1>1. IInv => TypeOK
  BY DEF IInv, Base
<1> QED BY <1>1, Invariance, PTL

\* No two bans on the list have one id, across stops and crashes as well: loadakills()
\* goes on above the highest id in the file, so that no number of its own is needed.
THEOREM IdsUnique ==
    Spec => []UniqueIds
<1>1. IInv => UniqueIds
  <2> SUFFICES ASSUME IInv, NEW i \in DOMAIN bans, NEW j \in DOMAIN bans, bans[i].id = bans[j].id
               PROVE  i = j
    BY DEF UniqueIds
  <2>1. BansOk(bans, stamp) /\ bans[i] \in ToSet(bans) /\ bans[j] \in ToSet(bans)
    BY DEF IInv, Base, ToSet
  <2> QED BY <2>1 DEF BansOk, IsInjective
<1> QED BY <1>1, Invariance, PTL

\* As long as no mask is added twice the pending calls of autoremoveakill() are those
\* of the bans for a time, one each: removing a ban, stopping and loading the list
\* leave no call behind that would remove a later ban with the same mask.
THEOREM TimersTrue ==
    ASSUME ~DupMasks
    PROVE  Spec => []TimersMatch
<1>1. IInv => TimersMatch
  <2> SUFFICES ASSUME IInv
               PROVE  timers = {[tid |-> bans[i].tid, run |-> bans[i].unset, mask |-> bans[i].mask] :
                                  i \in {j \in DOMAIN bans : bans[j].unset # 0}}
    BY DEF TimersMatch
  <2>1. timers = TimersOf(ToSet(bans))
    BY DEF IInv, Tied, Wired
  <2> QED BY <2>1 DEF TimersOf, ToSet
<1> QED BY <1>1, Invariance, PTL

\* When the hours an operator may ask for fit an int as seconds, addakill() works on an
\* entry that is on the list until it returns.
THEOREM FreedUnused ==
    ASSUME \A h \in Hours : h * HourLen <= IntMax
    PROVE  Spec => []NoFreedUse
<1>1. Init => NoFreedUse
  BY DEF Init, NoFreedUse
<1>2. NoFreedUse /\ [Next]_vars => NoFreedUse'
  <2> SUFFICES ASSUME NoFreedUse, [Next]_vars PROVE NoFreedUse'
    OBVIOUS
  <2>1. ASSUME NEW mask, NEW type, NEW by, NEW length \in Int, length >= 0, AddAkill(mask, type, by, length)
        PROVE  NoFreedUse'
    <3>1. freedUse' = (freedUse \/ length < 0) /\ ~(length < 0)
      BY <2>1 DEF AddAkill
    <3> QED BY <3>1 DEF NoFreedUse
  <2>2. CASE OperAdd
    <3>1. PICK o \in Opers, mask \in Masks, type \in Types, h \in Hours : AddAkill(mask, type, o, Duration(o, type, h))
      BY <2>2 DEF OperAdd
    <3>2. Duration(o, type, h) \in Int /\ Duration(o, type, h) >= 0
      BY DurationIs
    <3> QED BY <2>1, <3>1, <3>2
  <2>3. CASE TempAkill
    <3>1. PICK o \in Opers, mask \in Masks : AddAkill(mask, "akill", o, HourLen)
      BY <2>3 DEF TempAkill
    <3>2. HourLen \in Nat
      BY ConstantAssumption
    <3> QED BY <2>1, <3>1, <3>2
  <2>4. CASE FloodIgnore
    <3>1. PICK mask \in Masks : AddAkill(mask, "ignore", OperServ, FloodHours * HourLen)
      BY <2>4 DEF FloodIgnore
    <3>2. FloodHours * HourLen \in Nat
      BY ConstantAssumption, TimesNat
    <3> QED BY <2>1, <3>1, <3>2
  <2>5. CASE UNCHANGED freedUse
    BY <2>5 DEF NoFreedUse
  <2>6. \/ OperAdd \/ TempAkill \/ FloodIgnore \/ UNCHANGED freedUse
    BY DEF Next, vars, Tick, Commands, OperRemove, Syncs, Sync, SyncTotals, Process, Start, LinkUp, NoNLine,
           Shutdown, Crash, Expires, Expire
  <2> QED BY <2>2, <2>3, <2>4, <2>5, <2>6
<1> QED BY <1>1, <1>2, PTL DEF Spec

BanStep == \A s \in Listed \ Listed' : Over(s) \/ OperRemove \/ Crash

\* What is listed, as sets.
LEMMA ListedIs ==
    /\ mode = "linked" => Listed = {ToSaved(b) : b \in ToSet(bans)}
    /\ mode # "linked" => Listed = ToSet(disk)
BY DEF Listed, ToSet

\* As long as no mask is added twice, and the uplink does not close the connection
\* before it says that it is linked, a ban goes only by an operator's command or when its
\* own time is over; a stop and a start lose none, and a crash only what was not saved.
THEOREM BansKept ==
    ASSUME ~DupMasks, ~EarlyStop
    PROVE  Spec => BansStay
<1>1. IInv /\ [Next]_vars => [BanStep]_vars
  <2> SUFFICES ASSUME IInv, Next, NEW s \in Listed, s \notin Listed', ~OperRemove, ~Crash
               PROVE  Over(s)
    BY DEF BanStep
  <2>1. /\ mode = "linked" => Listed = {ToSaved(b) : b \in ToSet(bans)}
        /\ mode # "linked" => Listed = ToSet(disk)
        /\ mode' = "linked" => Listed' = {ToSaved(b) : b \in ToSet(bans')}
        /\ mode' # "linked" => Listed' = ToSet(disk')
    <3>1. /\ mode' = "linked" => Listed' = {ToSaved(b) : b \in ToSet(bans')}
          /\ mode' # "linked" => Listed' = ToSet(disk')
      BY DEF Listed, ToSet, ToSaved
    <3> QED BY <3>1, ListedIs
  <2>2. ~UNCHANGED <<mode, bans, disk>>
    BY <2>1
  <2>3. CASE Commands
    <3>1. PICK mask, type, by, length : AddAkill(mask, type, by, length)
      BY <2>3 DEF Commands, OperAdd, TempAkill, FloodIgnore
    <3>2. mode = "linked" /\ mode' = mode
      BY <2>3, <3>1 DEF Commands, OperAdd, TempAkill, FloodIgnore, AddAkill
    <3>3. bans' = bans \/ \E b : bans' = <<b>> \o bans
      BY <3>1 DEF AddAkill
    <3>4. ToSet(bans) \subseteq ToSet(bans')
      <4>1. CASE bans' = bans
        BY <4>1
      <4>2. CASE \E b : bans' = <<b>> \o bans
        <5>1. PICK b : bans' = <<b>> \o bans
          BY <4>2
        <5>2. /\ DOMAIN bans = 1 .. Len(bans) /\ Len(bans) \in Nat /\ bans \in Seq(Ban)
          BY DEF IInv, Base, TypeOK
        <5>3. \A i \in DOMAIN bans : i + 1 \in DOMAIN bans' /\ bans'[i + 1] = bans[i]
          BY <5>1, <5>2
        <5> QED BY <5>3 DEF ToSet
      <4> QED BY <3>3, <4>1, <4>2
    <3> QED BY <2>1, <3>2, <3>4
  <2>4. CASE Sync \/ SyncTotals
    BY <2>1, <2>4 DEF Sync, SyncTotals
  <2>5. CASE Start \/ NoNLine
    <3>1. mode # "linked" /\ mode' # "linked" /\ disk' = disk
      BY <2>5 DEF Start, NoNLine, Forget
    <3> QED BY <2>1, <3>1
  <2>6. CASE LinkUp
    <3>1. mode # "linked" /\ mode' = "linked"
      BY <2>6 DEF LinkUp
    <3>2. s \in ToSet(disk) /\ ~StillOn(s)
      BY <2>1, <2>6, <3>1, LinkUpHolds
    <3>3. s.unset \in Int /\ now \in Nat
      <4>1. disk \in Seq(Saved) /\ now \in Nat
        BY DEF IInv, Base, TypeOK
      <4>2. s \in Saved
        BY <3>2, <4>1 DEF ToSet
      <4> QED BY <4>1, <4>2 DEF Saved
    <3> QED BY <3>2, <3>3 DEF StillOn, Over
  <2>7. CASE Shutdown
    <3>1. mode = "linked" /\ mode' # "linked" /\ SaveAkills /\ Forget /\ totals' = stamp
          /\ UNCHANGED <<now, freedUse, budget>>
      BY <2>7 DEF Shutdown, Forget, WriteTotals
    <3>2. stamp \in Nat
      BY DEF IInv, Base, TypeOK
    <3>3. ToSet(disk') = {ToSaved(b) : b \in ToSet(bans)}
      BY <3>1, <3>2, SaveHolds
    <3> QED BY <2>1, <3>1, <3>3
  <2>8. CASE Expires
    <3>1. PICK t \in timers : Expire(t)
      BY <2>8 DEF Expires
    <3>2. mode = "linked" /\ mode' = mode
      BY <3>1 DEF Expire
    <3>3. PICK b \in ToSet(bans) : ToSet(bans') = ToSet(bans) \ {b} /\ b.unset # 0 /\ b.unset <= now
      BY <3>1, ExpireHolds
    <3>4. s = ToSaved(b)
      BY <2>1, <3>2, <3>3
    <3>5. s.unset = b.unset
      BY <3>4 DEF ToSaved
    <3> QED BY <3>3, <3>5 DEF Over
  <2>9. Tick => UNCHANGED <<mode, bans, disk>>
    BY DEF Tick
  <2> QED BY <2>2, <2>3, <2>4, <2>5, <2>6, <2>7, <2>8, <2>9 DEF Next, Syncs, Process
<1>2. Spec => [][BanStep]_vars
  BY <1>1, Invariance, PTL DEF Spec
<1> QED BY <1>2 DEF BansStay, BanStep
-----------------------------------------------------------------------------
(* What the operators on lists that Conn uses return. *)

\* Without() removes the first such element, the only one of a list without repetitions.
LEMMA WithoutIs ==
    ASSUME NEW S, NEW q \in Seq(S), NEW a
    PROVE  /\ Without(q, a) \in Seq(S) /\ (a \notin Range(q) => Without(q, a) = q)
           /\ IsInjective(q) => IsInjective(Without(q, a)) /\ Range(Without(q, a)) = Range(q) \ {a}
<1> DEFINE I == {i \in 1 .. Len(q) : q[i] = a}
           k == IF I # {} THEN Min(I) ELSE 0
<1>1. Without(q, a) = IF k = 0 THEN q ELSE RemoveAt(q, k)
  BY DEF Without, SelectInSeq
<1>2. I \in SUBSET (1 .. Len(q)) /\ \A i \in I : q[i] = a
  OBVIOUS
<1>3. DOMAIN q = 1 .. Len(q) /\ ToSet(q) = Range(q) /\ \A r : Range(r) = ToSet(r)
  BY DEF ToSet, Range
<1>4. I = {} <=> a \notin Range(q)
  BY <1>3 DEF Range
<1> HIDE DEF I
<1>5. k \in 0 .. Len(q) /\ (k # 0 <=> I # {}) /\ (k # 0 => k \in I)
  <2> HIDE DEF k
  <2> QED BY <1>2, PlaceIs DEF k
<1> HIDE DEF k
<1>6. CASE k = 0
  BY <1>1, <1>4, <1>5, <1>6
<1>7. CASE k # 0
  <2>1. Without(q, a) = RemoveAt(q, k) /\ k \in 1 .. Len(q) /\ q[k] = a
    BY <1>1, <1>2, <1>5, <1>7
  <2>2. RemoveAt(q, k) \in Seq(S)
    BY <2>1, RemoveIs
  <2>3. ASSUME IsInjective(q)
        PROVE  IsInjective(RemoveAt(q, k)) /\ ToSet(RemoveAt(q, k)) = ToSet(q) \ {q[k]}
    BY <1>3, <2>1, <2>3, Removed
  <2>4. a \in Range(q)
    BY <1>4, <1>5, <1>7
  <2> QED BY <1>3, <2>1, <2>2, <2>3, <2>4
<1> QED BY <1>6, <1>7

\* FirstLine() gives an element of the list that is in the set, or 0.
LEMMA FirstLineIs ==
    ASSUME NEW q \in Seq(1 .. MaxLine), NEW set, NEW i, i = FirstLine(q, set)
    PROVE  i = 0 \/ (i \in 1 .. MaxLine /\ i \in Range(q) /\ i \in set)
<1> DEFINE I == {j \in 1 .. Len(q) : q[j] \in set}
           k == IF I # {} THEN Min(I) ELSE 0
<1>1. i = IF k = 0 THEN 0 ELSE q[k]
  BY DEF FirstLine, SelectInSeq
<1>2. I \in SUBSET (1 .. Len(q)) /\ \A j \in I : q[j] \in set
  OBVIOUS
<1>3. DOMAIN q = 1 .. Len(q)
  OBVIOUS
<1> HIDE DEF I
<1>4. k # 0 => k \in I
  <2> HIDE DEF k
  <2> QED BY <1>2, PlaceIs DEF k
<1> HIDE DEF k
<1>5. k # 0 => k \in 1 .. Len(q) /\ q[k] \in set
  BY <1>2, <1>4
<1>6. k # 0 => q[k] \in 1 .. MaxLine
  BY <1>5, PlaceOf
<1> QED BY <1>1, <1>3, <1>5, <1>6 DEF Range

\* class_get() gives a class of the list, or 0.
LEMMA ClassGetIs ==
    ASSUME NEW w, w.classlist \in Seq(1 .. MaxClass), NEW name
    PROVE  class_get(w, name) \in 0 .. MaxClass
<1> DEFINE q == w.classlist
           I == {j \in 1 .. Len(q) : w.cls[q[j]].name = name}
           k == IF I # {} THEN Min(I) ELSE 0
<1>1. class_get(w, name) = IF k = 0 THEN 0 ELSE q[k]
  BY DEF class_get, SelectInSeq
<1>2. I \in SUBSET (1 .. Len(q)) /\ MaxClass \in Nat
  BY ConnAssumption
<1>3. q \in Seq(1 .. MaxClass) /\ DOMAIN q = 1 .. Len(q)
  OBVIOUS
<1> HIDE DEF I, q
<1>4. k # 0 => k \in I
  <2> HIDE DEF k
  <2> QED BY <1>2, <1>3, PlaceIs DEF k
<1> HIDE DEF k
<1>5. k # 0 => k \in 1 .. Len(q)
  BY <1>2, <1>4
<1>6. k # 0 => q[k] \in 1 .. MaxClass
  BY <1>3, <1>5, PlaceOf
<1> QED BY <1>1, <1>2, <1>6

\* A list as short as the empty set.
LEMMA EmptyList ==
    ASSUME NEW S, NEW q \in Seq(S), Range(q) = {}
    PROVE  q = <<>>
<1>1. \A i \in 1 .. Len(q) : q[i] \in Range(q)
  BY DEF Range
<1>2. Len(q) = 0
  BY <1>1
<1> QED BY <1>2

\* One more at the head of a list of lines.
LEMMA OneMore ==
    ASSUME NEW q \in Seq(1 .. MaxLine), NEW i \in 1 .. MaxLine
    PROVE  /\ <<i>> \o q \in Seq(1 .. MaxLine) /\ Append(q, i) \in Seq(1 .. MaxLine)
           /\ IsInjective(q) /\ i \notin Range(q) =>
                IsInjective(<<i>> \o q) /\ Range(<<i>> \o q) = Range(q) \cup {i}
<1>1. \A r : Range(r) = ToSet(r)
  BY DEF Range, ToSet
<1>2. <<i>> \o q \in Seq(1 .. MaxLine) /\ Append(q, i) \in Seq(1 .. MaxLine)
  OBVIOUS
<1> QED BY <1>1, <1>2, AtHead

\* What is on a list.
LEMMA RangeIn ==
    ASSUME NEW S, NEW q \in Seq(S)
    PROVE  Range(q) \subseteq S
  BY PlaceOf DEF Range
-----------------------------------------------------------------------------
(***************************************************************************)
(* The local connections of a server (Conn).  Books are the counts of      *)
(* lines and classes, Seated is what is pointed to, Placed and Ordered are *)
(* the list of lines.  Every operator of the model takes a Sound world to  *)
(* one that is, or loses the server.                                       *)
(***************************************************************************)

Lines == 1 .. MaxLine

ConnWorlds == [conn : [Slots -> Client], query : [Slots -> {"no", "ptr", "name"}],
               cache : SUBSET Range(Addr), line : [Lines -> Line], order : Seq(Lines),
               cls : [1 .. MaxClass -> Class], classlist : Seq(1 .. MaxClass),
               config : Seq(Entry), lost : BOOLEAN]

Held(w, i) == {c \in Slots : is_attached(w, c, i)}

\* A line is attached once, and none that is a listener's or was freed.
Hung(w) == \A c \in Slots : /\ IsInjective(w.conn[c].confs)
                            /\ \A i \in Range(w.conn[c].confs) : w.line[i].kind \notin {"P", "free"}

Tallied(w) == \A i \in Lines :
    w.line[i].kind \notin {"P", "free"} => w.line[i].clients = Cardinality(Held(w, i))

Freed(w) == \A i \in Lines : w.line[i].kind = "free" => w.line[i] = NoLine

\* A connection came through a listener, one that was closed perhaps.
Heard(w) == \A c \in Slots :
    w.conn[c].via # 0 /\ w.line[w.conn[c].via].legal => w.line[w.conn[c].via].kind = "P"

\* A listener's clients but for V.
Listened(w, V) == \A i \in Lines :
    w.line[i].kind = "P" /\ w.line[i].legal => w.line[i].clients = Cardinality(Accepted(w, i) \ V)

Classed(w) == \A k \in 1 .. MaxClass :
    w.cls[k] # NoClass => w.cls[k].conns = Cardinality(Attached(w, k))

\* A global operator holds an operator's line, O are exempt.
Lettered(w, O) == \A c \in Slots \ O :
    w.conn[c].oper = "glob" => \E i \in Range(w.conn[c].confs) : w.line[i].kind \in Operators

Books(w, O, V) == /\ Hung(w) /\ Tallied(w) /\ Freed(w) /\ Heard(w) /\ Listened(w, V)
                  /\ Classed(w) /\ Lettered(w, O)

\* Two states of a connection that differ only by its lines and its class.
Alike(a, b) == /\ a.st = b.st /\ a.via = b.via /\ a.dns = b.dns /\ a.host = b.host /\ a.read = b.read
               /\ a.idle = b.idle /\ a.pung = b.pung /\ a.dead = b.dead /\ a.hurt = b.hurt
               /\ a.oper = b.oper

\* What the functions on the lines of a connection leave alone.
Kin(w, v) ==
    /\ v.query = w.query /\ v.cache = w.cache /\ v.order = w.order /\ (w.lost => v.lost)
    /\ \A d \in Slots : Alike(w.conn[d], v.conn[d]) /\ (w.conn[d].st = "none" => v.conn[d] = w.conn[d])
    /\ \A j \in Lines : /\ v.line[j].legal = w.line[j].legal
                        /\ w.line[j].legal => v.line[j].kind = w.line[j].kind

\* A world whose books are in order unless the server is lost.
Fit(w, O, V) == w \in ConnWorlds /\ (w.lost \/ Books(w, O, V))

LEMMA KinGoesOn ==
    ASSUME NEW u, NEW v, NEW w, Kin(u, v), Kin(v, w)
    PROVE  Kin(u, w)
  BY DEF Kin, Alike

LEMMA FiniteLines == IsFiniteSet(1 .. MaxLine)
<1>1. MaxLine \in Int
  BY ConnAssumption
<1> QED BY <1>1, FS_Interval

\* The class k has n connections more, and no other has.
Entered(w, v, k, n) == \A m \in 1 .. MaxClass : v.cls[m] # NoClass =>
    w.cls[m] # NoClass /\ v.cls[m].conns = IF m = k THEN w.cls[m].conns + n ELSE w.cls[m].conns

\* A line is attached to a connection, and counted.
LEMMA Hangs ==
    ASSUME NEW w \in ConnWorlds, NEW v \in ConnWorlds, NEW O, NEW V, Books(w, O, V),
           NEW c \in Slots, NEW i \in Lines,
           i \notin Range(w.conn[c].confs), w.line[i].kind \notin {"P", "free"},
           v.conn[c].confs = <<i>> \o w.conn[c].confs,
           v.conn[c].via = w.conn[c].via, v.conn[c].oper = w.conn[c].oper,
           \A d \in Slots : d # c => v.conn[d] = w.conn[d],
           \A j \in Lines : j # i => v.line[j] = w.line[j],
           v.line[i] = [w.line[i] EXCEPT !.clients = w.line[i].clients + 1],
           Entered(w, v, w.line[i].class, 1)
    PROVE  Books(v, O, V)
<1>0. /\ \A d \in Slots : w.conn[d] \in Client /\ v.conn[d] \in Client
      /\ \A j \in Lines : w.line[j] \in Line /\ v.line[j] \in Line
      /\ \A k \in 1 .. MaxClass : w.cls[k] \in Class
  BY DEF ConnWorlds
<1>1. \A d \in Slots : w.conn[d].confs \in Seq(Lines) /\ w.conn[d].via \in 0 .. MaxLine
  BY <1>0 DEF Client, Lines
<1>2. /\ Range(v.conn[c].confs) = Range(w.conn[c].confs) \cup {i} /\ IsInjective(v.conn[c].confs)
  BY <1>1, OneMore DEF Books, Hung, Lines
<1>3. \A d \in Slots : \A j : is_attached(v, d, j) <=> is_attached(w, d, j) \/ (d = c /\ j = i)
  BY <1>2 DEF is_attached
<1>4. \A j \in Lines : /\ v.line[j].kind = w.line[j].kind /\ v.line[j].legal = w.line[j].legal
                       /\ v.line[j].class = w.line[j].class /\ v.line[j].name = w.line[j].name
  BY <1>0 DEF Line
<1>5. IsFiniteSet(Slots) /\ \A S \in SUBSET Slots : IsFiniteSet(S) /\ Cardinality(S) \in Nat
  BY ConnAssumption, FS_Subset, FS_CardinalityType
<1>14. \A d \in Slots : Range(w.conn[d].confs) \subseteq Lines
  BY <1>1, RangeIn
<1>15. \A d \in Slots : v.conn[d].via \in 0 .. MaxLine /\ (v.conn[d].via # 0 => v.conn[d].via \in Lines)
  <2>1. \A d \in Slots : v.conn[d].via \in 0 .. MaxLine
    BY <1>0 DEF Client
  <2>2. \A x \in 0 .. MaxLine : x # 0 => x \in Lines
    BY ConnAssumption DEF Lines
  <2> QED BY <2>1, <2>2
<1>6. Hung(v)
  <2> SUFFICES ASSUME NEW d \in Slots
               PROVE  /\ IsInjective(v.conn[d].confs)
                      /\ \A j \in Range(v.conn[d].confs) : v.line[j].kind \notin {"P", "free"}
    BY DEF Hung
  <2>1. CASE d = c
    <3>1. \A j \in Range(w.conn[c].confs) : w.line[j].kind \notin {"P", "free"}
      BY DEF Books, Hung
    <3>2. \A j \in Range(v.conn[c].confs) : j \in Lines /\ w.line[j].kind \notin {"P", "free"}
      BY <1>2, <1>14, <3>1
    <3> QED BY <1>2, <1>4, <2>1, <3>2
  <2>2. CASE d # c
    BY <1>4, <1>14, <2>2 DEF Books, Hung
  <2> QED BY <2>1, <2>2
<1>7. Tallied(v)
  <2> SUFFICES ASSUME NEW j \in Lines, w.line[j].kind \notin {"P", "free"}
               PROVE  v.line[j].clients = Cardinality(Held(v, j))
    BY <1>4 DEF Tallied
  <2>1. w.line[j].clients = Cardinality(Held(w, j)) /\ Held(w, j) \in SUBSET Slots
    BY DEF Books, Tallied, Held
  <2>2. CASE j = i
    <3>1. Held(v, j) = Held(w, j) \cup {c} /\ c \notin Held(w, j)
      BY <1>3, <2>2 DEF Held, is_attached
    <3>2. Cardinality(Held(v, j)) = Cardinality(Held(w, j)) + 1
      BY <1>5, <2>1, <3>1, FS_AddElement
    <3>3. v.line[j].clients = w.line[j].clients + 1
      BY <1>0, <2>2 DEF Line
    <3> QED BY <2>1, <3>2, <3>3
  <2>3. CASE j # i
    <3>1. Held(v, j) = Held(w, j)
      BY <1>3, <2>3 DEF Held
    <3> QED BY <2>1, <2>3, <3>1
  <2> QED BY <2>2, <2>3
<1>8. Freed(v)
  BY <1>4 DEF Books, Freed
<1>9. \A d \in Slots : v.conn[d].via = w.conn[d].via /\ v.conn[d].oper = w.conn[d].oper
  OBVIOUS
<1>10. Heard(v)
  <2> SUFFICES ASSUME NEW d \in Slots, v.conn[d].via # 0, v.line[v.conn[d].via].legal
               PROVE  v.line[v.conn[d].via].kind = "P"
    BY DEF Heard
  <2>1. v.conn[d].via \in Lines /\ v.conn[d].via = w.conn[d].via
    BY <1>9, <1>15
  <2> DEFINE j == v.conn[d].via
  <2>2. w.line[j].legal /\ j # 0 /\ w.conn[d].via = j
    BY <1>4, <2>1
  <2>3. w.line[j].kind = "P"
    BY <2>2 DEF Books, Heard
  <2> HIDE DEF j
  <2>4. v.line[j].kind = "P"
    BY <1>4, <2>1, <2>3 DEF j
  <2> QED BY <2>4 DEF j
<1>11. Listened(v, V)
  <2>1. \A j \in Lines : Accepted(v, j) = Accepted(w, j)
    BY <1>9 DEF Accepted
  <2>2. \A j \in Lines : w.line[j].kind = "P" => v.line[j] = w.line[j]
    OBVIOUS
  <2> QED BY <1>4, <2>1, <2>2 DEF Books, Listened
<1>12. Classed(v)
  <2> SUFFICES ASSUME NEW k \in 1 .. MaxClass, v.cls[k] # NoClass
               PROVE  v.cls[k].conns = Cardinality(Attached(v, k))
    BY DEF Classed
  <2>5. w.cls[k] # NoClass
        /\ v.cls[k].conns = IF k = w.line[i].class THEN w.cls[k].conns + 1 ELSE w.cls[k].conns
    BY DEF Entered
  <2>1. w.cls[k].conns = Cardinality(Attached(w, k)) /\ w.cls[k].conns \in Int
    BY <1>0, <2>5 DEF Books, Classed, Class
  <2>2. IsFiniteSet(Attached(w, k))
    <3>1. IsFiniteSet(1 .. MaxLine)
      BY FiniteLines
    <3>2. IsFiniteSet(Slots \X (1 .. MaxLine))
      BY <1>5, <3>1, FS_Product
    <3> QED BY <3>2, FS_Subset DEF Attached
  <2>3. CASE k = w.line[i].class
    <3>1. Attached(v, k) = Attached(w, k) \cup {<<c, i>>}
      BY <1>3, <1>4, <2>3 DEF Attached, Lines
    <3>2. <<c, i>> \notin Attached(w, k)
      BY DEF Attached, is_attached
    <3>3. Cardinality(Attached(v, k)) = Cardinality(Attached(w, k)) + 1
      BY <2>2, <3>1, <3>2, FS_AddElement
    <3>4. v.cls[k].conns = w.cls[k].conns + 1
      BY <2>3, <2>5
    <3> QED BY <2>1, <3>3, <3>4
  <2>4. CASE k # w.line[i].class
    <3>1. Attached(v, k) = Attached(w, k)
      BY <1>3, <1>4, <2>4 DEF Attached, Lines
    <3> QED BY <2>1, <2>4, <2>5, <3>1
  <2> QED BY <2>3, <2>4
<1>13. Lettered(v, O)
  <2> SUFFICES ASSUME NEW d \in Slots \ O, v.conn[d].oper = "glob"
               PROVE  \E j \in Range(v.conn[d].confs) : v.line[j].kind \in Operators
    BY DEF Lettered
  <2>1. PICK j \in Range(w.conn[d].confs) : w.line[j].kind \in Operators
    BY <1>9 DEF Books, Lettered
  <2>2. j \in Lines /\ j \in Range(v.conn[d].confs)
    BY <1>2, <1>14
  <2> QED BY <1>4, <2>1, <2>2
<1> QED BY <1>6, <1>7, <1>8, <1>10, <1>11, <1>12, <1>13 DEF Books

\* A line is detached from a connection, and counted down.
LEMMA Unhangs ==
    ASSUME NEW w \in ConnWorlds, NEW v \in ConnWorlds, NEW O, NEW V, Books(w, O, V),
           NEW c \in Slots, NEW i \in Lines,
           i \in Range(w.conn[c].confs), c \in O \/ w.conn[c].oper # "glob",
           v.conn[c].confs = Without(w.conn[c].confs, i),
           v.conn[c].via = w.conn[c].via, v.conn[c].oper = w.conn[c].oper,
           \A d \in Slots : d # c => v.conn[d] = w.conn[d],
           \A j \in Lines : j # i => v.line[j] = w.line[j],
           v.line[i] = [w.line[i] EXCEPT !.clients = w.line[i].clients - 1],
           Entered(w, v, w.line[i].class, -1)
    PROVE  Books(v, O, V)
<1>0. /\ \A d \in Slots : w.conn[d] \in Client /\ v.conn[d] \in Client
      /\ \A j \in Lines : w.line[j] \in Line /\ v.line[j] \in Line
      /\ \A k \in 1 .. MaxClass : w.cls[k] \in Class
  BY DEF ConnWorlds
<1>1. \A d \in Slots : w.conn[d].confs \in Seq(Lines) /\ w.conn[d].via \in 0 .. MaxLine
  BY <1>0 DEF Client, Lines
<1>2. /\ Range(v.conn[c].confs) = Range(w.conn[c].confs) \ {i} /\ IsInjective(v.conn[c].confs)
  BY <1>1, WithoutIs DEF Books, Hung, Lines
<1>3. \A d \in Slots : \A j : is_attached(v, d, j) <=> is_attached(w, d, j) /\ ~(d = c /\ j = i)
  BY <1>2 DEF is_attached
<1>4. \A j \in Lines : /\ v.line[j].kind = w.line[j].kind /\ v.line[j].legal = w.line[j].legal
                       /\ v.line[j].class = w.line[j].class /\ v.line[j].name = w.line[j].name
  BY <1>0 DEF Line
<1>5. IsFiniteSet(Slots) /\ \A S \in SUBSET Slots : IsFiniteSet(S) /\ Cardinality(S) \in Nat
  BY ConnAssumption, FS_Subset, FS_CardinalityType
<1>14. \A d \in Slots : Range(w.conn[d].confs) \subseteq Lines
  BY <1>1, RangeIn
<1>15. \A d \in Slots : v.conn[d].via \in 0 .. MaxLine /\ (v.conn[d].via # 0 => v.conn[d].via \in Lines)
  <2>1. \A d \in Slots : v.conn[d].via \in 0 .. MaxLine
    BY <1>0 DEF Client
  <2>2. \A x \in 0 .. MaxLine : x # 0 => x \in Lines
    BY ConnAssumption DEF Lines
  <2> QED BY <2>1, <2>2
<1>16. w.line[i].kind \notin {"P", "free"}
  BY DEF Books, Hung
<1>6. Hung(v)
  <2> SUFFICES ASSUME NEW d \in Slots
               PROVE  /\ IsInjective(v.conn[d].confs)
                      /\ \A j \in Range(v.conn[d].confs) : v.line[j].kind \notin {"P", "free"}
    BY DEF Hung
  <2>1. CASE d = c
    <3>1. \A j \in Range(w.conn[c].confs) : w.line[j].kind \notin {"P", "free"}
      BY DEF Books, Hung
    <3>2. \A j \in Range(v.conn[c].confs) : j \in Lines /\ w.line[j].kind \notin {"P", "free"}
      BY <1>2, <1>14, <3>1
    <3> QED BY <1>2, <1>4, <2>1, <3>2
  <2>2. CASE d # c
    BY <1>4, <1>14, <2>2 DEF Books, Hung
  <2> QED BY <2>1, <2>2
<1>7. Tallied(v)
  <2> SUFFICES ASSUME NEW j \in Lines, w.line[j].kind \notin {"P", "free"}
               PROVE  v.line[j].clients = Cardinality(Held(v, j))
    BY <1>4 DEF Tallied
  <2>1. w.line[j].clients = Cardinality(Held(w, j)) /\ Held(w, j) \in SUBSET Slots
    BY DEF Books, Tallied, Held
  <2>2. CASE j = i
    <3>1. Held(v, j) = Held(w, j) \ {c} /\ c \in Held(w, j)
      BY <1>3, <2>2 DEF Held, is_attached
    <3>2. Cardinality(Held(v, j)) = Cardinality(Held(w, j)) - 1
      BY <1>5, <2>1, <3>1, FS_RemoveElement
    <3>3. v.line[j].clients = w.line[j].clients - 1
      BY <1>0, <2>2 DEF Line
    <3> QED BY <2>1, <3>2, <3>3
  <2>3. CASE j # i
    <3>1. Held(v, j) = Held(w, j)
      BY <1>3, <2>3 DEF Held
    <3> QED BY <2>1, <2>3, <3>1
  <2> QED BY <2>2, <2>3
<1>8. Freed(v)
  BY <1>4, <1>16 DEF Books, Freed
<1>9. \A d \in Slots : v.conn[d].via = w.conn[d].via /\ v.conn[d].oper = w.conn[d].oper
  OBVIOUS
<1>10. Heard(v)
  <2> SUFFICES ASSUME NEW d \in Slots, v.conn[d].via # 0, v.line[v.conn[d].via].legal
               PROVE  v.line[v.conn[d].via].kind = "P"
    BY DEF Heard
  <2>1. v.conn[d].via \in Lines /\ v.conn[d].via = w.conn[d].via
    BY <1>9, <1>15
  <2> DEFINE j == v.conn[d].via
  <2>2. w.line[j].legal /\ j # 0 /\ w.conn[d].via = j
    BY <1>4, <2>1
  <2>3. w.line[j].kind = "P"
    BY <2>2 DEF Books, Heard
  <2> HIDE DEF j
  <2>4. v.line[j].kind = "P"
    BY <1>4, <2>1, <2>3 DEF j
  <2> QED BY <2>4 DEF j
<1>11. Listened(v, V)
  <2>1. \A j \in Lines : Accepted(v, j) = Accepted(w, j)
    BY <1>9 DEF Accepted
  <2>2. \A j \in Lines : w.line[j].kind = "P" => v.line[j] = w.line[j]
    BY <1>16
  <2> QED BY <1>4, <2>1, <2>2 DEF Books, Listened
<1>12. Classed(v)
  <2> SUFFICES ASSUME NEW k \in 1 .. MaxClass, v.cls[k] # NoClass
               PROVE  v.cls[k].conns = Cardinality(Attached(v, k))
    BY DEF Classed
  <2>5. w.cls[k] # NoClass
        /\ v.cls[k].conns = IF k = w.line[i].class THEN w.cls[k].conns - 1 ELSE w.cls[k].conns
    BY DEF Entered
  <2>1. w.cls[k].conns = Cardinality(Attached(w, k)) /\ w.cls[k].conns \in Int
    BY <1>0, <2>5 DEF Books, Classed, Class
  <2>2. IsFiniteSet(Attached(w, k))
    <3>1. IsFiniteSet(1 .. MaxLine)
      BY FiniteLines
    <3>2. IsFiniteSet(Slots \X (1 .. MaxLine))
      BY <1>5, <3>1, FS_Product
    <3> QED BY <3>2, FS_Subset DEF Attached
  <2>3. CASE k = w.line[i].class
    <3>1. Attached(v, k) = Attached(w, k) \ {<<c, i>>}
      BY <1>3, <1>4, <2>3 DEF Attached, Lines
    <3>2. <<c, i>> \in Attached(w, k)
      BY <2>3 DEF Attached, is_attached, Lines
    <3>3. Cardinality(Attached(v, k)) = Cardinality(Attached(w, k)) - 1
      BY <2>2, <3>1, <3>2, FS_RemoveElement
    <3>4. v.cls[k].conns = w.cls[k].conns - 1
      BY <2>3, <2>5
    <3> QED BY <2>1, <3>3, <3>4
  <2>4. CASE k # w.line[i].class
    <3>1. Attached(v, k) = Attached(w, k)
      BY <1>3, <1>4, <2>4 DEF Attached, Lines
    <3> QED BY <2>1, <2>4, <2>5, <3>1
  <2> QED BY <2>3, <2>4
<1>13. Lettered(v, O)
  <2> SUFFICES ASSUME NEW d \in Slots \ O, v.conn[d].oper = "glob"
               PROVE  \E j \in Range(v.conn[d].confs) : v.line[j].kind \in Operators
    BY DEF Lettered
  <2>1. PICK j \in Range(w.conn[d].confs) : w.line[j].kind \in Operators
    BY <1>9 DEF Books, Lettered
  <2>2. j \in Lines /\ j \in Range(v.conn[d].confs) /\ d # c
    BY <1>2, <1>14
  <2> QED BY <1>4, <2>1, <2>2
<1> QED BY <1>6, <1>7, <1>8, <1>10, <1>11, <1>12, <1>13 DEF Books

\* The lines of the connections are the same, and no new global operator is
\* among those that count.
Worn(w, v, O) ==
    /\ \A d \in Slots : v.conn[d].confs = w.conn[d].confs /\ v.conn[d].via = w.conn[d].via
    /\ \A d \in Slots \ O : v.conn[d].oper = w.conn[d].oper \/ v.conn[d].oper # "glob"

\* Classes may be freed.
Remains(w, v) == \A k \in 1 .. MaxClass :
    v.cls[k] # NoClass => w.cls[k] # NoClass /\ v.cls[k].conns = w.cls[k].conns

\* What a world's books do not depend on: classes may go, operators resign.
LEMMA BooksStay ==
    ASSUME NEW w \in ConnWorlds, NEW v \in ConnWorlds, NEW O, NEW V, Books(w, O, V),
           Worn(w, v, O), v.line = w.line, Remains(w, v)
    PROVE  Books(v, O, V)
<1>1. \A d \in Slots : \A j : is_attached(v, d, j) <=> is_attached(w, d, j)
  BY DEF is_attached, Worn
<1>2. /\ \A j : Held(v, j) = Held(w, j) /\ Accepted(v, j) = Accepted(w, j)
      /\ \A k : Attached(v, k) = Attached(w, k)
  BY <1>1 DEF Held, Accepted, Attached, Worn
<1>3. Hung(v) /\ Tallied(v) /\ Freed(v) /\ Heard(v)
  BY <1>2 DEF Books, Hung, Tallied, Freed, Heard, Worn
<1>4. Listened(v, V) /\ Classed(v)
  BY <1>2 DEF Books, Listened, Classed, Remains
<1>5. Lettered(v, O)
  BY DEF Books, Lettered, Worn
<1> QED BY <1>3, <1>4, <1>5 DEF Books

\* A line that is attached to nothing is freed.
LEMMA LineGoes ==
    ASSUME NEW w \in ConnWorlds, NEW v \in ConnWorlds, NEW O, NEW V, Books(w, O, V),
           NEW i \in Lines, Held(w, i) = {},
           v.conn = w.conn, v.line = [w.line EXCEPT ![i] = NoLine], v.cls = w.cls
    PROVE  Books(v, O, V)
<1>0. /\ \A d \in Slots : w.conn[d] \in Client
      /\ \A j \in Lines : j # i => v.line[j] = w.line[j]
      /\ v.line[i] = NoLine
  BY DEF ConnWorlds
<1>1. \A d \in Slots : w.conn[d].confs \in Seq(Lines) /\ w.conn[d].via \in 0 .. MaxLine
  BY <1>0 DEF Client, Lines
<1>2. \A d \in Slots : Range(w.conn[d].confs) \subseteq Lines
  BY <1>1, RangeIn
<1>3. \A d \in Slots : i \notin Range(w.conn[d].confs)
  BY DEF Held, is_attached
<1>4. \A d \in Slots : \A j \in Range(v.conn[d].confs) : v.line[j] = w.line[j]
  BY <1>0, <1>2, <1>3
<1>5. Hung(v) /\ Lettered(v, O)
  <2>1. Hung(v)
    BY <1>4 DEF Books, Hung
  <2>2. Lettered(v, O)
    BY <1>4 DEF Books, Lettered
  <2> QED BY <2>1, <2>2
<1>6. \A j : Held(v, j) = Held(w, j) /\ Accepted(v, j) = Accepted(w, j)
  BY DEF Held, Accepted, is_attached
<1>7. Tallied(v) /\ Freed(v) /\ Listened(v, V)
  <2>1. NoLine.kind = "free"
    BY DEF NoLine
  <2>2. Tallied(v)
    BY <1>0, <1>6, <2>1 DEF Books, Tallied
  <2>3. Freed(v)
    BY <1>0, <2>1 DEF Books, Freed
  <2>4. Listened(v, V)
    BY <1>0, <1>6, <2>1 DEF Books, Listened
  <2> QED BY <2>2, <2>3, <2>4
<1>8. Heard(v)
  <2> SUFFICES ASSUME NEW d \in Slots, v.conn[d].via # 0, v.line[v.conn[d].via].legal
               PROVE  v.line[v.conn[d].via].kind = "P"
    BY DEF Heard
  <2>1. v.conn[d].via \in Lines
    BY <1>1, ConnAssumption DEF Lines
  <2>3. ~NoLine.legal
    BY DEF NoLine
  <2>2. v.conn[d].via # i
    BY <1>0, <2>3
  <2> QED BY <1>0, <2>1, <2>2 DEF Books, Heard
<1>9. Classed(v)
  <2>1. \A k \in 1 .. MaxClass : Attached(v, k) = Attached(w, k)
    <3> SUFFICES ASSUME NEW k \in 1 .. MaxClass, NEW x \in Slots \X (1 .. MaxLine)
                 PROVE  is_attached(v, x[1], x[2]) /\ v.line[x[2]].class = k
                          <=> is_attached(w, x[1], x[2]) /\ w.line[x[2]].class = k
      BY DEF Attached
    <3>1. x[1] \in Slots
      OBVIOUS
    <3> QED BY <1>4, <3>1 DEF is_attached
  <2> QED BY <2>1 DEF Books, Classed
<1> QED BY <1>5, <1>7, <1>8, <1>9 DEF Books

LEMMA Bounds == MaxLine \in Nat /\ MaxClass \in Nat /\ MaxCached \in Nat /\ MaxRehash \in Nat
  BY ConnAssumption

\* What stands for an empty place is of the type of what may be there.
LEMMA Nothing == NoClass \in Class /\ NoLine \in Line /\ NoConn \in Client
<1>1. 0 \in Int /\ 0 \in 0 .. MaxLine /\ 0 \in 0 .. MaxClass /\ "" \in Names
  BY Bounds DEF Names
<1>2. NoClass \in Class
  BY <1>1 DEF NoClass, Class
<1>3. NoLine \in Line
  BY <1>1 DEF NoLine, Line
<1>4. <<>> \in Seq(1 .. MaxLine)
  OBVIOUS
<1>5. NoConn \in Client
  <2>1. "none" \in {"none", "unknown", "person", "connecting", "handshake", "server"}
        /\ "no" \in {"no", "loc", "glob"} /\ FALSE \in BOOLEAN /\ 0 \in 0 .. 2
    OBVIOUS
  <2> QED BY <1>1, <1>4, <2>1, Zenon DEF NoConn, Client
<1> QED BY <1>2, <1>3, <1>5

\* One reference less to a class.
LEMMA ClassFreed ==
    ASSUME NEW w \in ConnWorlds, NEW k \in 0 .. MaxClass, NEW v, v = class_free(w, k)
    PROVE  /\ v \in ConnWorlds /\ v.conn = w.conn /\ v.line = w.line /\ v.query = w.query /\ v.cache = w.cache
           /\ v.order = w.order /\ (w.lost => v.lost)
           /\ Remains(w, v)
<1> DEFINE refs == w.cls[k].refs - 1
           gone == [w EXCEPT !.cls[k] = NoClass, !.classlist = Without(@, k)]
           less == [w EXCEPT !.cls[k].refs = refs]
<1>1. CASE k = 0
  <2>1. v = w
    BY <1>1 DEF class_free
  <2> QED BY <2>1 DEF Remains
<1>2. CASE k # 0 /\ w.cls[k] = NoClass
  <2>1. v = Lost(w)
    BY <1>2 DEF class_free
  <2> QED BY <2>1 DEF Lost, ConnWorlds, Remains
<1>3. CASE k # 0 /\ w.cls[k] # NoClass /\ w.cls[k].max = -1 /\ refs = 0
  <2>1. v = gone
    BY <1>3 DEF class_free
  <2>2. k \in 1 .. MaxClass /\ w.cls \in [1 .. MaxClass -> Class] /\ w.classlist \in Seq(1 .. MaxClass)
    BY <1>3 DEF ConnWorlds
  <2>3. Without(w.classlist, k) \in Seq(1 .. MaxClass)
    BY <2>2, WithoutIs
  <2>4. NoClass \in Class
    BY Nothing
  <2>5. [w.cls EXCEPT ![k] = NoClass] \in [1 .. MaxClass -> Class]
    BY <2>2, <2>4
  <2>6. gone = [w EXCEPT !.cls = [w.cls EXCEPT ![k] = NoClass], !.classlist = Without(w.classlist, k)]
    BY DEF ConnWorlds
  <2> HIDE DEF gone
  <2>7. /\ gone \in ConnWorlds /\ gone.conn = w.conn /\ gone.line = w.line /\ gone.query = w.query
        /\ gone.cache = w.cache /\ gone.order = w.order /\ gone.lost = w.lost /\ gone.cls = [w.cls EXCEPT ![k] = NoClass]
    BY <2>3, <2>5, <2>6 DEF ConnWorlds
  <2> QED BY <2>1, <2>2, <2>7 DEF Remains
<1>4. CASE k # 0 /\ w.cls[k] # NoClass /\ ~(w.cls[k].max = -1 /\ refs = 0)
  <2>1. v = less
    BY <1>4 DEF class_free
  <2>2. k \in 1 .. MaxClass /\ w.cls \in [1 .. MaxClass -> Class]
    BY <1>4 DEF ConnWorlds
  <2>3. w.cls[k] \in Class
    BY <2>2
  <2> DEFINE new == [w.cls[k] EXCEPT !.refs = refs]
  <2>4. new \in Class /\ new.conns = w.cls[k].conns
    BY <2>3 DEF Class
  <2>5. less = [w EXCEPT !.cls = [w.cls EXCEPT ![k] = new]]
    BY DEF ConnWorlds
  <2> HIDE DEF less, new
  <2>6. [w.cls EXCEPT ![k] = new] \in [1 .. MaxClass -> Class]
    BY <2>2, <2>4
  <2>7. /\ less \in ConnWorlds /\ less.conn = w.conn /\ less.line = w.line /\ less.query = w.query
        /\ less.cache = w.cache /\ less.order = w.order /\ less.lost = w.lost /\ less.cls = [w.cls EXCEPT ![k] = new]
    BY <2>5, <2>6 DEF ConnWorlds
  <2> QED BY <1>4, <2>1, <2>2, <2>4, <2>7 DEF Remains
<1> QED BY <1>1, <1>2, <1>3, <1>4

\* A line that is attached to nothing is freed, and its class once more.
LEMMA ConfFreed ==
    ASSUME NEW w \in ConnWorlds, NEW i \in Lines, NEW v, v = free_conf(w, i)
    PROVE  /\ v \in ConnWorlds /\ v.conn = w.conn /\ v.line = [w.line EXCEPT ![i] = NoLine]
           /\ v.query = w.query /\ v.cache = w.cache /\ v.order = w.order /\ (w.lost => v.lost)
           /\ \A O, V : Books(w, O, V) /\ Held(w, i) = {} => Books(v, O, V)
<1> DEFINE x == [w EXCEPT !.line[i] = NoLine]
           k == w.line[i].class
<1>1. w.line \in [Lines -> Line] /\ w.line[i] \in Line /\ NoLine \in Line
  BY Nothing DEF ConnWorlds
<1>2. k \in 0 .. MaxClass /\ [w.line EXCEPT ![i] = NoLine] \in [Lines -> Line]
  BY <1>1 DEF Line
<1>3. x = [w EXCEPT !.line = [w.line EXCEPT ![i] = NoLine]]
  BY DEF ConnWorlds
<1>4. v = class_free(x, k)
  BY DEF free_conf
<1> HIDE DEF x, k
<1>5. /\ x \in ConnWorlds /\ x.conn = w.conn /\ x.line = [w.line EXCEPT ![i] = NoLine] /\ x.cls = w.cls
      /\ x.query = w.query /\ x.cache = w.cache /\ x.order = w.order /\ x.lost = w.lost
  BY <1>2, <1>3 DEF ConnWorlds
<1>6. /\ v \in ConnWorlds /\ v.conn = x.conn /\ v.line = x.line /\ v.query = x.query /\ v.cache = x.cache
      /\ v.order = x.order /\ (x.lost => v.lost)
      /\ Remains(x, v)
  BY <1>2, <1>4, <1>5, ClassFreed
<1>7. ASSUME NEW O, NEW V, Books(w, O, V), Held(w, i) = {} PROVE Books(v, O, V)
  <2>1. Books(x, O, V)
    BY <1>5, <1>7, LineGoes
  <2>2. Worn(x, v, O)
    BY <1>6 DEF Worn
  <2> QED BY <1>5, <1>6, <2>1, <2>2, BooksStay
<1> QED BY <1>5, <1>6, <1>7

\* attach_conf(): the line is counted, or not attached at all.
LEMMA Attaches ==
    ASSUME NEW O, NEW V, NEW w, Fit(w, O, V), NEW c \in Slots, w.conn[c].st # "none", NEW i \in Lines,
           w.line[i].legal => w.line[i].kind \notin {"P", "free"},
           NEW v, v = attach_conf(w, c, i)
    PROVE  /\ Fit(v, O, V) /\ Kin(w, v)
           /\ MayAttach(w, c, i) => v.lost \/ v.conn[c].confs = <<i>> \o w.conn[c].confs
<1> DEFINE q == <<i>> \o w.conn[c].confs
           k == w.line[i].class
           me == [w.conn[c] EXCEPT !.confs = q]
           one == [w.line[i] EXCEPT !.clients = w.line[i].clients + 1]
           u == Hang(w, c, i)
           x == Enter(u, c, k)
<1>0. /\ w \in ConnWorlds /\ w.conn \in [Slots -> Client] /\ w.line \in [Lines -> Line]
      /\ w.cls \in [1 .. MaxClass -> Class]
  BY DEF Fit, ConnWorlds
<1>1. w.conn[c] \in Client /\ w.line[i] \in Line /\ w.line[i].clients \in Int /\ k \in 0 .. MaxClass
  BY <1>0 DEF Line
<1>2. q \in Seq(1 .. MaxLine)
  <2>1. w.conn[c].confs \in Seq(1 .. MaxLine) /\ i \in 1 .. MaxLine
    BY <1>1 DEF Client, Lines
  <2> QED BY <2>1, OneMore
<1> HIDE DEF q
<1>3. me \in Client /\ Alike(w.conn[c], me) /\ me.confs = q
  BY <1>1, <1>2 DEF Client, Alike
<1>4. one \in Line /\ one.kind = w.line[i].kind /\ one.legal = w.line[i].legal
  BY <1>1 DEF Line
<1>5. u = [w EXCEPT !.conn = [w.conn EXCEPT ![c] = me], !.line = [w.line EXCEPT ![i] = one]]
  BY <1>0 DEF ConnWorlds, Hang, q
<1> HIDE DEF me, one, u
<1>6. /\ u \in ConnWorlds /\ u.conn = [w.conn EXCEPT ![c] = me] /\ u.line = [w.line EXCEPT ![i] = one]
      /\ u.cls = w.cls /\ u.query = w.query /\ u.cache = w.cache /\ u.order = w.order /\ u.lost = w.lost
  <2>1. [w.conn EXCEPT ![c] = me] \in [Slots -> Client] /\ [w.line EXCEPT ![i] = one] \in [Lines -> Line]
    BY <1>0, <1>3, <1>4
  <2> QED BY <1>0, <1>5, <2>1 DEF ConnWorlds
<1>7. \A y \in ConnWorlds : \A m :
        /\ y.line = u.line /\ y.query = w.query /\ y.cache = w.cache /\ y.order = w.order /\ y.lost = w.lost
        /\ y.conn = [w.conn EXCEPT ![c] = m] /\ Alike(w.conn[c], m)
        => Kin(w, y)
  BY <1>0, <1>4, <1>6 DEF Kin, Alike
<1>8. CASE ~MayAttach(w, c, i)
  <2>1. v = w
    BY <1>8 DEF attach_conf
  <2> QED BY <1>8, <2>1 DEF Kin, Alike
<1>9. CASE MayAttach(w, c, i) /\ k = 0
  <2>1. v = u
    BY <1>9 DEF attach_conf, u
  <2>2. Kin(w, u)
    BY <1>3, <1>6, <1>7
  <2>3. ASSUME ~w.lost PROVE Books(u, O, V)
    <3>1. Books(w, O, V) /\ i \notin Range(w.conn[c].confs) /\ w.line[i].kind \notin {"P", "free"}
      BY <1>9, <2>3 DEF Fit, MayAttach, is_attached
    <3>2. u.conn[c] = me /\ (\A d \in Slots : d # c => u.conn[d] = w.conn[d])
          /\ u.line[i] = one /\ (\A j \in Lines : j # i => u.line[j] = w.line[j])
      BY <1>0, <1>6
    <3>3. Entered(w, u, k, 1)
      BY <1>6, <1>9 DEF Entered
    <3> QED BY <1>0, <1>3, <1>6, <3>1, <3>2, <3>3, Hangs DEF q, one, Alike
  <2> QED BY <1>0, <1>3, <1>6, <2>1, <2>2, <2>3 DEF Fit, q
<1>10. CASE MayAttach(w, c, i) /\ k # 0 /\ w.cls[k] = NoClass
  <2>1. v = Lost(w)
    BY <1>10 DEF attach_conf
  <2> QED BY <1>0, <2>1 DEF Lost, ConnWorlds, Fit, Kin, Alike
<1>11. CASE MayAttach(w, c, i) /\ k # 0 /\ w.cls[k] # NoClass
  <2> DEFINE me2 == [me EXCEPT !.class = k]
             new == [w.cls[k] EXCEPT !.conns = w.cls[k].conns + 1, !.refs = w.cls[k].refs + 1]
  <2>1. v = x
    BY <1>11 DEF attach_conf, u
  <2>0. \A n \in 0 .. MaxClass : n # 0 => n \in 1 .. MaxClass
    BY Bounds
  <2>2. k \in 1 .. MaxClass /\ w.cls[k] \in Class
    <3> HIDE DEF k
    <3> QED BY <1>0, <1>1, <1>11, <2>0
  <2>3. me2 \in Client /\ Alike(w.conn[c], me2) /\ me2.confs = q
    BY <1>1, <1>3 DEF Client, Alike
  <2>4. new \in Class /\ new.conns = w.cls[k].conns + 1
    <3>1. w.cls[k].conns \in Int /\ w.cls[k].refs \in Int
      BY <2>2 DEF Class
    <3> DEFINE a == w.cls[k]
    <3>2. a \in Class /\ a.conns \in Int /\ a.refs \in Int
      BY <2>2, <3>1
    <3> DEFINE m == a.conns + 1  n == a.refs + 1
    <3>3. new = [a EXCEPT !.conns = m, !.refs = n] /\ m \in Int /\ n \in Int
      BY <3>2
    <3> HIDE DEF k, a, new, m, n
    <3>4. new \in Class /\ new.conns = m
      BY <3>2, <3>3 DEF Class
    <3> QED BY <3>4 DEF a, m
  <2>5. x = [u EXCEPT !.conn = [u.conn EXCEPT ![c] = me2], !.cls = [u.cls EXCEPT ![k] = new]]
    <3>1. u.conn[c] = me /\ u.cls[k] = w.cls[k]
      BY <1>0, <1>6
    <3> HIDE DEF k
    <3> QED BY <1>6, <3>1 DEF ConnWorlds, Enter
  <2> HIDE DEF new
  <2> HIDE DEF me2, x, k
  <2>6. [w.conn EXCEPT ![c] = me2] \in [Slots -> Client] /\ [w.cls EXCEPT ![k] = new] \in [1 .. MaxClass -> Class]
        /\ [u.conn EXCEPT ![c] = me2] = [w.conn EXCEPT ![c] = me2]
    BY <1>0, <1>6, <2>2, <2>3, <2>4
  <2>7. /\ x \in ConnWorlds /\ x.conn = [w.conn EXCEPT ![c] = me2] /\ x.line = u.line
        /\ x.cls = [w.cls EXCEPT ![k] = new] /\ x.query = w.query /\ x.cache = w.cache
        /\ x.order = w.order /\ x.lost = w.lost
    BY <1>6, <2>5, <2>6 DEF ConnWorlds
  <2>8. Kin(w, x)
    BY <1>7, <2>3, <2>7
  <2>9. ASSUME ~w.lost PROVE Books(x, O, V)
    <3>1. Books(w, O, V) /\ i \notin Range(w.conn[c].confs) /\ w.line[i].kind \notin {"P", "free"}
      BY <1>11, <2>9 DEF Fit, MayAttach, is_attached
    <3>2. x.conn[c] = me2 /\ (\A d \in Slots : d # c => x.conn[d] = w.conn[d])
          /\ x.line[i] = one /\ (\A j \in Lines : j # i => x.line[j] = w.line[j])
      BY <1>0, <1>6, <2>7
    <3>3. \A n \in 1 .. MaxClass : x.cls[n] = IF n = k THEN new ELSE w.cls[n]
      BY <1>0, <2>7
    <3>4. Entered(w, x, w.line[i].class, 1)
      BY <1>11, <2>4, <3>3 DEF Entered, k
    <3>5. x.conn[c].confs = <<i>> \o w.conn[c].confs /\ x.conn[c].via = w.conn[c].via
          /\ x.conn[c].oper = w.conn[c].oper
      BY <2>3, <3>2 DEF q, Alike
    <3>6. x.line[i] = [w.line[i] EXCEPT !.clients = w.line[i].clients + 1]
      BY <3>2 DEF one
    <3> HIDE DEF k
    <3> QED BY <1>0, <2>7, <3>1, <3>2, <3>4, <3>5, <3>6, Hangs, SMTT(60)
  <2> QED BY <1>0, <2>1, <2>3, <2>7, <2>8, <2>9 DEF Fit, q
<1> QED BY <1>8, <1>9, <1>10, <1>11

\* What Unhang() does to the connection.
LEMMA UnhangIs ==
    ASSUME NEW w \in ConnWorlds, NEW c \in Slots, NEW i \in Lines, NEW u, u = Unhang(w, c, i)
    PROVE  /\ u \in ConnWorlds /\ u.conn[c] \in Client /\ u.conn = [w.conn EXCEPT ![c] = u.conn[c]]
           /\ Alike(w.conn[c], u.conn[c]) /\ u.conn[c].confs = Without(w.conn[c].confs, i)
           /\ u.line = w.line /\ u.cls = w.cls /\ u.query = w.query /\ u.cache = w.cache
           /\ u.order = w.order /\ u.lost = w.lost
<1> DEFINE rest == Without(w.conn[c].confs, i)
           next == FirstLine(rest, {j \in DOMAIN w.line : w.line[j].class # 0})
           class == IF w.conn[c].class # w.line[i].class THEN w.conn[c].class
                    ELSE IF next = 0 THEN 0 ELSE w.line[next].class
           me == [w.conn[c] EXCEPT !.confs = rest, !.class = class]
<1>1. /\ w.conn \in [Slots -> Client] /\ w.line \in [Lines -> Line] /\ w.conn[c] \in Client
  BY DEF ConnWorlds
<1>2. rest \in Seq(1 .. MaxLine)
  BY <1>1, WithoutIs DEF Client
<1>3. next = 0 \/ next \in Lines
  <2> HIDE DEF rest
  <2> QED BY <1>2, FirstLineIs DEF Lines
<1>4. class \in 0 .. MaxClass
  <2>1. w.conn[c].class \in 0 .. MaxClass /\ 0 \in 0 .. MaxClass
    BY <1>1, Bounds DEF Client
  <2>2. \A j \in Lines : w.line[j].class \in 0 .. MaxClass
    BY <1>1 DEF Line
  <2> HIDE DEF next
  <2> QED BY <1>3, <2>1, <2>2
<1>5. u = [w EXCEPT !.conn = [w.conn EXCEPT ![c] = me]]
  BY <1>1 DEF Unhang, ConnWorlds
<1> HIDE DEF rest, class
<1>6. me \in Client /\ Alike(w.conn[c], me) /\ me.confs = rest
  BY <1>1, <1>2, <1>4 DEF Client, Alike
<1> HIDE DEF me
<1>7. [w.conn EXCEPT ![c] = me] \in [Slots -> Client]
  BY <1>1, <1>6
<1>8. /\ u \in ConnWorlds /\ u.conn = [w.conn EXCEPT ![c] = me]
      /\ u.line = w.line /\ u.cls = w.cls /\ u.query = w.query /\ u.cache = w.cache
      /\ u.order = w.order /\ u.lost = w.lost
  BY <1>5, <1>7 DEF ConnWorlds
<1>9. u.conn[c] = me
  BY <1>1, <1>8
<1> QED BY <1>6, <1>8, <1>9 DEF rest

\* One connection less of the class k.
LEMMA LeaveIs ==
    ASSUME NEW w \in ConnWorlds, NEW k \in 0 .. MaxClass, k # 0 => w.cls[k] # NoClass,
           NEW v, v = Leave(w, k)
    PROVE  /\ v \in ConnWorlds /\ v.conn = w.conn /\ v.line = w.line /\ v.query = w.query /\ v.cache = w.cache
           /\ v.order = w.order /\ (w.lost => v.lost) /\ Entered(w, v, k, -1)
<1>1. CASE k = 0
  BY <1>1 DEF Leave, Entered
<1>2. CASE k # 0
  <2> DEFINE a == w.cls[k]
             m == a.conns - 1
             less == [a EXCEPT !.conns = m]
             x == [w EXCEPT !.cls[k].conns = @ - 1]
  <2>1. v = class_free(x, k)
    BY <1>2 DEF Leave
  <2>2. k \in 1 .. MaxClass /\ w.cls \in [1 .. MaxClass -> Class]
    BY <1>2, Bounds DEF ConnWorlds
  <2>3. a \in Class /\ m \in Int
    <3>1. a \in Class
      BY <2>2
    <3> HIDE DEF a
    <3> QED BY <3>1 DEF Class
  <2>4. x = [w EXCEPT !.cls = [w.cls EXCEPT ![k] = less]]
    BY <2>2 DEF ConnWorlds
  <2> HIDE DEF a, m, x
  <2>5. less \in Class /\ less.conns = m
    BY <2>3 DEF Class
  <2> HIDE DEF less
  <2>6. [w.cls EXCEPT ![k] = less] \in [1 .. MaxClass -> Class]
    BY <2>2, <2>5
  <2>7. /\ x \in ConnWorlds /\ x.conn = w.conn /\ x.line = w.line /\ x.query = w.query /\ x.cache = w.cache
        /\ x.order = w.order /\ x.lost = w.lost /\ x.cls = [w.cls EXCEPT ![k] = less]
    BY <2>4, <2>6 DEF ConnWorlds
  <2>8. /\ v \in ConnWorlds /\ v.conn = x.conn /\ v.line = x.line /\ v.query = x.query /\ v.cache = x.cache
        /\ v.order = x.order /\ (x.lost => v.lost)
        /\ Remains(x, v)
    <3>1. x \in ConnWorlds
      BY <2>7
    <3> QED BY ONLY k \in 0 .. MaxClass, <2>1, <3>1, ClassFreed
  <2>9. less.conns = w.cls[k].conns + (-1)
    BY <2>3, <2>5 DEF a, m, Class
  <2>10. Entered(w, v, k, -1)
    <3>1. \A j \in 1 .. MaxClass : x.cls[j] = IF j = k THEN less ELSE w.cls[j]
      BY <2>2, <2>7
    <3>2. \A j \in 1 .. MaxClass : v.cls[j] # NoClass => x.cls[j] # NoClass /\ v.cls[j].conns = x.cls[j].conns
      BY <2>8 DEF Remains
    <3>3. w.cls[k] # NoClass
      BY <1>2
    <3> QED BY ONLY <2>9, <3>1, <3>2, <3>3 DEF Entered
  <2> QED BY <2>7, <2>8, <2>10
<1> QED BY <1>1, <1>2

\* The connection has every line it had but i.
Drops(w, v, c, i) == v.lost \/ Range(v.conn[c].confs) = Range(w.conn[c].confs) \ {i}

\* detach_conf(): the line is counted down, and freed with its last connection
\* once it was removed from the configuration.
LEMMA Detaches ==
    ASSUME NEW O, NEW V, NEW w, Fit(w, O, V), NEW c \in Slots, w.conn[c].st # "none",
           c \in O \/ w.conn[c].oper # "glob", NEW i \in Lines, NEW v, v = detach_conf(w, c, i)
    PROVE  Fit(v, O, V) /\ Kin(w, v) /\ Drops(w, v, c, i)
<1> DEFINE k == w.line[i].class
           u == Unhang(w, c, i)
           x == Leave(u, k)
           one == [w.line[i] EXCEPT !.clients = w.line[i].clients - 1]
           y == Uncount(x, i)
<1>0. /\ w \in ConnWorlds /\ w.conn \in [Slots -> Client] /\ w.line \in [Lines -> Line]
      /\ w.conn[c].confs \in Seq(1 .. MaxLine) /\ w.line[i] \in Line
  BY DEF Fit, ConnWorlds, Client
<1>1. k \in 0 .. MaxClass
  BY <1>0 DEF Line
<1>9. u = Unhang(w, c, i)
  OBVIOUS
<1> HIDE DEF k, u
<1> DEFINE me == u.conn[c]
<1>2. /\ u \in ConnWorlds /\ me \in Client /\ u.conn = [w.conn EXCEPT ![c] = me]
      /\ Alike(w.conn[c], me) /\ me.confs = Without(w.conn[c].confs, i)
      /\ u.line = w.line /\ u.cls = w.cls /\ u.query = w.query /\ u.cache = w.cache
      /\ u.order = w.order /\ u.lost = w.lost
  BY <1>0, <1>9, UnhangIs
<1>3. u.conn[c] = me /\ \A d \in Slots : d # c => u.conn[d] = w.conn[d]
  BY <1>0, <1>2
<1>4. \A d \in Slots : Alike(w.conn[d], u.conn[d]) /\ (w.conn[d].st = "none" => u.conn[d] = w.conn[d])
  BY <1>2, <1>3 DEF Alike
<1>5. Books(w, O, V) => Range(me.confs) = Range(w.conn[c].confs) \ {i}
  BY <1>0, <1>2, WithoutIs DEF Books, Hung
<1>6. CASE ~is_attached(w, c, i)
  <2>1. v = u
    BY <1>6 DEF detach_conf, u
  <2>2. Kin(w, u)
    BY <1>2, <1>4 DEF Kin
  <2>3. me.confs = w.conn[c].confs
    BY <1>0, <1>2, <1>6, WithoutIs DEF is_attached
  <2>4. ASSUME Books(w, O, V) PROVE Books(u, O, V)
    <3>1. \A d \in Slots : /\ u.conn[d].confs = w.conn[d].confs /\ u.conn[d].via = w.conn[d].via
                           /\ u.conn[d].oper = w.conn[d].oper
      BY <1>3, <1>4, <2>3 DEF Alike
    <3>2. Worn(w, u, O) /\ Remains(w, u)
      BY <1>2, <3>1 DEF Worn, Remains
    <3> QED BY <1>0, <1>2, <2>4, <3>2, BooksStay
  <2> QED BY <1>2, <1>3, <1>5, <2>1, <2>2, <2>4 DEF Fit, Drops
<1>7. CASE is_attached(w, c, i) /\ k # 0 /\ w.cls[k] = NoClass
  <2>1. v = Lost(w)
    BY <1>7 DEF detach_conf, k
  <2> QED BY <1>0, <2>1 DEF Lost, ConnWorlds, Fit, Kin, Alike, Drops
<1>8. CASE is_attached(w, c, i) /\ ~(k # 0 /\ w.cls[k] = NoClass)
  <2>1. v = IF y.line[i].clients = 0 /\ ~y.line[i].legal THEN free_conf(y, i) ELSE y
    BY <1>8 DEF detach_conf, k, u
  <2>2. /\ x \in ConnWorlds /\ x.conn = u.conn /\ x.line = u.line /\ x.query = u.query /\ x.cache = u.cache
        /\ x.order = u.order /\ (u.lost => x.lost) /\ Entered(u, x, k, -1)
    BY <1>1, <1>2, <1>8, LeaveIs
  <2> HIDE DEF x
  <2>3. one \in Line /\ one.kind = w.line[i].kind /\ one.legal = w.line[i].legal
    <3>1. w.line[i].clients - 1 \in Int
      BY <1>0 DEF Line
    <3> QED BY <1>0, <3>1 DEF Line
  <2>4. y = [x EXCEPT !.line = [w.line EXCEPT ![i] = one]]
    BY <1>2, <2>2 DEF ConnWorlds, Uncount
  <2> HIDE DEF one, y
  <2>5. [w.line EXCEPT ![i] = one] \in [Lines -> Line]
    BY <1>0, <2>3
  <2>6. /\ y \in ConnWorlds /\ y.conn = u.conn /\ y.line = [w.line EXCEPT ![i] = one] /\ y.cls = x.cls
        /\ y.query = w.query /\ y.cache = w.cache /\ y.order = w.order /\ (w.lost => y.lost)
    BY <1>2, <2>2, <2>4, <2>5 DEF ConnWorlds
  <2>7. y.line[i] = one /\ \A j \in Lines : j # i => y.line[j] = w.line[j]
    BY <1>0, <2>6
  <2>8. Kin(w, y)
    BY <1>4, <2>3, <2>6, <2>7 DEF Kin
  <2>9. ASSUME ~y.lost PROVE Books(y, O, V)
    <3>1. Books(w, O, V) /\ i \in Range(w.conn[c].confs)
      BY <1>8, <2>6, <2>9 DEF Fit, is_attached
    <3>2. Entered(w, y, w.line[i].class, -1)
      BY <1>2, <2>2, <2>6 DEF Entered, k
    <3>3. /\ y.conn[c].confs = Without(w.conn[c].confs, i) /\ y.conn[c].via = w.conn[c].via
          /\ y.conn[c].oper = w.conn[c].oper /\ \A d \in Slots : d # c => y.conn[d] = w.conn[d]
      BY <1>2, <1>3, <2>6 DEF Alike
    <3>4. y.line[i] = [w.line[i] EXCEPT !.clients = w.line[i].clients - 1]
      BY <2>7 DEF one
    <3> QED BY <1>0, <2>6, <2>7, <3>1, <3>2, <3>3, <3>4, Unhangs
  <2>10. y.lost \/ Range(y.conn[c].confs) = Range(w.conn[c].confs) \ {i}
    BY <1>3, <1>5, <2>6 DEF Fit
  <2>11. CASE ~(y.line[i].clients = 0 /\ ~y.line[i].legal)
    BY <2>1, <2>6, <2>8, <2>9, <2>10, <2>11 DEF Fit, Drops
  <2>12. CASE y.line[i].clients = 0 /\ ~y.line[i].legal
    <3>1. /\ v \in ConnWorlds /\ v.conn = y.conn /\ v.line = [y.line EXCEPT ![i] = NoLine]
          /\ v.query = y.query /\ v.cache = y.cache /\ v.order = y.order /\ (y.lost => v.lost)
          /\ (Books(y, O, V) /\ Held(y, i) = {} => Books(v, O, V))
      <4>1. y \in ConnWorlds /\ v = free_conf(y, i)
        BY <2>1, <2>6, <2>12
      <4> QED BY ONLY i \in Lines, <4>1, ConfFreed
    <3>2. Kin(y, v)
      <4>1. \A j \in Lines : IF j = i THEN v.line[j] = NoLine ELSE v.line[j] = y.line[j]
        BY <2>6, <3>1 DEF ConnWorlds
      <4>2. NoLine.legal = FALSE /\ y.line[i].legal \in BOOLEAN
        BY <2>6 DEF NoLine, ConnWorlds, Line
      <4> QED BY <2>6, <2>12, <3>1, <4>1, <4>2 DEF Kin, Alike, ConnWorlds
    <3>3. ASSUME ~y.lost PROVE Held(y, i) = {}
      <4>1. Books(y, O, V) /\ Books(w, O, V)
        BY <2>6, <2>9, <3>3 DEF Fit
      <4>2. w.line[i].kind \notin {"P", "free"}
        BY <1>8, <4>1 DEF Books, Hung, is_attached
      <4>3. Cardinality(Held(y, i)) = 0
        BY <2>3, <2>7, <2>12, <4>1, <4>2 DEF Books, Tallied
      <4>4. IsFiniteSet(Held(y, i))
        BY ConnAssumption, FS_Subset DEF Held
      <4> QED BY <4>3, <4>4, FS_EmptySet
    <3> QED BY <2>8, <2>9, <2>10, <3>1, <3>2, <3>3, KinGoesOn DEF Fit, Drops
  <2> QED BY <2>11, <2>12
<1> QED BY <1>6, <1>7, <1>8

\* det_confs_butmask(): with no kinds to keep, no line is left.
LEMMA Dets ==
    ASSUME NEW O, NEW V, NEW w, Fit(w, O, V), NEW c \in Slots, w.conn[c].st # "none",
           c \in O \/ w.conn[c].oper # "glob", NEW kinds, NEW v, v = det_confs_butmask(w, c, kinds)
    PROVE  Fit(v, O, V) /\ Kin(w, v) /\ (kinds = {} => v.lost \/ v.conn[c].confs = <<>>)
<1> DEFINE q == w.conn[c].confs
           step(u, i) == IF IsLine(u, i, kinds) THEN u ELSE detach_conf(u, c, i)
           Left(u, T) == u.lost \/ (/\ Range(u.conn[c].confs) \subseteq Range(q)
                                    /\ kinds = {} => \A j \in T : q[j] \notin Range(u.conn[c].confs))
           W == [T \in SUBSET DOMAIN q |-> {u \in ConnWorlds : Fit(u, O, V) /\ Kin(w, u) /\ Left(u, T)}]
           G == [x \in ConnWorlds \X Lines |-> step(x[1], x[2])]
<1>1. q \in Seq(Lines)
  BY DEF Fit, ConnWorlds, Client, Lines
<1>2. w \in ConnWorlds /\ Kin(w, w) /\ Left(w, {})
  BY DEF Fit, Kin, Alike
<1>3. ASSUME NEW T \in SUBSET DOMAIN q, T # {}, NEW u, u \in ConnWorlds, Fit(u, O, V), Kin(w, u),
             Left(u, T \ {Max(T)})
      PROVE  /\ step(u, q[Max(T)]) \in ConnWorlds /\ Fit(step(u, q[Max(T)]), O, V)
             /\ Kin(w, step(u, q[Max(T)])) /\ Left(step(u, q[Max(T)]), T)
  <2> DEFINE i == q[Max(T)]
             x == step(u, i)
  <2>1. i \in Lines /\ \A j \in T : j # Max(T) => j \in T \ {Max(T)}
    BY <1>1, <1>3, LastPlace, PlaceOf
  <2>2. u.conn[c].st # "none" /\ (c \in O \/ u.conn[c].oper # "glob")
    BY <1>3 DEF Kin, Alike
  <2>3. CASE IsLine(u, i, kinds)
    <3>1. x = u /\ kinds # {}
      BY <2>3 DEF IsLine
    <3> QED BY <1>3, <3>1
  <2>4. CASE ~IsLine(u, i, kinds)
    <3>1. x = detach_conf(u, c, i)
      BY <2>4
    <3> HIDE DEF i, x
    <3>2. /\ Fit(x, O, V) /\ Kin(u, x) /\ Drops(u, x, c, i)
      <4>1. Fit(u, O, V) /\ i \in Lines
        BY <1>3, <2>1
      <4> QED BY ONLY c \in Slots, <2>2, <3>1, <4>1, Detaches
    <3>3. Kin(w, x) /\ (u.lost => x.lost)
      <4>1. Kin(w, u) /\ Kin(u, x)
        BY <1>3, <3>2
      <4>2. Kin(w, x)
        BY <4>1, KinGoesOn
      <4> QED BY <4>1, <4>2 DEF Kin
    <3>4. Left(x, T)
      <4>1. CASE x.lost
        BY <4>1
      <4>2. CASE ~x.lost
        <5>1. \A j \in T : q[j] = i \/ j \in T \ {Max(T)}
          BY <2>1 DEF i
        <5> HIDE DEF q
        <5> QED BY <1>3, <3>2, <3>3, <4>2, <5>1 DEF Drops
      <4> QED BY <4>1, <4>2
    <3> QED BY <3>2, <3>3, <3>4 DEF Fit, x, i
  <2> QED BY <2>3, <2>4
<1>4. StepsGo(q, ConnWorlds, W, G)
  <2>1. ASSUME NEW T \in SUBSET DOMAIN q, T # {}, NEW u \in W[T \ {Max(T)}]
        PROVE  G[<<u, q[Max(T)]>>] \in W[T]
    <3>1. T \ {Max(T)} \in SUBSET DOMAIN q /\ q[Max(T)] \in Lines
      BY <1>1, <2>1, LastPlace, PlaceOf
    <3>2. u \in ConnWorlds /\ Fit(u, O, V) /\ Kin(w, u) /\ Left(u, T \ {Max(T)})
      BY <3>1
    <3> HIDE DEF step, Left, q
    <3>3. G[<<u, q[Max(T)]>>] = step(u, q[Max(T)])
      BY <3>1, <3>2
    <3> HIDE DEF G
    <3> QED BY <1>3, <2>1, <3>2, <3>3
  <2> HIDE DEF G, q, Left
  <2> QED BY <2>1 DEF StepsGo
<1> HIDE DEF G, Left, step
<1>5. w \in W[{}]
  BY <1>2
<1>6. PICK g \in [SUBSET DOMAIN q -> ConnWorlds] :
        FoldsList(g, q, w, G) /\ \A T \in SUBSET DOMAIN q : g[T] \in W[T]
  <2> HIDE DEF W, q
  <2> QED BY <1>1, <1>4, <1>5, ListStays
<1>7. ASSUME NEW T \in SUBSET DOMAIN q, T # {}
      PROVE  g[T] = step(g[T \ {Max(T)}], q[Max(T)])
  <2>1. g[T \ {Max(T)}] \in ConnWorlds /\ q[Max(T)] \in Lines
    BY <1>1, <1>7, LastPlace, PlaceOf
  <2>2. g[T] = G[<<g[T \ {Max(T)}], q[Max(T)]>>]
    BY <1>6, <1>7 DEF FoldsList
  <2> QED BY <2>1, <2>2 DEF G
<1>8. g[{}] = w
  BY <1>6 DEF FoldsList
<1>9. g = [T \in SUBSET DOMAIN q |-> IF T = {} THEN w ELSE step(g[T \ {Max(T)}], q[Max(T)])]
  BY <1>6, <1>7, <1>8
<1>10. PICK h : /\ h = [T \in SUBSET DOMAIN q |-> IF T = {} THEN w ELSE step(h[T \ {Max(T)}], q[Max(T)])]
                /\ det_confs_butmask(w, c, kinds) = h[DOMAIN q]
  BY <1>9 DEF det_confs_butmask, FoldLeft, MapThenFoldSet, step
<1>11. h[DOMAIN q] = g[DOMAIN q]
  <2>1. g[{}] = h[{}]
    BY <1>8, <1>10
  <2>2. \A T \in SUBSET DOMAIN q : T # {} /\ g[T \ {Max(T)}] = h[T \ {Max(T)}] => g[T] = h[T]
    BY <1>7, <1>10
  <2> HIDE DEF q
  <2> QED BY <1>1, <2>1, <2>2, SameList
<1>12. v \in W[DOMAIN q]
  BY <1>6, <1>10, <1>11
<1>13. v \in ConnWorlds /\ Fit(v, O, V) /\ Kin(w, v) /\ Left(v, DOMAIN q)
  BY <1>12
<1>14. ASSUME kinds = {}, ~v.lost PROVE v.conn[c].confs = <<>>
  <2>1. Range(v.conn[c].confs) = {}
    <3> DEFINE R == Range(v.conn[c].confs)
    <3>1. R \subseteq Range(q) /\ \A j \in DOMAIN q : q[j] \notin R
      BY <1>13, <1>14 DEF Left
    <3> HIDE DEF q, R
    <3>2. \A a \in Range(q) : \E j \in DOMAIN q : q[j] = a
      BY DEF Range
    <3> QED BY <3>1, <3>2 DEF R
  <2>2. v.conn[c].confs \in Seq(1 .. MaxLine)
    BY <1>13 DEF ConnWorlds, Client
  <2> QED BY <2>1, <2>2, EmptyList
<1> QED BY <1>13, <1>14

\* attach_confs(): lines of some kinds of the list are attached.
LEMMA AttachesAll ==
    ASSUME NEW O, NEW V, NEW w, Fit(w, O, V), NEW c \in Slots, w.conn[c].st # "none",
           NEW name, NEW kinds, kinds \cap {"P", "free"} = {}, NEW v, v = attach_confs(w, c, name, kinds)
    PROVE  Fit(v, O, V) /\ Kin(w, v)
<1> DEFINE q == w.order
           step(u, i) == IF IsLine(u, i, kinds) /\ u.line[i].name \in {name, "*"}
                         THEN attach_conf(u, c, i) ELSE u
           W == [T \in SUBSET DOMAIN q |-> {u \in ConnWorlds : Fit(u, O, V) /\ Kin(w, u)}]
           G == [x \in ConnWorlds \X Lines |-> step(x[1], x[2])]
<1>1. q \in Seq(Lines)
  BY DEF Fit, ConnWorlds
<1>2. w \in ConnWorlds /\ Kin(w, w)
  BY DEF Fit, Kin, Alike
<1>3. ASSUME NEW i \in Lines, NEW u, u \in ConnWorlds, Fit(u, O, V), Kin(w, u)
      PROVE  /\ step(u, i) \in ConnWorlds /\ Fit(step(u, i), O, V) /\ Kin(w, step(u, i))
  <2> DEFINE x == step(u, i)
  <2>1. CASE ~(IsLine(u, i, kinds) /\ u.line[i].name \in {name, "*"})
    <3>1. x = u
      BY <2>1
    <3> QED BY <1>3, <3>1
  <2>2. CASE IsLine(u, i, kinds) /\ u.line[i].name \in {name, "*"}
    <3>1. x = attach_conf(u, c, i) /\ u.line[i].kind \notin {"P", "free"} /\ u.conn[c].st # "none"
      BY <1>3, <2>2 DEF IsLine, Kin, Alike
    <3> HIDE DEF x
    <3>2. Fit(x, O, V) /\ Kin(u, x)
      BY ONLY c \in Slots, <1>3, <3>1, Attaches
    <3>3. Kin(w, x)
      BY <1>3, <3>2, KinGoesOn
    <3> QED BY <3>2, <3>3 DEF Fit, x
  <2> QED BY <2>1, <2>2
<1>4. StepsGo(q, ConnWorlds, W, G)
  <2>1. ASSUME NEW T \in SUBSET DOMAIN q, T # {}, NEW u \in W[T \ {Max(T)}]
        PROVE  G[<<u, q[Max(T)]>>] \in W[T]
    <3>1. T \ {Max(T)} \in SUBSET DOMAIN q /\ q[Max(T)] \in Lines
      BY <1>1, <2>1, LastPlace, PlaceOf
    <3>2. u \in ConnWorlds /\ Fit(u, O, V) /\ Kin(w, u)
      BY <3>1
    <3> HIDE DEF step, q
    <3>3. G[<<u, q[Max(T)]>>] = step(u, q[Max(T)])
      BY <3>1, <3>2
    <3> HIDE DEF G
    <3> QED BY <1>3, <2>1, <3>1, <3>2, <3>3
  <2> HIDE DEF G, q
  <2> QED BY <2>1 DEF StepsGo
<1> HIDE DEF G, step
<1>5. w \in W[{}]
  BY <1>2
<1>6. PICK g \in [SUBSET DOMAIN q -> ConnWorlds] :
        FoldsList(g, q, w, G) /\ \A T \in SUBSET DOMAIN q : g[T] \in W[T]
  <2> HIDE DEF W, q
  <2> QED BY <1>1, <1>4, <1>5, ListStays
<1>7. ASSUME NEW T \in SUBSET DOMAIN q, T # {}
      PROVE  g[T] = step(g[T \ {Max(T)}], q[Max(T)])
  <2>1. g[T \ {Max(T)}] \in ConnWorlds /\ q[Max(T)] \in Lines
    BY <1>1, <1>7, LastPlace, PlaceOf
  <2>2. g[T] = G[<<g[T \ {Max(T)}], q[Max(T)]>>]
    BY <1>6, <1>7 DEF FoldsList
  <2> QED BY <2>1, <2>2 DEF G
<1>8. g[{}] = w
  BY <1>6 DEF FoldsList
<1>9. g = [T \in SUBSET DOMAIN q |-> IF T = {} THEN w ELSE step(g[T \ {Max(T)}], q[Max(T)])]
  BY <1>6, <1>7, <1>8
<1>10. PICK h : /\ h = [T \in SUBSET DOMAIN q |-> IF T = {} THEN w ELSE step(h[T \ {Max(T)}], q[Max(T)])]
                /\ attach_confs(w, c, name, kinds) = h[DOMAIN q]
  BY <1>9 DEF attach_confs, FoldLeft, MapThenFoldSet, step
<1>11. h[DOMAIN q] = g[DOMAIN q]
  <2>1. g[{}] = h[{}]
    BY <1>8, <1>10
  <2>2. \A T \in SUBSET DOMAIN q : T # {} /\ g[T \ {Max(T)}] = h[T \ {Max(T)}] => g[T] = h[T]
    BY <1>7, <1>10
  <2> HIDE DEF q
  <2> QED BY <1>1, <2>1, <2>2, SameList
<1>12. v \in W[DOMAIN q]
  <2>1. v = g[DOMAIN q] /\ DOMAIN q \in SUBSET DOMAIN q
    BY <1>10, <1>11
  <2> HIDE DEF W, q
  <2> QED BY <1>6, <2>1
<1> QED BY <1>12

\* What is waited for and pointed to, and who may be an operator.
Seated(w) == \A c \in Slots :
    /\ w.conn[c].st = "none" => w.conn[c].confs = <<>> /\ w.conn[c].via = 0
    /\ w.conn[c].oper # "no" => w.conn[c].st = "person"
    /\ w.query[c] # "no" => w.conn[c].st # "none" /\ w.conn[c].dns
    /\ w.conn[c].host => w.conn[c].st # "none" /\ Addr[c] \in w.cache

\* What is said of every world the server can be in.
Sound(w) == w \in ConnWorlds /\ (w.lost \/ (Books(w, {}, {}) /\ Seated(w)))

\* The list of lines has no line twice, every line in force and none that is free.
Placed(w) ==
    /\ IsInjective(w.order)
    /\ \A j \in Lines : /\ w.line[j].legal => j \in Range(w.order)
                        /\ j \in Range(w.order) => w.line[j].kind # "free"

\* Nor one that was removed.
Ordered(w) == Placed(w) /\ \A j \in Lines : j \in Range(w.order) => w.line[j].legal

LEMMA KinOrders ==
    ASSUME NEW w, NEW v, Kin(w, v), Ordered(w)
    PROVE  Ordered(v)
  BY DEF Kin, Ordered, Placed

LEMMA SameOrders ==
    ASSUME NEW w, NEW v, v.line = w.line, v.order = w.order
    PROVE  (Placed(w) => Placed(v)) /\ (Ordered(w) => Ordered(v))
  BY DEF Ordered, Placed

\* A sound world to which a function may take another: it opens no connection.
Goes(w, v) == /\ Sound(v) /\ (w.lost => v.lost) /\ v.cache \subseteq w.cache /\ (Ordered(w) => Ordered(v))
              /\ \A d \in Slots : v.conn[d].st \in {w.conn[d].st, "none"}

LEMMA GoesOn ==
    ASSUME NEW u, NEW v, NEW w, Goes(u, v), Goes(v, w)
    PROVE  Goes(u, w)
  BY DEF Goes

\* The listener counts one connection less.
LEMMA Told ==
    ASSUME NEW w \in ConnWorlds, NEW v \in ConnWorlds, Books(w, {}, {}), NEW c \in Slots,
           NEW i, i = w.conn[c].via, i # 0 => w.line[i].legal,
           v.conn = w.conn, v.cls = w.cls,
           v.line = IF i = 0 \/ w.line[i].clients <= 0 THEN w.line
                    ELSE [w.line EXCEPT ![i] = [w.line[i] EXCEPT !.clients = w.line[i].clients - 1]]
    PROVE  Books(v, {c}, {c})
<1>1. /\ \A d \in Slots : w.conn[d] \in Client
      /\ \A j \in Lines : w.line[j] \in Line /\ w.line[j].clients \in Int
  BY DEF ConnWorlds, Line
<1>2. i \in 0 .. MaxLine /\ (i # 0 => i \in Lines)
  <2>1. i \in 0 .. MaxLine
    BY <1>1 DEF Client
  <2>2. \A x \in 0 .. MaxLine : x # 0 => x \in Lines
    BY ConnAssumption DEF Lines
  <2> QED BY <2>1, <2>2
<1>3. i # 0 => w.line[i].kind = "P"
  BY DEF Books, Heard
<1>4. \A j \in Lines : /\ v.line[j].kind = w.line[j].kind /\ v.line[j].legal = w.line[j].legal
                       /\ v.line[j].class = w.line[j].class
                       /\ (w.line[j].kind # "P" => v.line[j] = w.line[j])
  <2> SUFFICES ASSUME NEW j \in Lines
               PROVE  /\ v.line[j].kind = w.line[j].kind /\ v.line[j].legal = w.line[j].legal
                      /\ v.line[j].class = w.line[j].class /\ (w.line[j].kind # "P" => v.line[j] = w.line[j])
    OBVIOUS
  <2> DEFINE less == [w.line[i] EXCEPT !.clients = w.line[i].clients - 1]
  <2>1. i # 0 => /\ less.kind = w.line[i].kind /\ less.legal = w.line[i].legal /\ less.class = w.line[i].class
    BY <1>1, <1>2 DEF Line
  <2>2. v.line[j] = w.line[j] \/ (i # 0 /\ j = i /\ v.line[j] = less)
    BY DEF ConnWorlds
  <2> HIDE DEF less
  <2> QED BY <1>3, <2>1, <2>2
<1>5. \A d \in Slots : \A j : is_attached(v, d, j) <=> is_attached(w, d, j)
  BY DEF is_attached
<1>6. /\ \A j : Held(v, j) = Held(w, j) /\ Accepted(v, j) = Accepted(w, j)
  BY <1>5 DEF Held, Accepted
<1>7. \A d \in Slots : w.conn[d].confs \in Seq(1 .. MaxLine)
  BY <1>1 DEF Client
<1>8. \A d \in Slots : Range(w.conn[d].confs) \subseteq Lines
  BY <1>7, RangeIn DEF Lines
<1>9. Hung(v) /\ Tallied(v) /\ Freed(v)
  <2>1. Hung(v)
    BY <1>4, <1>8 DEF Books, Hung
  <2>2. Tallied(v)
    <3> SUFFICES ASSUME NEW j \in Lines, v.line[j].kind \notin {"P", "free"}
                 PROVE  v.line[j].clients = Cardinality(Held(v, j))
      BY DEF Tallied
    <3>1. w.line[j].kind \notin {"P", "free"} /\ v.line[j] = w.line[j]
      BY <1>4
    <3>2. w.line[j].clients = Cardinality(Held(w, j))
      BY <3>1 DEF Books, Tallied
    <3> QED BY <1>6, <3>1, <3>2
  <2>3. Freed(v)
    BY <1>4 DEF Books, Freed
  <2> QED BY <2>1, <2>2, <2>3
<1>10. Heard(v) /\ Lettered(v, {c})
  <2>1. \A x \in 0 .. MaxLine : x # 0 => x \in Lines
    BY ConnAssumption DEF Lines
  <2>2. \A d \in Slots : w.conn[d].via \in 0 .. MaxLine
    BY <1>1 DEF Client
  <2>3. Heard(v)
    <3> SUFFICES ASSUME NEW d \in Slots, v.conn[d].via # 0, v.line[v.conn[d].via].legal
                 PROVE  v.line[v.conn[d].via].kind = "P"
      BY DEF Heard
    <3> DEFINE j == w.conn[d].via
    <3>1. j \in Lines /\ v.conn[d].via = j
      BY <2>1, <2>2
    <3>2. w.line[j].legal /\ j # 0
      BY <1>4, <3>1
    <3>3. w.line[j].kind = "P"
      BY <3>2 DEF Books, Heard
    <3> HIDE DEF j
    <3> QED BY <1>4, <3>1, <3>3
  <2>4. Lettered(v, {c})
    <3> SUFFICES ASSUME NEW d \in Slots \ {c}, v.conn[d].oper = "glob"
                 PROVE  \E j \in Range(v.conn[d].confs) : v.line[j].kind \in Operators
      BY DEF Lettered
    <3>1. PICK j \in Range(w.conn[d].confs) : w.line[j].kind \in Operators
      BY DEF Books, Lettered
    <3> QED BY <1>4, <1>8, <3>1
  <2> QED BY <2>3, <2>4
<1>11. Listened(v, {c})
  <2> SUFFICES ASSUME NEW j \in Lines, v.line[j].kind = "P", v.line[j].legal
               PROVE  v.line[j].clients = Cardinality(Accepted(w, j) \ {c})
    BY <1>6 DEF Listened
  <2> DEFINE A == Accepted(w, j)
  <2>1. w.line[j].clients = Cardinality(A)
    <3>1. A \ {} = A
      OBVIOUS
    <3> QED BY <1>4, <3>1 DEF Books, Listened
  <2>2. IsFiniteSet(A) /\ (c \in A <=> j = i)
    BY ConnAssumption, FS_Subset DEF Accepted
  <2> HIDE DEF A
  <2>3. CASE j = i
    <3>1. Cardinality(A \ {c}) = Cardinality(A) - 1 /\ Cardinality(A) \in Nat
      BY <2>2, <2>3, FS_RemoveElement, FS_CardinalityType
    <3>2. A # {}
      BY <2>2, <2>3
    <3>3. Cardinality(A) # 0
      BY <2>2, <3>2, FS_EmptySet
    <3>4. ~(w.line[j].clients <= 0) /\ i # 0
      BY <1>2, <2>1, <2>3, <3>1, <3>3, ConnAssumption DEF Lines
    <3>5. v.line[j] = [w.line[j] EXCEPT !.clients = w.line[j].clients - 1]
      <4> DEFINE less == [w.line[i] EXCEPT !.clients = w.line[i].clients - 1]
      <4>1. v.line = [w.line EXCEPT ![i] = less] /\ i \in Lines
        BY <2>3, <3>4
      <4> HIDE DEF less
      <4>2. v.line[i] = less
        BY <4>1 DEF ConnWorlds
      <4> QED BY <2>3, <4>2 DEF less
    <3>6. v.line[j].clients = w.line[j].clients - 1
      BY <1>1, <3>5 DEF Line
    <3> QED BY <2>1, <3>1, <3>6 DEF A
  <2>4. CASE j # i
    <3>1. v.line[j] = w.line[j]
      BY <2>4 DEF ConnWorlds
    <3>2. A \ {c} = A
      BY <2>2, <2>4
    <3> QED BY <2>1, <3>1, <3>2 DEF A
  <2> QED BY <2>3, <2>4
<1>12. Classed(v)
  <2>1. \A k \in 1 .. MaxClass : Attached(v, k) = Attached(w, k)
    BY <1>4, <1>5 DEF Attached, Lines
  <2> QED BY <2>1 DEF Books, Classed
<1> QED BY <1>9, <1>10, <1>11, <1>12 DEF Books

\* A connection without lines goes.
LEMMA Departs ==
    ASSUME NEW w \in ConnWorlds, NEW v \in ConnWorlds, NEW c \in Slots, Books(w, {c}, {c}),
           w.conn[c].confs = <<>>, v.conn = [w.conn EXCEPT ![c] = NoConn], v.line = w.line, v.cls = w.cls
    PROVE  Books(v, {}, {})
<1>1. /\ NoConn.confs = <<>> /\ NoConn.via = 0 /\ NoConn.oper = "no"
  BY DEF NoConn
<1>2. /\ v.conn[c] = NoConn /\ \A d \in Slots : d # c => v.conn[d] = w.conn[d]
  BY DEF ConnWorlds
<1>3. \A d \in Slots : v.conn[d].confs = w.conn[d].confs
  BY <1>1, <1>2
<1>4. \A d \in Slots : \A j : is_attached(v, d, j) <=> is_attached(w, d, j)
  BY <1>3 DEF is_attached
<1>5. /\ \A j : Held(v, j) = Held(w, j)
      /\ \A k : Attached(v, k) = Attached(w, k)
  BY <1>4 DEF Held, Attached
<1>6. Hung(v) /\ Tallied(v) /\ Freed(v) /\ Classed(v)
  BY <1>3, <1>5 DEF Books, Hung, Tallied, Freed, Classed
<1>7. Heard(v)
  BY <1>1, <1>2 DEF Books, Heard
<1>8. Lettered(v, {})
  BY <1>1, <1>2 DEF Books, Lettered
<1>9. Listened(v, {})
  <2>1. \A j \in Lines : Accepted(v, j) \ {} = Accepted(w, j) \ {c}
    <3>1. 0 \notin Lines
      BY ConnAssumption DEF Lines
    <3> QED BY <1>1, <1>2, <3>1 DEF Accepted
  <2> QED BY <2>1 DEF Books, Listened
<1> QED BY <1>6, <1>7, <1>8, <1>9 DEF Books

LEMMA NoOne == /\ NoConn.st = "none" /\ NoConn.confs = <<>> /\ NoConn.via = 0 /\ NoConn.oper = "no"
               /\ NoConn.host = FALSE /\ NoConn.dns = FALSE
  BY DEF NoConn

\* exit_client(): everything that counts or finds the connection forgets it.
LEMMA Exits ==
    ASSUME NEW w, Sound(w), NEW c \in Slots, w.conn[c].st # "none", NEW v, v = exit_client(w, c)
    PROVE  Goes(w, v) /\ v.conn[c].st = "none"
<1> DEFINE i == w.conn[c].via
           none == [w.query EXCEPT ![c] = "no"]
           less == [w.line[i] EXCEPT !.clients = w.line[i].clients - 1]
           b == del_queries(w, c)
           x == IF i = 0 \/ w.line[i].clients <= 0 THEN b ELSE [b EXCEPT !.line[i].clients = @ - 1]
           u == det_confs_butmask(x, c, {})
           lines == IF i = 0 \/ w.line[i].clients <= 0 THEN w.line ELSE [w.line EXCEPT ![i] = less]
<1>1. w \in ConnWorlds /\ w.conn \in [Slots -> Client] /\ w.line \in [Lines -> Line]
      /\ w.query \in [Slots -> {"no", "ptr", "name"}] /\ NoConn \in Client
  BY Nothing DEF Sound, ConnWorlds
<1>2. i = 0 \/ i \in Lines
  <2>1. i \in 0 .. MaxLine
    BY <1>1 DEF Client
  <2>2. \A y \in 0 .. MaxLine : y # 0 => y \in Lines
    BY ConnAssumption DEF Lines
  <2> QED BY <2>1, <2>2
<1>3. v = IF i # 0 /\ ~w.line[i].legal THEN [Lost(w) EXCEPT !.conn[c] = NoConn] ELSE [u EXCEPT !.conn[c] = NoConn]
  BY DEF exit_client, close_connection
<1>4. CASE i # 0 /\ ~w.line[i].legal
  <2>1. v = [w EXCEPT !.lost = TRUE, !.conn = [w.conn EXCEPT ![c] = NoConn]]
    BY <1>1, <1>3, <1>4 DEF Lost, ConnWorlds
  <2>2. [w.conn EXCEPT ![c] = NoConn] \in [Slots -> Client]
    BY <1>1
  <2>3. v \in ConnWorlds /\ v.lost = TRUE /\ v.cache = w.cache /\ v.line = w.line /\ v.order = w.order /\ v.conn = [w.conn EXCEPT ![c] = NoConn]
    BY <1>1, <2>1, <2>2 DEF ConnWorlds
  <2>4. \A d \in Slots : v.conn[d].st = IF d = c THEN "none" ELSE w.conn[d].st
    BY <1>1, <2>3, NoOne
  <2> QED BY <2>3, <2>4, SameOrders DEF Goes, Sound
<1>5. CASE ~(i # 0 /\ ~w.line[i].legal)
  <2>1. /\ b \in ConnWorlds /\ b.conn = w.conn /\ b.query = none /\ b.line = w.line /\ b.cls = w.cls
        /\ b.cache = w.cache /\ b.order = w.order /\ b.lost = w.lost
    <3>1. b = [w EXCEPT !.query = none] /\ none \in [Slots -> {"no", "ptr", "name"}]
      BY <1>1 DEF del_queries, ConnWorlds
    <3> HIDE DEF b, none
    <3> QED BY <1>1, <3>1 DEF ConnWorlds
  <2> HIDE DEF b, none
  <2>2. /\ x \in ConnWorlds /\ x.conn = w.conn /\ x.query = none /\ x.line = lines /\ x.cls = w.cls
        /\ x.cache = w.cache /\ x.order = w.order /\ x.lost = w.lost
    <3>1. CASE i = 0 \/ w.line[i].clients <= 0
      <4>1. x = b /\ lines = w.line
        BY <3>1
      <4> QED BY <2>1, <4>1
    <3>2. CASE ~(i = 0 \/ w.line[i].clients <= 0)
      <4>1. i \in Lines /\ w.line[i] \in Line
        BY <1>1, <1>2, <3>2
      <4>2. less \in Line
        <5>1. w.line[i].clients - 1 \in Int
          BY <4>1 DEF Line
        <5> QED BY <4>1, <5>1 DEF Line
      <4>3. x = [b EXCEPT !.line = [w.line EXCEPT ![i] = less]]
        BY <2>1, <3>2 DEF ConnWorlds
      <4>4. lines = [w.line EXCEPT ![i] = less]
        BY <3>2
      <4> HIDE DEF less, x, lines, i
      <4>5. [w.line EXCEPT ![i] = less] \in [Lines -> Line]
        BY <1>1, <4>1, <4>2
      <4> QED BY <2>1, <4>3, <4>4, <4>5 DEF ConnWorlds
    <3> QED BY <3>1, <3>2
  <2>3. Fit(x, {c}, {c})
    <3>1. CASE w.lost
      BY <2>2, <3>1 DEF Fit
    <3>2. CASE ~w.lost
      <4>1. Books(w, {}, {}) /\ (i # 0 => w.line[i].legal)
        BY <1>5, <3>2 DEF Sound
      <4> HIDE DEF x
      <4>2. Books(x, {c}, {c})
        BY <1>1, <2>2, <4>1, Told
      <4> QED BY <2>2, <4>2 DEF Fit
    <3> QED BY <3>1, <3>2
  <2> HIDE DEF x
  <2>4. Fit(u, {c}, {c}) /\ Kin(x, u) /\ (u.lost \/ u.conn[c].confs = <<>>)
    <3>1. x.conn[c].st # "none" /\ c \in {c} /\ u = det_confs_butmask(x, c, {})
      BY <2>2
    <3> HIDE DEF u
    <3> QED BY <2>3, <3>1, Dets
  <2>5. v = [u EXCEPT !.conn = [u.conn EXCEPT ![c] = NoConn]]
    <3>1. v = [u EXCEPT !.conn[c] = NoConn]
      BY <1>3, <1>5
    <3> HIDE DEF u
    <3> QED BY <2>4, <3>1 DEF Fit, ConnWorlds
  <2> HIDE DEF u
  <2>6. /\ v \in ConnWorlds /\ v.conn = [u.conn EXCEPT ![c] = NoConn] /\ v.line = u.line /\ v.cls = u.cls
        /\ v.query = none /\ v.cache = w.cache /\ v.order = u.order /\ v.lost = u.lost /\ (w.lost => v.lost)
    <3>1. u \in ConnWorlds /\ u.query = none /\ u.cache = w.cache /\ (w.lost => u.lost)
      BY <2>2, <2>4 DEF Fit, Kin
    <3>2. [u.conn EXCEPT ![c] = NoConn] \in [Slots -> Client]
      BY <1>1, <3>1 DEF ConnWorlds
    <3> QED BY <2>5, <3>1, <3>2 DEF ConnWorlds
  <2>7. \A d \in Slots : /\ d = c => v.conn[d] = NoConn
                         /\ d # c => /\ v.conn[d] = u.conn[d] /\ Alike(w.conn[d], v.conn[d])
                                     /\ w.conn[d].st = "none" => v.conn[d] = w.conn[d]
    <3>1. \A d \in Slots : Alike(w.conn[d], u.conn[d]) /\ (w.conn[d].st = "none" => u.conn[d] = w.conn[d])
      BY <2>2, <2>4 DEF Kin
    <3> QED BY <2>4, <2>6, <3>1 DEF Fit, ConnWorlds
  <2>8. ASSUME ~v.lost PROVE Books(v, {}, {}) /\ Seated(v)
    <3>1. Books(w, {}, {}) /\ Seated(w) /\ Books(u, {c}, {c}) /\ u.conn[c].confs = <<>> /\ u \in ConnWorlds
      BY <2>4, <2>6, <2>8 DEF Sound, Fit
    <3>2. Books(v, {}, {})
      BY <2>6, <3>1, Departs
    <3>3. \A d \in Slots : none[d] = IF d = c THEN "no" ELSE w.query[d]
      BY <1>1 DEF none
    <3>4. Seated(v)
      <4> SUFFICES ASSUME NEW d \in Slots
                   PROVE  /\ v.conn[d].st = "none" => v.conn[d].confs = <<>> /\ v.conn[d].via = 0
                          /\ v.conn[d].oper # "no" => v.conn[d].st = "person"
                          /\ v.query[d] # "no" => v.conn[d].st # "none" /\ v.conn[d].dns
                          /\ v.conn[d].host => v.conn[d].st # "none" /\ Addr[d] \in v.cache
        BY DEF Seated
      <4>1. CASE d = c
        BY <2>6, <2>7, <3>3, <4>1, NoOne
      <4>2. CASE d # c
        BY <2>6, <2>7, <3>1, <3>3, <4>2 DEF Seated, Alike
      <4> QED BY <4>1, <4>2
    <3> QED BY <3>2, <3>4
  <2>9. v.conn[c].st = "none" /\ \A d \in Slots : v.conn[d].st \in {w.conn[d].st, "none"}
    BY <2>7, NoOne DEF Alike
  <2>10. ASSUME Ordered(w) PROVE Ordered(v)
    <3>1. \A j \in Lines : lines[j].kind = w.line[j].kind /\ lines[j].legal = w.line[j].legal
      <4>1. i \in Lines => less.kind = w.line[i].kind /\ less.legal = w.line[i].legal
        BY <1>1 DEF Line
      <4>2. \A j \in Lines : lines[j] = w.line[j] \/ (j = i /\ lines[j] = less)
        <5> HIDE DEF less
        <5> QED BY <1>1
      <4> HIDE DEF less, lines
      <4> QED BY <4>1, <4>2
    <3> HIDE DEF lines
    <3>2. Ordered(x)
      BY <2>2, <2>10, <3>1 DEF Ordered, Placed
    <3>3. Ordered(u)
      BY <2>4, <3>2, KinOrders
    <3> QED BY <2>6, <3>3, SameOrders
  <2> QED BY <2>6, <2>8, <2>9, <2>10 DEF Goes, Sound
<1> QED BY <1>4, <1>5

\* What attaching and detaching lines leaves as it was.
LEMMA KinSeats ==
    ASSUME NEW w, NEW v, Kin(w, v), Seated(w)
    PROVE  Seated(v)
  BY DEF Kin, Alike, Seated

\* A sound world but for the letters of one connection.
Nearly(w, c) == w \in ConnWorlds /\ (w.lost \/ (Books(w, {c}, {}) /\ Seated(w)))

LEMMA SoundNearly ==
    ASSUME NEW w, Sound(w), NEW c
    PROVE  Nearly(w, c)
  BY DEF Sound, Nearly, Books, Lettered

Put(w, c, me, q) == [w EXCEPT !.conn = [w.conn EXCEPT ![c] = me], !.query = q]

\* The state me of the connection c, and the questions q, suit the world.
Edits(w, c, me, q) ==
    /\ me \in Client /\ w.conn[c].st # "none" /\ me.st # "none"
    /\ me.confs = w.conn[c].confs /\ me.via = w.conn[c].via /\ (me.host => w.conn[c].host)
    /\ q = w.query \/ q = [w.query EXCEPT ![c] = "no"]
    /\ q[c] = "no" \/ me.dns = w.conn[c].dns
    /\ w.lost \/ me.oper # "glob" \/ \E i \in Range(w.conn[c].confs) : w.line[i].kind \in Operators
    /\ w.lost \/ me.oper = "no" \/ me.st = "person"

\* One connection changes, and keeps its lines and its listener.
LEMMA Tweaks ==
    ASSUME NEW c \in Slots, NEW w, Nearly(w, c), NEW me, NEW q, Edits(w, c, me, q),
           NEW v, v = Put(w, c, me, q)
    PROVE  /\ Sound(v) /\ v.lost = w.lost /\ v.cache = w.cache /\ v.line = w.line /\ v.order = w.order
           /\ v.conn[c] = me /\ \A d \in Slots : d # c => v.conn[d] = w.conn[d]
<1>1. w \in ConnWorlds /\ w.conn \in [Slots -> Client] /\ w.query \in [Slots -> {"no", "ptr", "name"}]
  BY DEF Nearly, ConnWorlds
<1>0. me \in Client
  BY DEF Edits
<1>2. q \in [Slots -> {"no", "ptr", "name"}] /\ (\A d \in Slots : d # c => q[d] = w.query[d])
      /\ (q[c] = "no" \/ q[c] = w.query[c])
  BY <1>1 DEF Edits
<1>3. [w.conn EXCEPT ![c] = me] \in [Slots -> Client]
  BY <1>0, <1>1
<1>4. /\ v \in ConnWorlds /\ v.conn = [w.conn EXCEPT ![c] = me] /\ v.query = q /\ v.line = w.line
      /\ v.cls = w.cls /\ v.cache = w.cache /\ v.order = w.order /\ v.lost = w.lost
  BY <1>1, <1>2, <1>3 DEF ConnWorlds, Put
<1>5. v.conn[c] = me /\ \A d \in Slots : d # c => v.conn[d] = w.conn[d]
  BY <1>1, <1>4
<1>6. ASSUME ~w.lost PROVE Books(v, {}, {}) /\ Seated(v)
  <2>1. Books(w, {c}, {}) /\ Seated(w)
    BY <1>6 DEF Nearly
  <2>2. Books(v, {c}, {})
    <3>1. /\ \A d \in Slots : v.conn[d].confs = w.conn[d].confs /\ v.conn[d].via = w.conn[d].via
          /\ \A d \in Slots \ {c} : v.conn[d].oper = w.conn[d].oper
      BY <1>5 DEF Edits
    <3>2. Worn(w, v, {c}) /\ Remains(w, v)
      BY <1>4, <3>1 DEF Worn, Remains
    <3> QED BY <1>1, <1>4, <2>1, <3>2, BooksStay
  <2>3. Lettered(v, {})
    <3> SUFFICES ASSUME NEW d \in Slots, v.conn[d].oper = "glob"
                 PROVE  \E i \in Range(v.conn[d].confs) : v.line[i].kind \in Operators
      BY DEF Lettered
    <3>1. CASE d = c
      BY <1>4, <1>5, <1>6, <3>1 DEF Edits
    <3>2. CASE d # c
      BY <2>2, <3>2 DEF Books, Lettered
    <3> QED BY <3>1, <3>2
  <2>4. Books(v, {}, {})
    BY <2>2, <2>3 DEF Books
  <2>5. Seated(v)
    <3> SUFFICES ASSUME NEW d \in Slots
                 PROVE  /\ v.conn[d].st = "none" => v.conn[d].confs = <<>> /\ v.conn[d].via = 0
                        /\ v.conn[d].oper # "no" => v.conn[d].st = "person"
                        /\ v.query[d] # "no" => v.conn[d].st # "none" /\ v.conn[d].dns
                        /\ v.conn[d].host => v.conn[d].st # "none" /\ Addr[d] \in v.cache
      BY DEF Seated
    <3>1. CASE d = c
      BY <1>2, <1>4, <1>5, <1>6, <2>1, <3>1 DEF Seated, Edits
    <3>2. CASE d # c
      BY <1>2, <1>4, <1>5, <2>1, <3>2 DEF Seated
    <3> QED BY <3>1, <3>2
  <2> QED BY <2>4, <2>5
<1> QED BY <1>4, <1>5, <1>6 DEF Sound

\* Nothing of the connection c that something else depends on is changed.
Plain(w, c, me, q) ==
    /\ me \in Client /\ w.conn[c].st # "none" /\ me.st = w.conn[c].st /\ me.oper = w.conn[c].oper
    /\ me.confs = w.conn[c].confs /\ me.via = w.conn[c].via /\ me.host = w.conn[c].host
    /\ q = w.query \/ q = [w.query EXCEPT ![c] = "no"]
    /\ q[c] = "no" \/ me.dns = w.conn[c].dns

\* One connection changes by what nothing else depends on.
LEMMA Nudges ==
    ASSUME NEW c \in Slots, NEW w, Sound(w), NEW me, NEW q, Plain(w, c, me, q),
           NEW v, v = Put(w, c, me, q)
    PROVE  Goes(w, v)
<1>1. Nearly(w, c)
  BY SoundNearly
<1>2. w.lost \/ me.oper # "glob" \/ \E i \in Range(w.conn[c].confs) : w.line[i].kind \in Operators
  BY DEF Sound, Books, Lettered, Plain
<1>3. w.lost \/ me.oper = "no" \/ me.st = "person"
  BY DEF Sound, Seated, Plain
<1>4. /\ Sound(v) /\ v.lost = w.lost /\ v.cache = w.cache /\ v.line = w.line /\ v.order = w.order
      /\ v.conn[c] = me /\ \A d \in Slots : d # c => v.conn[d] = w.conn[d]
  <2>1. Edits(w, c, me, q)
    BY <1>2, <1>3 DEF Edits, Plain
  <2> QED BY <1>1, <2>1, Tweaks
<1> QED BY <1>4, SameOrders DEF Goes, Plain

LEMMA GoesSelf ==
    ASSUME NEW w, Sound(w)
    PROVE  Goes(w, w)
  BY DEF Goes

LEMMA LostGoes ==
    ASSUME NEW w, Sound(w)
    PROVE  Goes(w, Lost(w)) /\ Lost(w).lost = TRUE /\ Lost(w).conn = w.conn
<1>1. Lost(w).line = w.line /\ Lost(w).order = w.order
  BY DEF Sound, Lost, ConnWorlds
<1>2. Ordered(w) => Ordered(Lost(w))
  BY <1>1, SameOrders
<1> QED BY <1>2 DEF Goes, Sound, Lost, ConnWorlds

\* What check_pings() does about one connection that is not thrown out.
LEMMA PingGoes ==
    ASSUME NEW w, Sound(w), NEW c \in Slots, w.conn[c].st # "none", NEW v, v = ping(w, c)
    PROVE  Goes(w, v)
<1> DEFINE old == w.conn[c]
           known == IsRegistered(w, c)
           me1 == [old EXCEPT !.pung = TRUE, !.idle = 1]
           me2 == [old EXCEPT !.dns = FALSE, !.idle = 0]
           none == [w.query EXCEPT ![c] = "no"]
           x1 == [w EXCEPT !.conn[c].pung = TRUE, !.conn[c].idle = 1]
           x2 == [del_queries(w, c) EXCEPT !.conn[c].dns = FALSE, !.conn[c].idle = 0]
<1>1. w \in ConnWorlds /\ w.conn \in [Slots -> Client] /\ old \in Client
  BY DEF Sound, ConnWorlds
<1>2. CASE v = exit_client(w, c)
  BY <1>2, Exits
<1>3. CASE v = x1
  <2>1. x1 = Put(w, c, me1, w.query)
    BY <1>1 DEF ConnWorlds, Put
  <2>2. Plain(w, c, me1, w.query)
    <3>1. 0 \in 0 .. 2 /\ 1 \in 0 .. 2 /\ TRUE \in BOOLEAN /\ FALSE \in BOOLEAN
      OBVIOUS
    <3>2. /\ me1 \in Client /\ me1.st = old.st /\ me1.oper = old.oper /\ me1.confs = old.confs
          /\ me1.via = old.via /\ me1.host = old.host /\ me1.dns = old.dns
      BY <1>1, <3>1 DEF Client
    <3> HIDE DEF me1
    <3> QED BY <1>1, <3>2 DEF Plain
  <2> HIDE DEF x1, me1
  <2> QED BY <1>3, <2>1, <2>2, Nudges
<1>4. CASE v = x2
  <2>1. x2 = Put(w, c, me2, none)
    BY <1>1 DEF ConnWorlds, Put, del_queries
  <2>2. Plain(w, c, me2, none)
    <3>1. 0 \in 0 .. 2 /\ 1 \in 0 .. 2 /\ TRUE \in BOOLEAN /\ FALSE \in BOOLEAN
      OBVIOUS
    <3>2. /\ me2 \in Client /\ me2.st = old.st /\ me2.oper = old.oper /\ me2.confs = old.confs
          /\ me2.via = old.via /\ me2.host = old.host
      BY <1>1, <3>1 DEF Client
    <3> HIDE DEF me2
    <3> QED BY <1>1, <3>2 DEF Plain, ConnWorlds
  <2> HIDE DEF x2, me2, none
  <2> QED BY <1>4, <2>1, <2>2, Nudges
<1>5. CASE v = w
  BY <1>5, GoesSelf
<1>6. v = exit_client(w, c) \/ v = x1 \/ v = x2 \/ v = w
  <2> DEFINE e == exit_client(w, c)
  <2>1. v = CASE known /\ old.idle = 2 /\ old.pung -> e
              [] known /\ old.idle > 0 /\ ~old.pung -> x1
              [] ~known /\ old.idle > 0 /\ old.dns -> x2
              [] ~known /\ old.idle > 0 /\ ~old.dns -> e
              [] OTHER -> w
    BY DEF ping
  <2> HIDE DEF x1, x2, known, old, e
  <2> QED BY <2>1 DEF e
<1> QED BY <1>2, <1>3, <1>4, <1>5, <1>6

\* One connection in check_pings().
LEMMA CheckGoes ==
    ASSUME NEW w, Sound(w), NEW c \in Slots, NEW banned \in BOOLEAN, NEW v, v = check_ping(w, c, banned)
    PROVE  Goes(w, v) /\ (banned => v.lost \/ v.conn[c].st # "person")
<1> DEFINE me == w.conn[c]
           classless == IsRegistered(w, c) /\ (me.class = 0 \/ w.cls[me.class] = NoClass)
<1>1. v = CASE me.st = "none" -> w
            [] me.st # "none" /\ me.dead -> exit_client(w, c)
            [] me.st # "none" /\ ~me.dead /\ classless -> Lost(w)
            [] me.st = "person" /\ ~me.dead /\ ~classless /\ banned -> exit_client(w, c)
            [] OTHER -> ping(w, c)
  BY DEF check_ping
<1> HIDE DEF classless
<1>2. me.dead \in BOOLEAN /\ classless \in BOOLEAN
  BY DEF Sound, ConnWorlds, Client, classless
<1>3. CASE me.st = "none"
  <2>1. v = w
    BY <1>1, <1>3
  <2> QED BY <1>3, <2>1, GoesSelf
<1>4. CASE me.st # "none" /\ (me.dead \/ (~classless /\ me.st = "person" /\ banned))
  <2>1. v = exit_client(w, c)
    BY <1>1, <1>2, <1>4
  <2>2. Goes(w, v) /\ v.conn[c].st = "none"
    BY <1>4, <2>1, Exits
  <2> QED BY <2>2
<1>5. CASE me.st # "none" /\ ~me.dead /\ classless
  <2>1. v = Lost(w)
    BY <1>1, <1>2, <1>5
  <2> QED BY <2>1, LostGoes
<1>6. CASE me.st # "none" /\ ~me.dead /\ ~classless /\ ~(me.st = "person" /\ banned)
  <2>1. v = ping(w, c)
    BY <1>1, <1>2, <1>6
  <2>2. Goes(w, v)
    BY <1>6, <2>1, PingGoes
  <2>3. v.conn[c].st \in {me.st, "none"}
    BY <2>2 DEF Goes
  <2> QED BY <1>6, <2>2, <2>3
<1> QED BY <1>2, <1>3, <1>4, <1>5, <1>6

\* check_pings(): it leaves no user that is banned.
LEMMA Pinged ==
    ASSUME NEW w, Sound(w), NEW banned, NEW v, v = check_pings(w, banned)
    PROVE  Goes(w, v) /\ \A d \in Slots \cap banned : v.lost \/ v.conn[d].st # "person"
<1> DEFINE S == Slots
           pick == [T \in SUBSET S |-> CHOOSE x \in T : TRUE]
           step(c, u) == check_ping(u, c, c \in banned)
           W == [T \in SUBSET S |-> {u \in ConnWorlds : /\ Goes(w, u)
                                      /\ \A d \in T \cap banned : u.lost \/ u.conn[d].st # "person"}]
           G == [x \in S \X ConnWorlds |-> step(x[1], x[2])]
<1>1. IsFiniteSet(S) /\ Picks(pick, S)
  BY ConnAssumption DEF Picks
<1>2. w \in W[{}]
  BY GoesSelf DEF Sound
<1>3. ASSUME NEW T \in SUBSET S, NEW c \in T, NEW u, u \in W[T \ {c}]
      PROVE  step(c, u) \in W[T]
  <2> DEFINE x == step(c, u)
  <2>1. Goes(w, u) /\ Sound(u) /\ \A d \in (T \ {c}) \cap banned : u.lost \/ u.conn[d].st # "person"
    BY <1>3 DEF Goes
  <2>2. c \in Slots /\ (c \in banned) \in BOOLEAN /\ x = check_ping(u, c, c \in banned)
    OBVIOUS
  <2> HIDE DEF x
  <2>3. Goes(u, x) /\ (c \in banned => x.lost \/ x.conn[c].st # "person")
    BY <2>1, <2>2, CheckGoes
  <2>4. Goes(w, x) /\ (u.lost => x.lost) /\ x \in ConnWorlds
    BY <2>1, <2>3, GoesOn DEF Goes, Sound
  <2>5. \A d \in T \cap banned : x.lost \/ x.conn[d].st # "person"
    BY <2>1, <2>3, <2>4 DEF Goes
  <2> QED BY <2>4, <2>5 DEF x
<1>4. \A T \in SUBSET S : T # {} => pick[T] \in T
  BY <1>1 DEF Picks
<1>5. StepsKeep(S, pick, ConnWorlds, W, G)
  <2>1. ASSUME NEW T \in SUBSET S, T # {}, NEW u \in W[T \ {pick[T]}]
        PROVE  G[<<pick[T], u>>] \in W[T]
    <3>1. pick[T] \in T /\ pick[T] \in S /\ T \ {pick[T]} \in SUBSET S
      BY <1>4, <2>1
    <3>2. u \in ConnWorlds
      BY <3>1
    <3> HIDE DEF step, pick, W
    <3>3. G[<<pick[T], u>>] = step(pick[T], u)
      BY <3>1, <3>2
    <3> HIDE DEF G
    <3> QED BY <1>3, <2>1, <3>1, <3>3
  <2> HIDE DEF G, pick
  <2> QED BY <2>1 DEF StepsKeep
<1> HIDE DEF G, step, pick
<1>6. PICK g \in [SUBSET S -> ConnWorlds] : Folds(g, S, pick, w, G) /\ \A T \in SUBSET S : g[T] \in W[T]
  <2> HIDE DEF W, S
  <2> QED BY <1>1, <1>2, <1>5, FoldStays
<1>7. ASSUME NEW T \in SUBSET S, T # {}
      PROVE  g[T] = step(pick[T], g[T \ {pick[T]}])
  <2>1. g[T \ {pick[T]}] \in ConnWorlds /\ pick[T] \in S
    BY <1>4, <1>7
  <2>2. g[T] = G[<<pick[T], g[T \ {pick[T]}]>>]
    BY <1>6, <1>7 DEF Folds
  <2> QED BY <2>1, <2>2 DEF G
<1>8. g[{}] = w
  BY <1>6 DEF Folds
<1>9. \A T \in SUBSET S : pick[T] = CHOOSE x \in T : TRUE
  BY DEF pick
<1>10. g = [T \in SUBSET S |-> IF T = {} THEN w
              ELSE step(CHOOSE x \in T : TRUE, g[T \ {CHOOSE x \in T : TRUE}])]
  <2>1. \A T \in SUBSET S : g[T] = IF T = {} THEN w ELSE step(pick[T], g[T \ {pick[T]}])
    BY <1>7, <1>8
  <2>2. ASSUME NEW T \in SUBSET S
        PROVE  g[T] = IF T = {} THEN w ELSE step(CHOOSE x \in T : TRUE, g[T \ {CHOOSE x \in T : TRUE}])
    BY <1>9, <2>1
  <2>3. DOMAIN g = SUBSET S /\ g = [T \in SUBSET S |-> g[T]]
    BY <1>6
  <2> QED BY <2>2, <2>3, Zenon
<1>11. PICK h : /\ h = [T \in SUBSET S |-> IF T = {} THEN w
                          ELSE step(CHOOSE x \in T : TRUE, h[T \ {CHOOSE x \in T : TRUE}])]
                /\ check_pings(w, banned) = h[S]
  BY <1>10 DEF check_pings, FoldSet, MapThenFoldSet, step
<1>12. g[S] = h[S]
  <2>1. g[{}] = h[{}]
    BY <1>8, <1>11
  <2>2. \A T \in SUBSET S : T # {} /\ g[T \ {pick[T]}] = h[T \ {pick[T]}] => g[T] = h[T]
    <3>1. \A T \in SUBSET S : h[T] = IF T = {} THEN w ELSE step(pick[T], h[T \ {pick[T]}])
      BY <1>9, <1>11
    <3> QED BY <1>7, <3>1
  <2> HIDE DEF S
  <2> QED BY <1>1, <2>1, <2>2, SameFold
<1>13. v \in W[S]
  <2>1. v = g[S] /\ S \in SUBSET S
    BY <1>11, <1>12
  <2> HIDE DEF W
  <2> QED BY <1>6, <2>1
<1> QED BY <1>13

\* A free line is taken for something new.
LEMMA LineMade ==
    ASSUME NEW w \in ConnWorlds, NEW v \in ConnWorlds, Books(w, {}, {}),
           NEW i \in FreeLines(w), NEW l \in Line, l.clients = 0, l.kind # "free",
           v.conn = w.conn, v.line = [w.line EXCEPT ![i] = l], v.cls = w.cls
    PROVE  Books(v, {}, {})
<1>0. /\ \A d \in Slots : w.conn[d] \in Client
      /\ \A j \in Lines : j # i => v.line[j] = w.line[j]
      /\ i \in Lines /\ v.line[i] = l /\ w.line[i] = NoLine
  BY DEF ConnWorlds, FreeLines, Lines
<1>1. \A d \in Slots : w.conn[d].confs \in Seq(1 .. MaxLine) /\ w.conn[d].via \in 0 .. MaxLine
  BY <1>0 DEF Client
<1>2. \A d \in Slots : Range(w.conn[d].confs) \subseteq Lines
  BY <1>1, RangeIn DEF Lines
<1>3. \A d \in Slots : i \notin Range(w.conn[d].confs) /\ w.conn[d].via # i
  BY DEF FreeLines, is_attached
<1>4. \A d \in Slots : \A j \in Range(v.conn[d].confs) : v.line[j] = w.line[j]
  BY <1>0, <1>2, <1>3
<1>5. Hung(v) /\ Lettered(v, {})
  <2>1. Hung(v)
    BY <1>4 DEF Books, Hung
  <2>2. Lettered(v, {})
    BY <1>4 DEF Books, Lettered
  <2> QED BY <2>1, <2>2
<1>6. \A j : Held(v, j) = Held(w, j) /\ Accepted(v, j) = Accepted(w, j)
  BY DEF Held, Accepted, is_attached
<1>7. Held(w, i) = {} /\ Accepted(w, i) = {} /\ Cardinality({}) = 0
  BY <1>3, FS_EmptySet DEF Held, Accepted, is_attached
<1>8. Tallied(v)
  <2> SUFFICES ASSUME NEW j \in Lines, v.line[j].kind \notin {"P", "free"}
               PROVE  v.line[j].clients = Cardinality(Held(w, j))
    BY <1>6 DEF Tallied
  <2>1. CASE j = i
    BY <1>0, <1>7, <2>1
  <2>2. CASE j # i
    BY <1>0, <2>2 DEF Books, Tallied
  <2> QED BY <2>1, <2>2
<1>9. Freed(v)
  BY <1>0 DEF Books, Freed
<1>10. Listened(v, {})
  <2>1. \A A : A \ {} = A
    OBVIOUS
  <2> SUFFICES ASSUME NEW j \in Lines, v.line[j].kind = "P", v.line[j].legal
               PROVE  v.line[j].clients = Cardinality(Accepted(v, j))
    BY <2>1 DEF Listened
  <2>2. CASE j = i
    BY <1>0, <1>6, <1>7, <2>2
  <2>3. CASE j # i
    BY <1>0, <1>6, <2>1, <2>3 DEF Books, Listened
  <2> QED BY <2>2, <2>3
<1>11. Heard(v)
  <2> SUFFICES ASSUME NEW d \in Slots, v.conn[d].via # 0, v.line[v.conn[d].via].legal
               PROVE  v.line[v.conn[d].via].kind = "P"
    BY DEF Heard
  <2>1. v.conn[d].via \in Lines /\ v.conn[d].via # i
    BY <1>1, <1>3, ConnAssumption DEF Lines
  <2> QED BY <1>0, <2>1 DEF Books, Heard
<1>12. Classed(v)
  <2>1. \A k \in 1 .. MaxClass : Attached(v, k) = Attached(w, k)
    <3> SUFFICES ASSUME NEW k \in 1 .. MaxClass, NEW x \in Slots \X (1 .. MaxLine)
                 PROVE  is_attached(v, x[1], x[2]) /\ v.line[x[2]].class = k
                          <=> is_attached(w, x[1], x[2]) /\ w.line[x[2]].class = k
      BY DEF Attached
    <3>1. x[1] \in Slots
      OBVIOUS
    <3> QED BY <1>4, <3>1 DEF is_attached
  <2> QED BY <2>1 DEF Books, Classed
<1> QED BY <1>5, <1>8, <1>9, <1>10, <1>11, <1>12 DEF Books

\* A free class is taken for something new.
LEMMA ClassMade ==
    ASSUME NEW w \in ConnWorlds, NEW v \in ConnWorlds, Books(w, {}, {}),
           NEW k \in FreeClasses(w), NEW new \in Class, new.conns = 0,
           v.conn = w.conn, v.line = w.line, v.cls = [w.cls EXCEPT ![k] = new]
    PROVE  Books(v, {}, {})
<1>0. /\ \A m \in 1 .. MaxClass : m # k => v.cls[m] = w.cls[m]
      /\ k \in 1 .. MaxClass /\ v.cls[k] = new
      /\ \A i \in 1 .. MaxLine : w.line[i].class # k
  BY DEF ConnWorlds, FreeClasses
<1>1. \A d \in Slots : \A j : is_attached(v, d, j) <=> is_attached(w, d, j)
  BY DEF is_attached
<1>2. /\ \A j : Held(v, j) = Held(w, j) /\ Accepted(v, j) = Accepted(w, j)
      /\ \A m : Attached(v, m) = Attached(w, m)
  BY <1>1 DEF Held, Accepted, Attached
<1>3. Hung(v) /\ Tallied(v) /\ Freed(v) /\ Heard(v) /\ Listened(v, {}) /\ Lettered(v, {})
  BY <1>2 DEF Books, Hung, Tallied, Freed, Heard, Listened, Lettered
<1>4. Classed(v)
  <2>1. Attached(v, k) = {} /\ Cardinality({}) = 0
    BY <1>0, FS_EmptySet DEF Attached
  <2> QED BY <1>0, <1>2, <2>1 DEF Books, Classed
<1> QED BY <1>3, <1>4 DEF Books

\* Lines that are removed from the configuration: no count of theirs matters but
\* that of the connections they are attached to.
LEMMA LinesFall ==
    ASSUME NEW w \in ConnWorlds, NEW v \in ConnWorlds, Books(w, {}, {}),
           v.conn = w.conn, v.cls = w.cls,
           \A j \in Lines : \/ v.line[j] = w.line[j]
                            \/ /\ v.line[j].kind = w.line[j].kind /\ v.line[j].legal = FALSE
                               /\ v.line[j].class = w.line[j].class
                               /\ w.line[j].kind # "P" => v.line[j].clients = w.line[j].clients
                               /\ w.line[j].kind # "free"
    PROVE  Books(v, {}, {})
<1>1. \A d \in Slots : w.conn[d].confs \in Seq(1 .. MaxLine) /\ w.conn[d].via \in 0 .. MaxLine
  BY DEF ConnWorlds, Client
<1>2. \A d \in Slots : Range(w.conn[d].confs) \subseteq Lines
  BY <1>1, RangeIn DEF Lines
<1>3. \A j \in Lines : /\ v.line[j].kind = w.line[j].kind /\ v.line[j].class = w.line[j].class
                       /\ w.line[j].kind # "P" => v.line[j].clients = w.line[j].clients
                       /\ v.line[j].legal => v.line[j] = w.line[j]
                       /\ w.line[j].kind = "free" => v.line[j] = w.line[j]
  OBVIOUS
<1>4. \A d \in Slots : \A j : is_attached(v, d, j) <=> is_attached(w, d, j)
  BY DEF is_attached
<1>5. \A j : Held(v, j) = Held(w, j) /\ Accepted(v, j) = Accepted(w, j)
  BY <1>4 DEF Held, Accepted
<1>6. Hung(v) /\ Lettered(v, {})
  BY <1>2, <1>3 DEF Books, Hung, Lettered
<1>7. Tallied(v)
  BY <1>3, <1>5 DEF Books, Tallied
<1>8. Freed(v) /\ Listened(v, {})
  BY <1>3, <1>5 DEF Books, Freed, Listened
<1>9. Heard(v)
  <2> SUFFICES ASSUME NEW d \in Slots, v.conn[d].via # 0, v.line[v.conn[d].via].legal
               PROVE  v.line[v.conn[d].via].kind = "P"
    BY DEF Heard
  <2>1. v.conn[d].via \in Lines
    BY <1>1, ConnAssumption DEF Lines
  <2> QED BY <1>3, <2>1 DEF Books, Heard
<1>10. Classed(v)
  <2>1. \A k \in 1 .. MaxClass : Attached(v, k) = Attached(w, k)
    BY <1>3, <1>4 DEF Attached, Lines
  <2> QED BY <2>1 DEF Books, Classed
<1> QED BY <1>6, <1>7, <1>8, <1>9, <1>10 DEF Books

\* What reading the configuration leaves alone.
Reads(w, v) == /\ Sound(v) /\ v.conn = w.conn /\ v.query = w.query /\ v.cache = w.cache
               /\ (w.lost => v.lost) /\ (Placed(w) => Placed(v))

LEMMA ReadsSelf ==
    ASSUME NEW w, Sound(w)
    PROVE  Reads(w, w)
  BY DEF Reads

LEMMA ReadsLost ==
    ASSUME NEW w, Sound(w)
    PROVE  Reads(w, Lost(w))
<1>1. Lost(w).line = w.line /\ Lost(w).order = w.order
  BY DEF Sound, Lost, ConnWorlds
<1>2. Placed(w) => Placed(Lost(w))
  BY <1>1, SameOrders
<1> QED BY <1>2 DEF Reads, Sound, Lost, ConnWorlds

LEMMA ReadsOn ==
    ASSUME NEW u, NEW v, NEW w, Reads(u, v), Reads(v, w)
    PROVE  Reads(u, w)
  BY DEF Reads

\* A world with the same connections, and its books in order.
LEMMA ReadsIs ==
    ASSUME NEW w, Sound(w), NEW v \in ConnWorlds, v.conn = w.conn, v.query = w.query, v.cache = w.cache,
           v.lost = w.lost, Books(w, {}, {}) => Books(v, {}, {}), Placed(w) => Placed(v)
    PROVE  Reads(w, v)
  BY DEF Reads, Sound, Seated

LEMMA FreeOnes ==
    ASSUME NEW w
    PROVE  /\ FreeLines(w) # {} => Min(FreeLines(w)) \in FreeLines(w)
           /\ FreeClasses(w) # {} => Min(FreeClasses(w)) \in FreeClasses(w)
<1>1. FreeLines(w) \in SUBSET (1 .. MaxLine) /\ FreeClasses(w) \in SUBSET (1 .. MaxClass)
  BY DEF FreeLines, FreeClasses
<1> QED BY <1>1, Bounds, FirstIs

\* What taking a node leaves alone: it removes nothing.
Takes(w, v) == Reads(w, v) /\ (Ordered(w) => Ordered(v))

LEMMA TakesSelf ==
    ASSUME NEW w, Sound(w)
    PROVE  Takes(w, w)
  BY ReadsSelf DEF Takes

LEMMA TakesLost ==
    ASSUME NEW w, Sound(w)
    PROVE  Takes(w, Lost(w))
<1>1. Lost(w).line = w.line /\ Lost(w).order = w.order
  BY DEF Sound, Lost, ConnWorlds
<1> QED BY <1>1, ReadsLost, SameOrders DEF Takes

LEMMA TakesOn ==
    ASSUME NEW u, NEW v, NEW w, Takes(u, v), Takes(v, w)
    PROVE  Takes(u, w)
  BY ReadsOn DEF Takes

LEMMA TakesIs ==
    ASSUME NEW w, Sound(w), NEW v \in ConnWorlds, v.conn = w.conn, v.query = w.query, v.cache = w.cache,
           v.lost = w.lost, Books(w, {}, {}) => Books(v, {}, {}),
           (Placed(w) => Placed(v)) /\ (Ordered(w) => Ordered(v))
    PROVE  Takes(w, v)
  BY ReadsIs DEF Takes

\* NewLine(): a free line, if there is one, becomes a line without clients.
LEMMA NewLineIs ==
    ASSUME NEW w, Sound(w), NEW kind \in {"I", "O", "o", "C", "N", "U", "P"}, NEW name \in Names,
           NEW for \in SUBSET Slots, NEW k \in 0 .. MaxClass, NEW v, v = NewLine(w, kind, name, for, k)
    PROVE  Takes(w, v) /\ v.config = w.config
<1> DEFINE i == Min(FreeLines(w))
           l == [kind |-> kind, name |-> name, for |-> for, legal |-> TRUE, clients |-> 0, class |-> k]
           x == [w EXCEPT !.order = <<i>> \o w.order, !.line = [w.line EXCEPT ![i] = l]]
<1>1. CASE FreeLines(w) = {}
  <2>1. v = w
    BY <1>1 DEF NewLine
  <2> QED BY <2>1, TakesSelf
<1>2. CASE FreeLines(w) # {}
  <2>1. w \in ConnWorlds /\ w.line \in [Lines -> Line] /\ w.order \in Seq(Lines)
    BY DEF Sound, ConnWorlds
  <2>2. v = x
    BY <1>2, <2>1 DEF NewLine, ConnWorlds
  <2>3. i \in FreeLines(w) /\ i \in Lines
    BY <1>2, FreeOnes DEF FreeLines, Lines
  <2>4. l \in Line /\ l.clients = 0 /\ l.kind # "free"
    BY DEF Line
  <2> HIDE DEF i, l
  <2>5. <<i>> \o w.order \in Seq(Lines) /\ [w.line EXCEPT ![i] = l] \in [Lines -> Line]
    BY <2>1, <2>3, <2>4
  <2>6. /\ v \in ConnWorlds /\ v.conn = w.conn /\ v.line = [w.line EXCEPT ![i] = l] /\ v.cls = w.cls
        /\ v.query = w.query /\ v.cache = w.cache /\ v.lost = w.lost /\ v.config = w.config
        /\ v.order = <<i>> \o w.order
    BY <2>1, <2>2, <2>5 DEF ConnWorlds
  <2>7. Books(w, {}, {}) => Books(v, {}, {})
    BY <2>1, <2>3, <2>4, <2>6, LineMade
  <2>8. ASSUME Placed(w) PROVE Placed(v)
    <3>1. w.line[i] = NoLine /\ NoLine.kind = "free"
      BY <2>3 DEF FreeLines, NoLine
    <3>2. i \notin Range(w.order) /\ IsInjective(w.order)
      BY <2>3, <2>8, <3>1 DEF Placed
    <3>3. Range(v.order) = Range(w.order) \cup {i} /\ IsInjective(v.order)
      BY <2>1, <2>3, <2>6, <3>2, OneMore DEF Lines
    <3>4. \A j \in Lines : v.line[j] = IF j = i THEN l ELSE w.line[j]
      BY <2>1, <2>6
    <3> QED BY <2>4, <2>8, <3>3, <3>4 DEF Placed
  <2>9. ASSUME Ordered(w) PROVE Ordered(v)
    <3>1. w.line[i] = NoLine /\ NoLine.kind = "free" /\ Placed(w)
      BY <2>3, <2>9 DEF FreeLines, NoLine, Ordered
    <3>2. i \notin Range(w.order) /\ IsInjective(w.order)
      BY <2>3, <3>1 DEF Placed
    <3>3. Range(v.order) = Range(w.order) \cup {i}
      BY <2>1, <2>3, <2>6, <3>2, OneMore DEF Lines
    <3>4. (\A j \in Lines : v.line[j] = IF j = i THEN l ELSE w.line[j]) /\ l.legal
      BY <2>1, <2>6 DEF l
    <3> QED BY <2>8, <2>9, <3>1, <3>3, <3>4 DEF Ordered
  <2> QED BY <2>6, <2>7, <2>8, <2>9, TakesIs
<1> QED BY <1>1, <1>2

\* An entry of the monitors.
LEMMA MadeIs ==
    ASSUME NEW w, Sound(w), NEW n \in Nodes, NEW ok \in BOOLEAN, NEW objs \in SUBSET Nat,
           ok /\ n.kind = "class" => \E k \in 1 .. MaxClass : objs = {k},
           NEW v, v = Made(w, n, ok, objs)
    PROVE  Takes(w, v)
<1> DEFINE e == [node |-> n, ok |-> ok, objs |-> objs]
<1>1. w \in ConnWorlds /\ w.config \in Seq(Entry)
  BY DEF Sound, ConnWorlds
<1>2. e \in Entry
  BY DEF Entry
<1>3. v = [w EXCEPT !.config = Append(w.config, e)]
  BY <1>1 DEF Made, ConnWorlds
<1> HIDE DEF e
<1>4. Append(w.config, e) \in Seq(Entry)
  BY <1>1, <1>2
<1>5. /\ v \in ConnWorlds /\ v.conn = w.conn /\ v.line = w.line /\ v.cls = w.cls
      /\ v.query = w.query /\ v.cache = w.cache /\ v.order = w.order /\ v.lost = w.lost
  BY <1>1, <1>3, <1>4 DEF ConnWorlds
<1>6. Books(w, {}, {}) => Books(v, {}, {})
  <2>1. Worn(w, v, {}) /\ Remains(w, v)
    BY <1>5 DEF Worn, Remains
  <2> QED BY <1>1, <1>5, <2>1, BooksStay
<1>7. (Placed(w) => Placed(v)) /\ (Ordered(w) => Ordered(v))
  BY <1>5, SameOrders
<1> QED BY <1>5, <1>6, <1>7, TakesIs

\* A node of a configuration.
LEMMA NodeIs ==
    ASSUME NEW n \in Nodes
    PROVE  /\ n.kind \in {"class", "operator", "client", "server", "listener"}
           /\ n.name \in Names /\ "*" \in Names /\ n.max \in Nat /\ n.for \in SUBSET Slots
<1>1. PICK f \in Configs : n \in Range(f)
  BY DEF Nodes
<1>2. f \in Seq(Node)
  BY <1>1, ConnAssumption
<1>3. n \in Node
  BY <1>1, <1>2, RangeIn
<1>4. Range(Kinds) = {"class", "operator", "client", "server", "listener"}
  <2>1. DOMAIN Kinds = {1, 2, 3, 4, 5}
    BY DEF Kinds
  <2> QED BY <2>1 DEF Range, Kinds
<1> QED BY <1>3, <1>4 DEF Node, Names

\* The lines made for a node.
LEMMA MadeLinesIs ==
    ASSUME NEW w, NEW u, Sound(w), Takes(w, u), NEW n \in Nodes, n.kind # "class",
           NEW v, v = MadeLines(w, u, n)
    PROVE  Takes(w, v)
<1> DEFINE objs == {i \in DOMAIN u.line : w.line[i] = NoLine /\ u.line[i] # NoLine}
<1>1. Sound(u) /\ DOMAIN u.line = Lines
  BY DEF Takes, Reads, Sound, ConnWorlds
<1>2. objs \in SUBSET Nat
  BY <1>1, Bounds DEF Lines
<1>3. v = Made(u, n, TRUE, objs)
  BY DEF MadeLines
<1> HIDE DEF objs
<1>4. Takes(u, v)
  BY <1>1, <1>2, <1>3, MadeIs
<1> QED BY <1>4, TakesOn

LEMMA BadIs ==
    ASSUME NEW w, Sound(w), NEW n \in Nodes, NEW v, v = Bad(w, n)
    PROVE  Takes(w, v)
<1>1. {} \in SUBSET Nat /\ FALSE \in BOOLEAN /\ v = Made(w, n, FALSE, {})
  BY DEF Bad
<1> QED BY <1>1, MadeIs

\* conf_class(): a class that is added.
LEMMA ConfClassIs ==
    ASSUME NEW w, Sound(w), NEW n \in Nodes, NEW v, v = conf_class(w, n)
    PROVE  Takes(w, v)
<1> DEFINE k == class_get(w, n.name)
           new == Min(FreeClasses(w))
           a == [name |-> n.name, max |-> n.max, conns |-> 0, refs |-> 1]
           x == [w EXCEPT !.classlist = <<new>> \o w.classlist, !.cls = [w.cls EXCEPT ![new] = a]]
<1>1. w \in ConnWorlds /\ w.cls \in [1 .. MaxClass -> Class] /\ w.classlist \in Seq(1 .. MaxClass)
  BY DEF Sound, ConnWorlds
<1>2. v = CASE k = 0 /\ FreeClasses(w) = {} -> Bad(w, n)
            [] k = 0 /\ FreeClasses(w) # {} -> Made(x, n, TRUE, {new})
            [] k # 0 /\ w.cls[k].max # -1 -> Bad(w, n)
            [] OTHER -> Lost(w)
  BY <1>1 DEF conf_class, ConnWorlds
<1> HIDE DEF k, x
<1>3. CASE v = Bad(w, n)
  BY <1>3, BadIs
<1>4. CASE v = Lost(w)
  BY <1>4, TakesLost
<1>5. CASE FreeClasses(w) # {} /\ v = Made(x, n, TRUE, {new})
  <2>1. new \in FreeClasses(w) /\ new \in 1 .. MaxClass
    BY <1>5, FreeOnes DEF FreeClasses
  <2>2. a \in Class /\ a.conns = 0
    BY NodeIs DEF Class
  <2> HIDE DEF new, a
  <2>3. <<new>> \o w.classlist \in Seq(1 .. MaxClass) /\ [w.cls EXCEPT ![new] = a] \in [1 .. MaxClass -> Class]
    BY <1>1, <2>1, <2>2
  <2>4. /\ x \in ConnWorlds /\ x.conn = w.conn /\ x.line = w.line /\ x.cls = [w.cls EXCEPT ![new] = a]
        /\ x.query = w.query /\ x.cache = w.cache /\ x.order = w.order /\ x.lost = w.lost
    BY <1>1, <2>3 DEF ConnWorlds, x
  <2>5. Books(w, {}, {}) => Books(x, {}, {})
    BY <1>1, <2>1, <2>2, <2>4, ClassMade
  <2>6. Takes(w, x) /\ Sound(x)
    BY <2>4, <2>5, SameOrders, TakesIs DEF Takes, Reads
  <2>7. {new} \in SUBSET Nat /\ TRUE \in BOOLEAN
    BY <2>1, Bounds
  <2>8. Takes(x, v)
    BY <1>5, <2>1, <2>6, <2>7, MadeIs
  <2> QED BY <2>6, <2>8, TakesOn
<1>6. v = Bad(w, n) \/ v = Lost(w) \/ (FreeClasses(w) # {} /\ v = Made(x, n, TRUE, {new}))
  <2> DEFINE bad == Bad(w, n)  some == Made(x, n, TRUE, {new})
  <2> HIDE DEF bad, some
  <2>1. v = CASE k = 0 /\ FreeClasses(w) = {} -> bad
              [] k = 0 /\ FreeClasses(w) # {} -> some
              [] k # 0 /\ w.cls[k].max # -1 -> bad
              [] OTHER -> Lost(w)
    BY <1>2 DEF bad, some
  <2> QED BY <2>1 DEF bad, some
<1> QED BY <1>3, <1>4, <1>5, <1>6

\* The lines of a server's node.
LEMMA ConfServerIs ==
    ASSUME NEW w, Sound(w), NEW n \in Nodes, NEW v, v = conf_server(w, n)
    PROVE  Takes(w, v)
<1> DEFINE k == class_get(w, n.class)
           link == NewLine(w, "N", n.name, {}, k)
           both == IF "connect" \in n.opts THEN NewLine(link, "C", n.name, {}, k) ELSE link
<1>1. k \in 0 .. MaxClass /\ n.name \in Names /\ "*" \in Names /\ {} \in SUBSET Slots /\ 0 \in 0 .. MaxClass
  BY ClassGetIs, NodeIs, Bounds DEF Sound, ConnWorlds
<1>2. v = IF "services" \in n.opts THEN NewLine(both, "U", "*", {}, 0) ELSE both
  BY DEF conf_server
<1>3. Takes(w, link) /\ Sound(link)
  <2> HIDE DEF k
  <2>1. "N" \in {"I", "O", "o", "C", "N", "U", "P"}
    OBVIOUS
  <2> QED BY <1>1, <2>1, NewLineIs DEF Takes, Reads
<1>4. Takes(w, both) /\ Sound(both)
  <2>1. "C" \in {"I", "O", "o", "C", "N", "U", "P"}
    OBVIOUS
  <2> DEFINE more == NewLine(link, "C", n.name, {}, k)
  <2>2. more = NewLine(link, "C", n.name, {}, k) /\ (both = more \/ both = link)
    OBVIOUS
  <2> HIDE DEF k, link, more, both
  <2>3. Takes(link, more)
    BY <1>1, <1>3, <2>1, <2>2, NewLineIs
  <2>4. Takes(w, more)
    BY <1>3, <2>3, TakesOn
  <2> QED BY <1>3, <2>2, <2>4 DEF Takes, Reads
<1> HIDE DEF both
<1>5. CASE v = both
  BY <1>4, <1>5
<1>6. CASE v = NewLine(both, "U", "*", {}, 0)
  <2>1. "U" \in {"I", "O", "o", "C", "N", "U", "P"}
    OBVIOUS
  <2>2. Takes(both, v)
    BY <1>1, <1>4, <1>6, <2>1, NewLineIs
  <2> QED BY <1>4, <2>2, TakesOn
<1> QED BY <1>2, <1>5, <1>6

\* A node is taken, or refused.
LEMMA AddIs ==
    ASSUME NEW w, Sound(w), NEW n \in Nodes, NEW v, v = Add(w, n)
    PROVE  Takes(w, v)
<1> DEFINE k == class_get(w, n.class)
           some == {"I", "O", "o", "C", "N", "U", "P"}
<1>1. /\ k \in 0 .. MaxClass /\ n.name \in Names /\ n.for \in SUBSET Slots /\ {} \in SUBSET Slots
      /\ 0 \in 0 .. MaxClass /\ n.kind \in {"class", "operator", "client", "server", "listener"}
  BY ClassGetIs, NodeIs, Bounds DEF Sound, ConnWorlds
<1>2. CASE v = Bad(w, n)
  BY <1>2, BadIs
<1>3. CASE v = conf_class(w, n)
  BY <1>3, ConfClassIs
<1>4. CASE n.kind = "listener" /\ v = MadeLines(w, conf_listener(w, n), n)
  <2> DEFINE u == conf_listener(w, n)
  <2>1. "P" \in some /\ u = NewLine(w, "P", n.name, {}, 0)
    BY DEF conf_listener
  <2> HIDE DEF u
  <2>2. Takes(w, u)
    BY <1>1, <2>1, NewLineIs
  <2> QED BY <1>4, <2>2, MadeLinesIs DEF u
<1>5. CASE n.kind = "client" /\ v = MadeLines(w, conf_client(w, n), n)
  <2> DEFINE u == conf_client(w, n)
  <2>1. "I" \in some /\ u = NewLine(w, "I", n.name, n.for, k)
    BY DEF conf_client
  <2> HIDE DEF u, k
  <2>2. Takes(w, u)
    BY <1>1, <2>1, NewLineIs
  <2> QED BY <1>5, <2>2, MadeLinesIs DEF u
<1>6. CASE n.kind = "operator" /\ v = MadeLines(w, conf_operator(w, n), n)
  <2> DEFINE u == conf_operator(w, n)
             t == IF "global" \in n.opts THEN "O" ELSE "o"
  <2>1. t \in some /\ u = NewLine(w, t, n.name, n.for, k)
    BY DEF conf_operator
  <2> HIDE DEF u, k, t
  <2>2. Takes(w, u)
    BY <1>1, <2>1, NewLineIs
  <2> QED BY <1>6, <2>2, MadeLinesIs DEF u
<1>7. CASE n.kind = "server" /\ v = MadeLines(w, conf_server(w, n), n)
  <2> DEFINE u == conf_server(w, n)
  <2>1. Takes(w, u)
    BY ConfServerIs
  <2> HIDE DEF u
  <2> QED BY <1>7, <2>1, MadeLinesIs DEF u
<1>8. \/ v = Bad(w, n) \/ v = conf_class(w, n)
      \/ n.kind = "listener" /\ v = MadeLines(w, conf_listener(w, n), n)
      \/ n.kind = "client" /\ v = MadeLines(w, conf_client(w, n), n)
      \/ n.kind = "operator" /\ v = MadeLines(w, conf_operator(w, n), n)
      \/ n.kind = "server" /\ v = MadeLines(w, conf_server(w, n), n)
  <2> DEFINE c1 == conf_class(w, n)  c2 == MadeLines(w, conf_listener(w, n), n)
             c3 == MadeLines(w, conf_client(w, n), n)  c4 == MadeLines(w, conf_operator(w, n), n)
             c5 == MadeLines(w, conf_server(w, n), n)  bad == Bad(w, n)
  <2> HIDE DEF c1, c2, c3, c4, c5, bad
  <2>1. v = IF n.kind \notin {"class", "listener"} /\ k = 0 THEN bad
            ELSE CASE n.kind = "class" -> c1
                   [] n.kind = "listener" -> c2
                   [] n.kind = "client" -> c3
                   [] n.kind = "operator" -> c4
                   [] n.kind = "server" -> c5
    BY DEF Add, c1, c2, c3, c4, c5, bad
  <2> HIDE DEF k
  <2>2. v = bad \/ v = c1 \/ (n.kind = "listener" /\ v = c2) \/ (n.kind = "client" /\ v = c3)
        \/ (n.kind = "operator" /\ v = c4) \/ (n.kind = "server" /\ v = c5)
    BY <1>1, <2>1
  <2> QED BY <2>2 DEF c1, c2, c3, c4, c5, bad
<1> QED BY <1>2, <1>3, <1>4, <1>5, <1>6, <1>7, <1>8

\* A node is given up.
LEMMA DiscardIs ==
    ASSUME NEW w, Sound(w), NEW e \in Entry, e.ok, NEW v, v = Discard(w, e)
    PROVE  Reads(w, v)
<1> DEFINE cut(i) == [w.line[i] EXCEPT !.legal = FALSE,
                                       !.clients = IF w.line[i].kind = "P" THEN w.line[i].clients - 1
                                                   ELSE w.line[i].clients]
           gone == [i \in Lines |-> IF i \notin e.objs THEN w.line[i] ELSE cut(i)]
           k == Min(e.objs)
           max == [w.cls[k] EXCEPT !.max = -1]
           x == [w EXCEPT !.cls[k].max = -1]
<1>1. w \in ConnWorlds /\ w.line \in [Lines -> Line] /\ w.cls \in [1 .. MaxClass -> Class]
  BY DEF Sound, ConnWorlds
<1>2. v = IF e.node.kind # "class" THEN [w EXCEPT !.line = gone]
          ELSE IF w.cls[k] = NoClass THEN Lost(w) ELSE class_free(x, k)
  <2>1. ASSUME NEW i \in Lines
        PROVE  cut(i) = [w.line[i] EXCEPT !.legal = FALSE, !.clients = IF w.line[i].kind = "P" THEN @ - 1 ELSE @]
    BY <1>1 DEF Line
  <2>2. gone = [i \in DOMAIN w.line |-> IF i \notin e.objs THEN w.line[i]
                  ELSE [w.line[i] EXCEPT !.legal = FALSE, !.clients = IF w.line[i].kind = "P" THEN @ - 1 ELSE @]]
    <3>1. DOMAIN w.line = Lines
      BY <1>1
    <3> HIDE DEF cut
    <3> QED BY <2>1, <3>1
  <2> HIDE DEF gone
  <2> QED BY <2>2 DEF Discard
<1>3. CASE e.node.kind # "class"
  <2>1. ASSUME NEW i \in Lines
        PROVE  /\ cut(i) \in Line /\ cut(i).kind = w.line[i].kind /\ cut(i).legal = FALSE
               /\ cut(i).class = w.line[i].class
               /\ w.line[i].kind # "P" => cut(i).clients = w.line[i].clients
    <3> DEFINE n == IF w.line[i].kind = "P" THEN w.line[i].clients - 1 ELSE w.line[i].clients
    <3>1. n \in Int /\ (w.line[i].kind # "P" => n = w.line[i].clients) /\ w.line[i] \in Line
      BY <1>1 DEF Line
    <3>2. cut(i) = [w.line[i] EXCEPT !.legal = FALSE, !.clients = n]
      OBVIOUS
    <3> HIDE DEF n, cut
    <3> QED BY <3>1, <3>2 DEF Line
  <2>2. v = [w EXCEPT !.line = gone]
    BY <1>2, <1>3
  <2>3. gone \in [Lines -> Line]
    <3> HIDE DEF cut
    <3> QED BY <1>1, <2>1
  <2>4. \A i \in Lines : gone[i] = w.line[i] \/ gone[i] = cut(i)
    <3> HIDE DEF cut
    <3> QED OBVIOUS
  <2> HIDE DEF gone, cut
  <2>5. /\ v \in ConnWorlds /\ v.conn = w.conn /\ v.line = gone /\ v.cls = w.cls
        /\ v.query = w.query /\ v.cache = w.cache /\ v.order = w.order /\ v.lost = w.lost
    BY <1>1, <2>2, <2>3 DEF ConnWorlds
  <2>6. ASSUME Books(w, {}, {}) PROVE Books(v, {}, {})
    <3>1. ASSUME NEW j \in Lines, w.line[j].kind = "free" PROVE gone[j] = w.line[j]
      <4>1. w.line[j] = NoLine
        BY <2>6, <3>1 DEF Books, Freed
      <4>2. cut(j) = NoLine
        <5>1. cut(j) = [NoLine EXCEPT !.legal = FALSE, !.clients = NoLine.clients]
          BY <3>1, <4>1 DEF cut
        <5>2. \A l \in Line : [l EXCEPT !.legal = l.legal, !.clients = l.clients] = l
          BY DEF Line
        <5>3. NoLine.legal = FALSE
          BY DEF NoLine
        <5> QED BY <5>1, <5>2, <5>3, Nothing
      <4> QED BY <2>4, <4>1, <4>2
    <3>2. \A j \in Lines : \/ v.line[j] = w.line[j]
                           \/ /\ v.line[j].kind = w.line[j].kind /\ v.line[j].legal = FALSE
                              /\ v.line[j].class = w.line[j].class
                              /\ w.line[j].kind # "P" => v.line[j].clients = w.line[j].clients
                              /\ w.line[j].kind # "free"
      BY <2>1, <2>4, <2>5, <3>1
    <3> QED BY <1>1, <2>5, <2>6, <3>2, LinesFall
  <2>7. Placed(w) => Placed(v)
    <3>1. \A j \in Lines : v.line[j].kind = w.line[j].kind /\ (v.line[j].legal => w.line[j].legal)
      BY <2>1, <2>4, <2>5
    <3> QED BY <2>5, <3>1 DEF Placed
  <2> QED BY <2>5, <2>6, <2>7, ReadsIs
<1>4. CASE e.node.kind = "class" /\ w.cls[k] = NoClass
  BY <1>2, <1>4, ReadsLost
<1>5. CASE e.node.kind = "class" /\ w.cls[k] # NoClass
  <2>1. k \in 1 .. MaxClass
    <3>1. PICK m \in 1 .. MaxClass : e.objs = {m}
      BY <1>5 DEF Entry
    <3>2. m \in Nat /\ Min({m}) = m
      BY <3>1, Bounds, FirstIs
    <3> QED BY <3>1, <3>2
  <2>2. v = class_free(x, k)
    BY <1>2, <1>5
  <2> HIDE DEF k
  <2>3. x = [w EXCEPT !.cls = [w.cls EXCEPT ![k] = max]]
    BY <1>1, <2>1 DEF ConnWorlds
  <2>4. max \in Class /\ max.conns = w.cls[k].conns
    <3>1. w.cls[k] \in Class
      BY <1>1, <2>1
    <3> QED BY <3>1 DEF Class
  <2> HIDE DEF x, max
  <2>5. [w.cls EXCEPT ![k] = max] \in [1 .. MaxClass -> Class]
    BY <1>1, <2>1, <2>4
  <2>6. /\ x \in ConnWorlds /\ x.conn = w.conn /\ x.line = w.line /\ x.cls = [w.cls EXCEPT ![k] = max]
        /\ x.query = w.query /\ x.cache = w.cache /\ x.order = w.order /\ x.lost = w.lost
    BY <1>1, <2>3, <2>5 DEF ConnWorlds
  <2>7. Remains(w, x) /\ Worn(w, x, {})
    BY <1>1, <1>5, <2>1, <2>4, <2>6 DEF Remains, Worn
  <2>8. Books(w, {}, {}) => Books(x, {}, {})
    BY <1>1, <2>6, <2>7, BooksStay
  <2>9. Reads(w, x)
    BY <2>6, <2>8, SameOrders, ReadsIs
  <2>10. /\ v \in ConnWorlds /\ v.conn = x.conn /\ v.line = x.line /\ v.query = x.query /\ v.cache = x.cache
         /\ v.order = x.order /\ (x.lost => v.lost) /\ Remains(x, v)
    <3>1. k \in 0 .. MaxClass
      BY <2>1, Bounds
    <3> QED BY <2>2, <2>6, <3>1, ClassFreed
  <2>11. ASSUME Books(x, {}, {}) PROVE Books(v, {}, {})
    <3>1. Worn(x, v, {})
      BY <2>10 DEF Worn
    <3> QED BY <2>6, <2>10, <2>11, <3>1, BooksStay
  <2>12. Reads(x, v)
    BY <2>9, <2>10, <2>11, SameOrders DEF Reads, Sound, Seated
  <2> QED BY <2>9, <2>12, ReadsOn
<1> QED BY <1>3, <1>4, <1>5

\* Only() gives the elements of the list that are in the set.
LEMMA OnlyIs ==
    ASSUME NEW X, NEW list \in Seq(X), NEW S
    PROVE  Only(list, S) \in Seq(X \cap S)
<1> DEFINE q == list
           b == <<>>
           A == Seq(X \cap S)
           B == X
           step(some, a) == IF a \in S THEN Append(some, a) ELSE some
           W == [T \in SUBSET DOMAIN q |-> A]
           G == [x \in A \X B |-> step(x[1], x[2])]
<1>1. q \in Seq(B) /\ b \in A
  OBVIOUS
<1>2. ASSUME NEW u \in A, NEW a \in B PROVE step(u, a) \in A
  <2>1. CASE a \in S
    <3>1. a \in X \cap S
      BY <2>1
    <3>2. Append(u, a) \in Seq(X \cap S)
      BY <3>1
    <3> QED BY <2>1, <3>2
  <2>2. CASE a \notin S
    BY <2>2
  <2> QED BY <2>1, <2>2
<1>3. StepsGo(q, A, W, G)
  <2>1. ASSUME NEW T \in SUBSET DOMAIN q, T # {}, NEW u \in W[T \ {Max(T)}]
        PROVE  G[<<u, q[Max(T)]>>] \in W[T]
    <3>1. T \ {Max(T)} \in SUBSET DOMAIN q /\ q[Max(T)] \in B
      BY <1>1, <2>1, LastPlace, PlaceOf
    <3>2. u \in A /\ W[T] = A
      BY <2>1, <3>1
    <3> HIDE DEF step, q, A, B
    <3>3. G[<<u, q[Max(T)]>>] = step(u, q[Max(T)])
      BY <3>1, <3>2
    <3> HIDE DEF G
    <3> QED BY <1>2, <3>1, <3>2, <3>3
  <2> HIDE DEF G, q, A
  <2> QED BY <2>1 DEF StepsGo
<1>4. b \in W[{}]
  BY <1>1
<1> HIDE DEF G, step, A, B
<1>5. PICK g \in [SUBSET DOMAIN q -> A] :
        FoldsList(g, q, b, G) /\ \A T \in SUBSET DOMAIN q : g[T] \in W[T]
  <2> HIDE DEF W, q, b
  <2> QED BY <1>1, <1>3, <1>4, ListStays
<1>6. ASSUME NEW T \in SUBSET DOMAIN q, T # {}
      PROVE  g[T] = step(g[T \ {Max(T)}], q[Max(T)])
  <2> HIDE DEF b
  <2>1. g[T \ {Max(T)}] \in A /\ q[Max(T)] \in B
    BY <1>1, <1>6, LastPlace, PlaceOf
  <2>2. g[T] = G[<<g[T \ {Max(T)}], q[Max(T)]>>]
    BY <1>5, <1>6 DEF FoldsList
  <2> QED BY <2>1, <2>2 DEF G
<1>7. g[{}] = b
  BY <1>5 DEF FoldsList
<1>8. g = [T \in SUBSET DOMAIN q |-> IF T = {} THEN b ELSE step(g[T \ {Max(T)}], q[Max(T)])]
  BY <1>5, <1>6, <1>7
<1>9. PICK h : /\ h = [T \in SUBSET DOMAIN q |-> IF T = {} THEN b ELSE step(h[T \ {Max(T)}], q[Max(T)])]
               /\ Only(list, S) = h[DOMAIN q]
  BY <1>8 DEF Only, FoldLeft, MapThenFoldSet, step
<1>10. h[DOMAIN q] = g[DOMAIN q]
  <2>1. g[{}] = h[{}]
    BY <1>7, <1>9
  <2>2. \A T \in SUBSET DOMAIN q : T # {} /\ g[T \ {Max(T)}] = h[T \ {Max(T)}] => g[T] = h[T]
    BY <1>6, <1>9
  <2> HIDE DEF q
  <2> QED BY <1>1, <2>1, <2>2, SameList
<1>11. Only(list, S) \in A
  <2>1. DOMAIN q \in SUBSET DOMAIN q
    OBVIOUS
  <2> HIDE DEF q
  <2> QED BY <1>5, <1>9, <1>10, <2>1
<1> QED BY <1>11 DEF A

LEMMA OfKindIs ==
    ASSUME NEW X, NEW s \in Seq(X), NEW k
    PROVE  OfKind(s, k) \in Seq(X)
<1> DEFINE S == {x \in Range(s) : k = IF "node" \in DOMAIN x THEN x.node.kind ELSE x.kind}
<1>1. OfKind(s, k) = Only(s, S)
  BY DEF OfKind
<1> HIDE DEF S
<1>2. Only(s, S) \in Seq(X \cap S)
  BY OnlyIs
<1>3. X \cap S \subseteq X
  OBVIOUS
<1> QED BY <1>1, <1>2, <1>3

\* ByKind() only changes the order of a list.
LEMMA ByKindIs ==
    ASSUME NEW X, NEW s \in Seq(X)
    PROVE  ByKind(s) \in Seq(X)
<1> DEFINE q == Kinds
           b == <<>>
           A == Seq(X)
           B == Range(Kinds)
           step(acc, k) == acc \o OfKind(s, k)
           W == [T \in SUBSET DOMAIN q |-> A]
           G == [x \in A \X B |-> step(x[1], x[2])]
<1>1. q \in Seq(B) /\ b \in A
  <2>1. Kinds \in Seq({"class", "operator", "client", "server", "listener"})
    BY DEF Kinds
  <2>2. \A i \in DOMAIN Kinds : Kinds[i] \in Range(Kinds)
    BY DEF Range
  <2>3. Len(Kinds) \in Nat /\ DOMAIN Kinds = 1 .. Len(Kinds) /\ Kinds = [i \in 1 .. Len(Kinds) |-> Kinds[i]]
    BY <2>1
  <2> QED BY <2>2, <2>3
<1>2. ASSUME NEW u \in A, NEW a \in B PROVE step(u, a) \in A
  BY OfKindIs
<1>3. StepsGo(q, A, W, G)
  <2>1. ASSUME NEW T \in SUBSET DOMAIN q, T # {}, NEW u \in W[T \ {Max(T)}]
        PROVE  G[<<u, q[Max(T)]>>] \in W[T]
    <3>1. T \ {Max(T)} \in SUBSET DOMAIN q /\ q[Max(T)] \in B
      BY <1>1, <2>1, LastPlace, PlaceOf
    <3>2. u \in A /\ W[T] = A
      BY <2>1, <3>1
    <3> HIDE DEF step, q, A, B
    <3>3. G[<<u, q[Max(T)]>>] = step(u, q[Max(T)])
      BY <3>1, <3>2
    <3> HIDE DEF G
    <3> QED BY <1>2, <3>1, <3>2, <3>3
  <2> HIDE DEF G, q, A
  <2> QED BY <2>1 DEF StepsGo
<1>4. b \in W[{}]
  BY <1>1
<1> HIDE DEF G, step, A, B
<1>5. PICK g \in [SUBSET DOMAIN q -> A] :
        FoldsList(g, q, b, G) /\ \A T \in SUBSET DOMAIN q : g[T] \in W[T]
  <2> HIDE DEF W, q, b
  <2> QED BY <1>1, <1>3, <1>4, ListStays
<1>6. ASSUME NEW T \in SUBSET DOMAIN q, T # {}
      PROVE  g[T] = step(g[T \ {Max(T)}], q[Max(T)])
  <2> HIDE DEF b
  <2>1. g[T \ {Max(T)}] \in A /\ q[Max(T)] \in B
    BY <1>1, <1>6, LastPlace, PlaceOf
  <2>2. g[T] = G[<<g[T \ {Max(T)}], q[Max(T)]>>]
    BY <1>5, <1>6 DEF FoldsList
  <2> QED BY <2>1, <2>2 DEF G
<1>7. g[{}] = b
  BY <1>5 DEF FoldsList
<1>8. g = [T \in SUBSET DOMAIN q |-> IF T = {} THEN b ELSE step(g[T \ {Max(T)}], q[Max(T)])]
  BY <1>5, <1>6, <1>7
<1>9. PICK h : /\ h = [T \in SUBSET DOMAIN q |-> IF T = {} THEN b ELSE step(h[T \ {Max(T)}], q[Max(T)])]
               /\ ByKind(s) = h[DOMAIN q]
  BY <1>8 DEF ByKind, FoldLeft, MapThenFoldSet, step
<1>10. h[DOMAIN q] = g[DOMAIN q]
  <2>1. g[{}] = h[{}]
    BY <1>7, <1>9
  <2>2. \A T \in SUBSET DOMAIN q : T # {} /\ g[T \ {Max(T)}] = h[T \ {Max(T)}] => g[T] = h[T]
    BY <1>6, <1>9
  <2> HIDE DEF q
  <2> QED BY <1>1, <2>1, <2>2, SameList
<1>11. ByKind(s) \in A
  <2>1. DOMAIN q \in SUBSET DOMAIN q
    OBVIOUS
  <2> HIDE DEF q
  <2> QED BY <1>5, <1>9, <1>10, <2>1
<1> QED BY <1>11 DEF A

\* The nodes that are given up one after the other.
LEMMA DiscardsIs ==
    ASSUME NEW w, Sound(w), NEW list \in Seq({e \in Entry : e.ok})
    PROVE  Reads(w, FoldLeft(Discard, w, list)) /\ (list = <<>> => FoldLeft(Discard, w, list) = w)
<1> DEFINE b == w
           q == list
           A == {u \in ConnWorlds : Reads(w, u)}
           B == {e \in Entry : e.ok}
           step(u, e) == Discard(u, e)
           W == [T \in SUBSET DOMAIN q |-> A]
           G == [x \in A \X B |-> step(x[1], x[2])]
<1>1. q \in Seq(B) /\ b \in A
  BY ReadsSelf DEF Sound
<1>2. ASSUME NEW u \in A, NEW a \in B PROVE step(u, a) \in A
  <2> DEFINE x == Discard(u, a)
  <2>1. Reads(w, u) /\ Sound(u) /\ a \in Entry /\ a.ok /\ x = Discard(u, a)
    BY DEF Reads
  <2> HIDE DEF x
  <2>2. Reads(u, x)
    BY <2>1, DiscardIs
  <2>3. Reads(w, x) /\ x \in ConnWorlds
    BY <2>1, <2>2, ReadsOn DEF Reads, Sound
  <2> QED BY <2>3 DEF x
<1>3. StepsGo(q, A, W, G)
  <2>1. ASSUME NEW T \in SUBSET DOMAIN q, T # {}, NEW u \in W[T \ {Max(T)}]
        PROVE  G[<<u, q[Max(T)]>>] \in W[T]
    <3>1. T \ {Max(T)} \in SUBSET DOMAIN q /\ q[Max(T)] \in B
      BY <1>1, <2>1, LastPlace, PlaceOf
    <3>2. u \in A /\ W[T] = A
      BY <2>1, <3>1
    <3> HIDE DEF step, q, A, B
    <3>3. G[<<u, q[Max(T)]>>] = step(u, q[Max(T)])
      BY <3>1, <3>2
    <3> HIDE DEF G
    <3> QED BY <1>2, <3>1, <3>2, <3>3
  <2> HIDE DEF G, q, A
  <2> QED BY <2>1 DEF StepsGo
<1>4. b \in W[{}]
  BY <1>1
<1> HIDE DEF G, step, A, B
<1>5. PICK g \in [SUBSET DOMAIN q -> A] :
        FoldsList(g, q, b, G) /\ \A T \in SUBSET DOMAIN q : g[T] \in W[T]
  <2> HIDE DEF W, q, b
  <2> QED BY <1>1, <1>3, <1>4, ListStays
<1>6. ASSUME NEW T \in SUBSET DOMAIN q, T # {}
      PROVE  g[T] = step(g[T \ {Max(T)}], q[Max(T)])
  <2> HIDE DEF b
  <2>1. g[T \ {Max(T)}] \in A /\ q[Max(T)] \in B
    BY <1>1, <1>6, LastPlace, PlaceOf
  <2>2. g[T] = G[<<g[T \ {Max(T)}], q[Max(T)]>>]
    BY <1>5, <1>6 DEF FoldsList
  <2> QED BY <2>1, <2>2 DEF G
<1>7. g[{}] = b
  BY <1>5 DEF FoldsList
<1>8. g = [T \in SUBSET DOMAIN q |-> IF T = {} THEN b ELSE step(g[T \ {Max(T)}], q[Max(T)])]
  BY <1>5, <1>6, <1>7
<1>9. PICK h : /\ h = [T \in SUBSET DOMAIN q |-> IF T = {} THEN b ELSE step(h[T \ {Max(T)}], q[Max(T)])]
               /\ FoldLeft(Discard, w, list) = h[DOMAIN q]
  BY <1>8 DEF FoldLeft, MapThenFoldSet, step
<1>10. h[DOMAIN q] = g[DOMAIN q]
  <2>1. g[{}] = h[{}]
    BY <1>7, <1>9
  <2>2. \A T \in SUBSET DOMAIN q : T # {} /\ g[T \ {Max(T)}] = h[T \ {Max(T)}] => g[T] = h[T]
    BY <1>6, <1>9
  <2> HIDE DEF q
  <2> QED BY <1>1, <2>1, <2>2, SameList
<1>11. FoldLeft(Discard, w, list) \in A
  <2>1. DOMAIN q \in SUBSET DOMAIN q
    OBVIOUS
  <2> HIDE DEF q
  <2> QED BY <1>5, <1>9, <1>10, <2>1
<1>12. list = <<>> => FoldLeft(Discard, w, list) = w
  <2>1. list = <<>> => DOMAIN q = {}
    OBVIOUS
  <2> QED BY <1>7, <1>9, <1>10, <2>1
<1> QED BY <1>11, <1>12 DEF A

\* The nodes that are taken one after the other.
LEMMA AddsIs ==
    ASSUME NEW w, Sound(w), NEW list \in Seq(Nodes)
    PROVE  Takes(w, FoldLeft(Add, w, list))
<1> DEFINE b == w
           q == list
           A == {u \in ConnWorlds : Takes(w, u)}
           B == Nodes
           step(u, n) == Add(u, n)
           W == [T \in SUBSET DOMAIN q |-> A]
           G == [x \in A \X B |-> step(x[1], x[2])]
<1>1. q \in Seq(B) /\ b \in A
  BY TakesSelf DEF Sound
<1>2. ASSUME NEW u \in A, NEW a \in B PROVE step(u, a) \in A
  <2> DEFINE x == Add(u, a)
  <2>1. Takes(w, u) /\ Sound(u) /\ x = Add(u, a)
    BY DEF Takes, Reads
  <2> HIDE DEF x
  <2>2. Takes(u, x)
    BY <2>1, AddIs
  <2>3. Takes(w, x) /\ x \in ConnWorlds
    BY <2>1, <2>2, TakesOn DEF Takes, Reads, Sound
  <2> QED BY <2>3 DEF x
<1>3. StepsGo(q, A, W, G)
  <2>1. ASSUME NEW T \in SUBSET DOMAIN q, T # {}, NEW u \in W[T \ {Max(T)}]
        PROVE  G[<<u, q[Max(T)]>>] \in W[T]
    <3>1. T \ {Max(T)} \in SUBSET DOMAIN q /\ q[Max(T)] \in B
      BY <1>1, <2>1, LastPlace, PlaceOf
    <3>2. u \in A /\ W[T] = A
      BY <2>1, <3>1
    <3> HIDE DEF step, q, A, B
    <3>3. G[<<u, q[Max(T)]>>] = step(u, q[Max(T)])
      BY <3>1, <3>2
    <3> HIDE DEF G
    <3> QED BY <1>2, <3>1, <3>2, <3>3
  <2> HIDE DEF G, q, A
  <2> QED BY <2>1 DEF StepsGo
<1>4. b \in W[{}]
  BY <1>1
<1> HIDE DEF G, step, A, B
<1>5. PICK g \in [SUBSET DOMAIN q -> A] :
        FoldsList(g, q, b, G) /\ \A T \in SUBSET DOMAIN q : g[T] \in W[T]
  <2> HIDE DEF W, q, b
  <2> QED BY <1>1, <1>3, <1>4, ListStays
<1>6. ASSUME NEW T \in SUBSET DOMAIN q, T # {}
      PROVE  g[T] = step(g[T \ {Max(T)}], q[Max(T)])
  <2> HIDE DEF b
  <2>1. g[T \ {Max(T)}] \in A /\ q[Max(T)] \in B
    BY <1>1, <1>6, LastPlace, PlaceOf
  <2>2. g[T] = G[<<g[T \ {Max(T)}], q[Max(T)]>>]
    BY <1>5, <1>6 DEF FoldsList
  <2> QED BY <2>1, <2>2 DEF G
<1>7. g[{}] = b
  BY <1>5 DEF FoldsList
<1>8. g = [T \in SUBSET DOMAIN q |-> IF T = {} THEN b ELSE step(g[T \ {Max(T)}], q[Max(T)])]
  BY <1>5, <1>6, <1>7
<1>9. PICK h : /\ h = [T \in SUBSET DOMAIN q |-> IF T = {} THEN b ELSE step(h[T \ {Max(T)}], q[Max(T)])]
               /\ FoldLeft(Add, w, list) = h[DOMAIN q]
  BY <1>8 DEF FoldLeft, MapThenFoldSet, step
<1>10. h[DOMAIN q] = g[DOMAIN q]
  <2>1. g[{}] = h[{}]
    BY <1>7, <1>9
  <2>2. \A T \in SUBSET DOMAIN q : T # {} /\ g[T \ {Max(T)}] = h[T \ {Max(T)}] => g[T] = h[T]
    BY <1>6, <1>9
  <2> HIDE DEF q
  <2> QED BY <1>1, <2>1, <2>2, SameList
<1>11. FoldLeft(Add, w, list) \in A
  <2>1. DOMAIN q \in SUBSET DOMAIN q
    OBVIOUS
  <2> HIDE DEF q
  <2> QED BY <1>5, <1>9, <1>10, <2>1
<1> QED BY <1>11 DEF A

\* The line i is off the list unless it is in force.
Clears(w, v, i) == /\ \A j \in Lines : v.line[j].legal = w.line[j].legal
                   /\ Range(v.order) = {j \in Range(w.order) : j # i \/ w.line[i].legal}

\* The list of lines, and the illegal lines, lose what nobody uses.
LEMMA FlushIs ==
    ASSUME NEW w, Sound(w), NEW i \in Lines, NEW v,
           v = IF w.line[i].legal THEN w
               ELSE LET u == [w EXCEPT !.order = Without(@, i)]
                    IN IF u.line[i].clients = 0 THEN free_conf(u, i) ELSE u
    PROVE  Reads(w, v) /\ (Placed(w) => Clears(w, v, i))
<1> DEFINE u == [w EXCEPT !.order = Without(@, i)]
<1>1. w \in ConnWorlds /\ w.order \in Seq(Lines)
  BY DEF Sound, ConnWorlds
<1>2. CASE w.line[i].legal
  BY <1>2, ReadsSelf DEF Clears
<1>3. CASE ~w.line[i].legal
  <2>1. v = IF u.line[i].clients = 0 THEN free_conf(u, i) ELSE u
    BY <1>3
  <2>2. Without(w.order, i) \in Seq(Lines)
    BY <1>1, WithoutIs
  <2>3. /\ u \in ConnWorlds /\ u.conn = w.conn /\ u.line = w.line /\ u.cls = w.cls
        /\ u.query = w.query /\ u.cache = w.cache /\ u.order = Without(w.order, i) /\ u.lost = w.lost
    BY <1>1, <2>2 DEF ConnWorlds
  <2> HIDE DEF u
  <2>4. Books(w, {}, {}) => Books(u, {}, {})
    <3>1. Worn(w, u, {}) /\ Remains(w, u)
      BY <2>3 DEF Worn, Remains
    <3> QED BY <1>1, <2>3, <3>1, BooksStay
  <2>8. ASSUME Placed(w) PROVE Placed(u) /\ Clears(w, u, i) /\ i \notin Range(u.order)
    <3>1. Range(u.order) = Range(w.order) \ {i} /\ IsInjective(u.order)
      BY <1>1, <2>3, <2>8, WithoutIs DEF Placed
    <3> QED BY <1>3, <2>3, <2>8, <3>1 DEF Placed, Clears
  <2>5. Reads(w, u)
    BY <2>3, <2>4, <2>8, ReadsIs
  <2>6. CASE v = u
    BY <2>5, <2>6, <2>8
  <2>7. CASE u.line[i].clients = 0 /\ v = free_conf(u, i)
    <3>1. /\ v \in ConnWorlds /\ v.conn = u.conn /\ v.query = u.query /\ v.cache = u.cache /\ (u.lost => v.lost)
          /\ v.order = u.order /\ v.line = [u.line EXCEPT ![i] = NoLine]
          /\ (Books(u, {}, {}) /\ Held(u, i) = {} => Books(v, {}, {}))
      <4>1. u \in ConnWorlds /\ v = free_conf(u, i)
        BY <2>3, <2>7
      <4>2. ASSUME NEW O, NEW V
            PROVE  /\ v \in ConnWorlds /\ v.conn = u.conn /\ v.line = [u.line EXCEPT ![i] = NoLine]
                   /\ v.query = u.query /\ v.cache = u.cache /\ v.order = u.order /\ (u.lost => v.lost)
                   /\ (Books(u, O, V) /\ Held(u, i) = {} => Books(v, O, V))
        BY ONLY i \in Lines, <4>1, ConfFreed
      <4> QED BY <4>2
    <3>2. Books(u, {}, {}) => Held(u, i) = {}
      <4> SUFFICES ASSUME Books(u, {}, {}) PROVE Held(u, i) = {}
        OBVIOUS
      <4>1. CASE u.line[i].kind \in {"P", "free"}
        BY <4>1 DEF Books, Hung, Held, is_attached
      <4>2. CASE u.line[i].kind \notin {"P", "free"}
        <5>1. Cardinality(Held(u, i)) = 0
          BY <2>7, <4>2 DEF Books, Tallied
        <5>2. IsFiniteSet(Held(u, i))
          BY ConnAssumption, FS_Subset DEF Held
        <5> QED BY <5>1, <5>2, FS_EmptySet
      <4> QED BY <4>1, <4>2
    <3>4. ASSUME Placed(w) PROVE Placed(v) /\ Clears(w, v, i)
      <4>1. \A j \in Lines : v.line[j] = IF j = i THEN NoLine ELSE w.line[j]
        BY <2>3, <3>1 DEF ConnWorlds
      <4>2. NoLine.legal = FALSE /\ w.line[i].legal = FALSE
        BY <1>1, <1>3 DEF NoLine, ConnWorlds, Line
      <4>3. Placed(u) /\ Clears(w, u, i) /\ i \notin Range(v.order) /\ v.order = u.order /\ u.line = w.line
        BY <2>3, <2>8, <3>1, <3>4
      <4>4. Placed(v)
        BY ONLY <4>1, <4>2, <4>3 DEF Placed
      <4>5. Clears(w, v, i)
        BY ONLY <4>1, <4>2, <4>3 DEF Clears
      <4> QED BY <4>4, <4>5
    <3>3. Reads(w, v)
      <4>1. /\ v \in ConnWorlds /\ v.conn = w.conn /\ v.query = w.query /\ v.cache = w.cache
            /\ (w.lost => v.lost)
        BY <2>3, <3>1
      <4>2. Books(w, {}, {}) => Books(v, {}, {})
        BY <2>4, <3>1, <3>2
      <4>3. Seated(w) => Seated(v)
        BY <4>1 DEF Seated
      <4>4. Sound(v)
        BY <4>1, <4>2, <4>3 DEF Sound
      <4> QED BY <3>4, <4>1, <4>4 DEF Reads
    <3> QED BY <3>3, <3>4
  <2> QED BY <2>1, <2>6, <2>7
<1> QED BY <1>2, <1>3

LEMMA FlushesIs ==
    ASSUME NEW w, Sound(w)
    PROVE  Reads(w, flush_lines(w)) /\ (Placed(w) => Ordered(flush_lines(w)))
<1> DEFINE b == w
           q == w.order
           A == {u \in ConnWorlds : Reads(w, u)}
           B == Lines
           step(v, i) == IF v.line[i].legal THEN v
                         ELSE LET u == [v EXCEPT !.order = Without(@, i)]
                              IN IF u.line[i].clients = 0 THEN free_conf(u, i) ELSE u
           Done(u, T) == Placed(w) => /\ \A j \in Lines : u.line[j].legal = w.line[j].legal
                                      /\ Range(u.order) \subseteq Range(q)
                                      /\ \A n \in T : q[n] \in Range(u.order) => w.line[q[n]].legal
           W == [T \in SUBSET DOMAIN q |-> {u \in A : Done(u, T)}]
           G == [x \in A \X B |-> step(x[1], x[2])]
<1>1. q \in Seq(B) /\ b \in A
  BY ReadsSelf DEF Sound, ConnWorlds
<1>2. ASSUME NEW T \in SUBSET DOMAIN q, T # {}, NEW u \in A, Done(u, T \ {Max(T)})
      PROVE  step(u, q[Max(T)]) \in A /\ Done(step(u, q[Max(T)]), T)
  <2> DEFINE a == q[Max(T)]
  <2>0. a \in Lines /\ \A n \in T : n = Max(T) \/ n \in T \ {Max(T)}
    BY <1>1, <1>2, LastPlace, PlaceOf
  <2> DEFINE x == step(u, a)
  <2>1. Reads(w, u) /\ Sound(u)
    BY DEF Reads
  <2> HIDE DEF a
  <2>2. Reads(u, x) /\ (Placed(u) => Clears(u, x, a))
    BY <2>0, <2>1, FlushIs
  <2> HIDE DEF x
  <2>3. Reads(w, x) /\ x \in ConnWorlds
    BY <2>1, <2>2, ReadsOn DEF Reads, Sound
  <2>4. Done(x, T)
    <3> SUFFICES ASSUME Placed(w)
                 PROVE  /\ \A j \in Lines : x.line[j].legal = w.line[j].legal
                        /\ Range(x.order) \subseteq Range(q)
                        /\ \A n \in T : q[n] \in Range(x.order) => w.line[q[n]].legal
      OBVIOUS
    <3>0. Done(u, T \ {Max(T)}) /\ Placed(w)
      BY <1>2
    <3>1. /\ \A j \in Lines : u.line[j].legal = w.line[j].legal
          /\ Range(u.order) \subseteq Range(q)
          /\ \A n \in T \ {Max(T)} : q[n] \in Range(u.order) => w.line[q[n]].legal
      <4> HIDE DEF q, A, W, G, step, b
      <4> QED BY ONLY <3>0
    <3>2. Clears(u, x, a)
      BY <2>1, <2>2 DEF Reads
    <3>3. \A n \in T : q[n] = a \/ n \in T \ {Max(T)}
      BY <2>0 DEF a
    <3> HIDE DEF q, A, Done
    <3> QED BY ONLY <2>0, <3>1, <3>2, <3>3 DEF Clears
  <2> HIDE DEF Done, q
  <2> QED BY <2>3, <2>4 DEF x, a
<1>3. StepsGo(q, A, W, G)
  <2>1. ASSUME NEW T \in SUBSET DOMAIN q, T # {}, NEW u \in W[T \ {Max(T)}]
        PROVE  G[<<u, q[Max(T)]>>] \in W[T]
    <3>1. T \ {Max(T)} \in SUBSET DOMAIN q /\ q[Max(T)] \in B
      BY <1>1, <2>1, LastPlace, PlaceOf
    <3>2. u \in A /\ Done(u, T \ {Max(T)}) /\ W[T] = {x \in A : Done(x, T)}
      BY <2>1, <3>1
    <3> HIDE DEF step, q, A, B, Done
    <3>3. G[<<u, q[Max(T)]>>] = step(u, q[Max(T)])
      BY <3>1, <3>2
    <3> HIDE DEF G
    <3> QED BY <1>2, <2>1, <3>1, <3>2, <3>3
  <2> HIDE DEF G, q, A, Done
  <2> QED BY <2>1 DEF StepsGo
<1>4. b \in W[{}]
  BY <1>1
<1> HIDE DEF G, step, A, B, Done
<1>5. PICK g \in [SUBSET DOMAIN q -> A] :
        FoldsList(g, q, b, G) /\ \A T \in SUBSET DOMAIN q : g[T] \in W[T]
  <2> HIDE DEF W, q, b
  <2> QED BY <1>1, <1>3, <1>4, ListStays
<1>6. ASSUME NEW T \in SUBSET DOMAIN q, T # {}
      PROVE  g[T] = step(g[T \ {Max(T)}], q[Max(T)])
  <2> HIDE DEF b
  <2>1. g[T \ {Max(T)}] \in A /\ q[Max(T)] \in B
    BY <1>1, <1>6, LastPlace, PlaceOf
  <2>2. g[T] = G[<<g[T \ {Max(T)}], q[Max(T)]>>]
    BY <1>5, <1>6 DEF FoldsList
  <2> QED BY <2>1, <2>2 DEF G
<1>7. g[{}] = b
  BY <1>5 DEF FoldsList
<1>8. g = [T \in SUBSET DOMAIN q |-> IF T = {} THEN b ELSE step(g[T \ {Max(T)}], q[Max(T)])]
  BY <1>5, <1>6, <1>7
<1>9. PICK h : /\ h = [T \in SUBSET DOMAIN q |-> IF T = {} THEN b ELSE step(h[T \ {Max(T)}], q[Max(T)])]
               /\ flush_lines(w) = h[DOMAIN q]
  BY <1>8 DEF flush_lines, FoldLeft, MapThenFoldSet, step
<1>10. h[DOMAIN q] = g[DOMAIN q]
  <2>1. g[{}] = h[{}]
    BY <1>7, <1>9
  <2>2. \A T \in SUBSET DOMAIN q : T # {} /\ g[T \ {Max(T)}] = h[T \ {Max(T)}] => g[T] = h[T]
    BY <1>6, <1>9
  <2> HIDE DEF q
  <2> QED BY <1>1, <2>1, <2>2, SameList
<1>11. flush_lines(w) \in A /\ Done(flush_lines(w), DOMAIN q)
  <2>1. DOMAIN q \in SUBSET DOMAIN q /\ flush_lines(w) = g[DOMAIN q]
    BY <1>9, <1>10
  <2>2. g[DOMAIN q] \in W[DOMAIN q]
    <3> HIDE DEF q, W
    <3> QED BY <1>5, <2>1
  <2> HIDE DEF q
  <2> QED BY <2>1, <2>2
<1>12. ASSUME Placed(w) PROVE Ordered(flush_lines(w))
  <2> DEFINE v == flush_lines(w)
  <2>1. Reads(w, v) /\ Placed(v)
    BY <1>11, <1>12 DEF A, Reads
  <2>2. /\ \A j \in Lines : v.line[j].legal = w.line[j].legal
        /\ Range(v.order) \subseteq Range(q)
        /\ \A n \in DOMAIN q : q[n] \in Range(v.order) => w.line[q[n]].legal
    <3> HIDE DEF q, W
    <3> QED BY ONLY <1>11, <1>12 DEF Done
  <2>3. \A j \in Range(q) : \E n \in DOMAIN q : q[n] = j
    BY DEF Range
  <2> HIDE DEF q, v
  <2>4. Ordered(v)
    BY ONLY <2>1, <2>2, <2>3 DEF Ordered
  <2> QED BY <2>4 DEF v
<1> QED BY <1>11, <1>12 DEF A

\* config_read(): the nodes that are gone, then those that are new.
LEMMA ConfigRead ==
    ASSUME NEW w, Sound(w), NEW f \in Seq(Nodes), NEW v, v = config_read(w, f)
    PROVE  Reads(w, v) /\ (w.config = <<>> /\ Ordered(w) => Ordered(v))
<1> DEFINE old == ByKind(w.config)
           keep == {e \in Range(old) : e.ok /\ e.node \in Range(f)}
           drop == {e \in Range(old) : e.ok /\ e.node \notin Range(f)}
           kept == Only(old, keep)
           gone == Only(old, drop)
           fresh == {n \in Range(f) : \A e \in Range(kept) : e.node # n}
           new == Only(ByKind(f), fresh)
           x == FoldLeft(Discard, w, gone)
           y == [x EXCEPT !.config = kept]
<1>1. v = FoldLeft(Add, y, new)
  BY DEF config_read
<1>2. w.config \in Seq(Entry)
  BY DEF Sound, ConnWorlds
<1>3. old \in Seq(Entry) /\ ByKind(f) \in Seq(Nodes)
  BY <1>2, ByKindIs
<1>4. \A e \in drop : e.ok
  OBVIOUS
<1> HIDE DEF old, keep, drop, fresh
<1>5. kept \in Seq(Entry \cap keep) /\ gone \in Seq(Entry \cap drop) /\ new \in Seq(Nodes \cap fresh)
  BY <1>3, OnlyIs
<1>6. Entry \cap keep \subseteq Entry /\ Entry \cap drop \subseteq {e \in Entry : e.ok}
      /\ Nodes \cap fresh \subseteq Nodes
  BY <1>4
<1> HIDE DEF kept, gone, new
<1>7. kept \in Seq(Entry) /\ gone \in Seq({e \in Entry : e.ok}) /\ new \in Seq(Nodes)
  <2>1. \A S, R : S \subseteq R => Seq(S) \subseteq Seq(R)
    OBVIOUS
  <2> QED BY <1>5, <1>6, <2>1
<1>8. Reads(w, x) /\ Sound(x) /\ (gone = <<>> => x = w)
  BY <1>7, DiscardsIs DEF Reads
<1>14. w.config = <<>> => gone = <<>>
  <2> SUFFICES ASSUME w.config = <<>> PROVE gone = <<>>
    OBVIOUS
  <2>1. w.config \in Seq({})
    OBVIOUS
  <2>2. old \in Seq({})
    BY <2>1, ByKindIs DEF old
  <2>3. gone \in Seq({} \cap drop)
    BY <2>2, OnlyIs DEF gone
  <2> QED BY <2>3
<1> HIDE DEF x
<1>9. /\ y \in ConnWorlds /\ y.conn = x.conn /\ y.line = x.line /\ y.cls = x.cls /\ y.query = x.query
      /\ y.cache = x.cache /\ y.order = x.order /\ y.lost = x.lost
  BY <1>7, <1>8 DEF Sound, ConnWorlds
<1> HIDE DEF y
<1>10. Books(x, {}, {}) => Books(y, {}, {})
  <2>1. Worn(x, y, {}) /\ Remains(x, y) /\ x \in ConnWorlds
    BY <1>8, <1>9 DEF Worn, Remains, Sound
  <2> QED BY <1>9, <2>1, BooksStay
<1>11. Reads(w, y) /\ Sound(y)
  <2>1. Reads(x, y)
    BY <1>8, <1>9, <1>10, SameOrders, ReadsIs
  <2>2. Reads(w, y)
    BY <1>8, <2>1, ReadsOn
  <2> QED BY <2>2 DEF Reads
<1>12. Takes(y, v)
  BY <1>1, <1>7, <1>11, AddsIs
<1>13. w.config = <<>> /\ Ordered(w) => Ordered(v)
  BY <1>8, <1>9, <1>12, <1>14, SameOrders DEF Takes
<1> QED BY <1>11, <1>12, <1>13, ReadsOn DEF Takes

\* rem_cache(): no connection points to an entry that goes.
LEMMA RemCache ==
    ASSUME NEW w, Sound(w), NEW as, NEW v, v = rem_cache(w, as)
    PROVE  /\ Goes(w, v) /\ v.cache = w.cache \ as /\ v.lost = w.lost
           /\ \A d \in Slots : v.conn[d].st = w.conn[d].st
<1> DEFINE me(d) == [w.conn[d] EXCEPT !.host = w.conn[d].host /\ Addr[d] \notin as]
           all == [d \in Slots |-> me(d)]
<1>1. w \in ConnWorlds /\ w.conn \in [Slots -> Client] /\ w.cache \in SUBSET Range(Addr)
  BY DEF Sound, ConnWorlds
<1>2. v = [w EXCEPT !.cache = w.cache \ as, !.conn = all]
  BY <1>1 DEF rem_cache, ConnWorlds
<1>3. ASSUME NEW d \in Slots
      PROVE  /\ me(d) \in Client /\ Alike([me(d) EXCEPT !.host = w.conn[d].host], w.conn[d])
             /\ me(d).confs = w.conn[d].confs /\ (me(d).host => w.conn[d].host /\ Addr[d] \notin as)
             /\ me(d).st = w.conn[d].st /\ me(d).via = w.conn[d].via /\ me(d).oper = w.conn[d].oper
             /\ me(d).dns = w.conn[d].dns
  <2> DEFINE x == w.conn[d]
             h == w.conn[d].host /\ Addr[d] \notin as
             y == [x EXCEPT !.host = h]
  <2>1. x \in Client /\ h \in BOOLEAN
    BY <1>1
  <2>2. me(d) = y /\ [me(d) EXCEPT !.host = w.conn[d].host] = [y EXCEPT !.host = x.host]
    OBVIOUS
  <2> HIDE DEF x, h, me
  <2>3. y \in Client /\ y.host = h
    BY <2>1 DEF Client
  <2>4. y.st = x.st /\ y.via = x.via /\ y.confs = x.confs /\ y.dns = x.dns /\ y.oper = x.oper
    BY <2>1 DEF Client
  <2>5. Alike([y EXCEPT !.host = x.host], x)
    BY <2>1 DEF Client, Alike
  <2>6. h => w.conn[d].host /\ Addr[d] \notin as
    BY DEF h
  <2> QED BY <2>2, <2>3, <2>4, <2>5, <2>6 DEF x
<1>4. all \in [Slots -> Client] /\ \A d \in Slots : all[d] = me(d)
  BY <1>3
<1> HIDE DEF me, all
<1>5. /\ v \in ConnWorlds /\ v.conn = all /\ v.line = w.line /\ v.cls = w.cls
      /\ v.query = w.query /\ v.cache = w.cache \ as /\ v.order = w.order /\ v.lost = w.lost
  BY <1>1, <1>2, <1>4 DEF ConnWorlds
<1>6. Worn(w, v, {}) /\ Remains(w, v)
  BY <1>3, <1>4, <1>5 DEF Worn, Remains
<1>7. Books(w, {}, {}) => Books(v, {}, {})
  BY <1>1, <1>5, <1>6, BooksStay
<1>8. Seated(w) => Seated(v)
  <2> SUFFICES ASSUME Seated(w), NEW d \in Slots
               PROVE  /\ v.conn[d].st = "none" => v.conn[d].confs = <<>> /\ v.conn[d].via = 0
                      /\ v.conn[d].oper # "no" => v.conn[d].st = "person"
                      /\ v.query[d] # "no" => v.conn[d].st # "none" /\ v.conn[d].dns
                      /\ v.conn[d].host => v.conn[d].st # "none" /\ Addr[d] \in v.cache
    BY DEF Seated
  <2>1. v.conn[d] = me(d)
    BY <1>4, <1>5
  <2>2. /\ v.query[d] = w.query[d] /\ v.cache = w.cache \ as
    BY <1>5
  <2>3. /\ w.conn[d].st = "none" => w.conn[d].confs = <<>> /\ w.conn[d].via = 0
        /\ w.conn[d].oper # "no" => w.conn[d].st = "person"
        /\ w.query[d] # "no" => w.conn[d].st # "none" /\ w.conn[d].dns
        /\ w.conn[d].host => w.conn[d].st # "none" /\ Addr[d] \in w.cache
    BY DEF Seated
  <2>4. /\ me(d).confs = w.conn[d].confs /\ (me(d).host => w.conn[d].host /\ Addr[d] \notin as)
        /\ me(d).st = w.conn[d].st /\ me(d).via = w.conn[d].via /\ me(d).oper = w.conn[d].oper
        /\ me(d).dns = w.conn[d].dns
    BY <1>3
  <2> HIDE DEF Seated
  <2>5. me(d).host => Addr[d] \in v.cache
    BY ONLY <2>2, <2>3, <2>4
  <2> QED BY ONLY <2>1, <2>2, <2>3, <2>4, <2>5
<1>9. \A d \in Slots : v.conn[d].st = w.conn[d].st
  BY <1>3, <1>4, <1>5
<1>10. Ordered(w) => Ordered(v)
  BY <1>5, SameOrders
<1> QED BY <1>5, <1>7, <1>8, <1>9, <1>10 DEF Goes, Sound

LEMMA ReadsGoes ==
    ASSUME NEW w, NEW v, Reads(w, v), Ordered(w) => Ordered(v)
    PROVE  Goes(w, v)
  BY DEF Reads, Goes

\* rehash()
LEMMA Rehashes ==
    ASSUME NEW w, Sound(w), NEW f \in Seq(Nodes), NEW banned, NEW v, v = rehash(w, f, banned)
    PROVE  Goes(w, v)
<1> DEFINE x == rem_cache(w, w.cache)
           y == config_read(x, f)
           z == flush_lines(y)
<1>1. v = check_pings(z, banned)
  BY DEF rehash
<1>2. Goes(w, x) /\ Sound(x)
  BY RemCache DEF Goes
<1> HIDE DEF x
<1>3. Reads(x, y) /\ Sound(y)
  BY <1>2, ConfigRead DEF Reads
<1> HIDE DEF y
<1>4. Reads(y, z) /\ Sound(z) /\ (Placed(y) => Ordered(z))
  BY <1>3, FlushesIs DEF Reads
<1> HIDE DEF z
<1>5. Goes(z, v)
  BY <1>1, <1>4, Pinged
<1>6. Reads(x, z)
  BY <1>3, <1>4, ReadsOn
<1>7. Goes(x, z)
  BY <1>3, <1>4, <1>6, ReadsGoes DEF Reads, Ordered
<1>8. Goes(w, z)
  BY <1>2, <1>7, GoesOn
<1> QED BY <1>5, <1>8, GoesOn

\* The invariant of the server.
ConnInv ==
    /\ Sound(World) /\ Ordered(World) /\ Cardinality(cache) <= MaxCached
    /\ kill \in [KMasks -> By] /\ zap \in [ZMasks -> By] /\ rehashes \in 0 .. MaxRehash
    /\ OneLink /\ NoneKilled

LEMMA WorldIs ==
    /\ World.conn = conn /\ World.query = query /\ World.cache = cache /\ World.line = line
    /\ World.order = order /\ World.cls = cls /\ World.classlist = classlist
    /\ World.config = config /\ World.lost = lost
  BY DEF World

\* The invariant implies what is checked.
LEMMA ConnSafe ==
    ASSUME ConnInv
    PROVE  ConnTypeOK /\ Counted /\ PointersLive /\ InForce /\ NoneKilled /\ OneLink
<1>1. World \in ConnWorlds /\ (lost \/ (Books(World, {}, {}) /\ Seated(World)))
  BY WorldIs DEF ConnInv, Sound
<1>2. ConnTypeOK
  BY <1>1, WorldIs DEF ConnInv, ConnWorlds, ConnTypeOK, Lines
<1>3. Counted
  <2> SUFFICES ASSUME ~lost PROVE Counted
    BY DEF Counted
  <2>1. Tallied(World) /\ Listened(World, {}) /\ Classed(World) /\ Lettered(World, {})
    BY <1>1 DEF Books
  <2>2. \A i \in 1 .. MaxLine : Held(World, i) = {c \in Slots : i \in Range(conn[c].confs)}
    BY WorldIs DEF Held, is_attached
  <2>3. ASSUME NEW i \in 1 .. MaxLine, line[i].kind \notin {"P", "free"}
        PROVE  line[i].clients = Cardinality({c \in Slots : i \in Range(conn[c].confs)})
    BY <2>1, <2>2, <2>3, WorldIs DEF Tallied, Lines
  <2>4. ASSUME NEW i \in 1 .. MaxLine, line[i].kind = "P" /\ line[i].legal
        PROVE  line[i].clients = Cardinality(Accepted(World, i))
    <3>1. Accepted(World, i) \ {} = Accepted(World, i)
      OBVIOUS
    <3> QED BY <2>1, <2>4, <3>1, WorldIs DEF Listened, Lines
  <2>5. ASSUME NEW k \in 1 .. MaxClass, cls[k] # NoClass
        PROVE  cls[k].conns = Cardinality(Attached(World, k))
    BY <2>1, <2>5, WorldIs DEF Classed
  <2>6. ASSUME NEW c \in Slots, conn[c].oper = "glob"
        PROVE  \E i \in Range(conn[c].confs) : line[i].kind \in Operators
    BY <2>1, <2>6, WorldIs DEF Lettered
  <2> QED BY <2>3, <2>4, <2>5, <2>6 DEF Counted
<1>4. PointersLive
  <2> SUFFICES ASSUME ~lost, NEW c \in Slots
               PROVE  /\ query[c] # "no" => Open(c) /\ conn[c].dns
                      /\ conn[c].host => Open(c) /\ Addr[c] \in cache
                      /\ \A i \in Range(conn[c].confs) : line[i] # NoLine
    BY DEF PointersLive
  <2>1. /\ query[c] # "no" => Open(c) /\ conn[c].dns
        /\ conn[c].host => Open(c) /\ Addr[c] \in cache
    BY <1>1, WorldIs DEF Seated, Open
  <2>2. \A i \in Range(conn[c].confs) : line[i].kind # "free"
    BY <1>1, WorldIs DEF Books, Hung
  <2>3. NoLine.kind = "free"
    BY DEF NoLine
  <2> QED BY <2>1, <2>2, <2>3
<1>5. InForce
  <2>1. order \in Seq(Lines) /\ Range(order) \subseteq Lines
    BY <1>1, WorldIs, RangeIn DEF ConnWorlds
  <2>2. IsInjective(order)
        /\ \A j \in Lines : (line[j].legal => j \in Range(order)) /\ (j \in Range(order) => line[j].legal)
    BY WorldIs DEF ConnInv, Ordered, Placed
  <2>3. \A j \in Lines : line[j].legal \in BOOLEAN
    BY <1>1, WorldIs DEF ConnWorlds, Line
  <2>4. Range(order) = {i \in Lines : line[i].legal}
    <3> HIDE DEF Range
    <3> QED BY <2>1, <2>2, <2>3
  <2> QED BY <2>2, <2>4 DEF InForce, Lines
<1> QED BY <1>2, <1>3, <1>4, <1>5 DEF ConnInv

\* The world that a function leaves is the next one.
LEMMA Becoming ==
    ASSUME NEW v, v \in ConnWorlds, Becomes(v)
    PROVE  World' = v /\ conn' = v.conn /\ cache' = v.cache /\ lost' = v.lost
<1>1. v = [conn |-> v.conn, query |-> v.query, cache |-> v.cache, line |-> v.line, order |-> v.order,
           cls |-> v.cls, classlist |-> v.classlist, config |-> v.config, lost |-> v.lost]
  BY DEF ConnWorlds
<1> QED BY <1>1 DEF Becomes, World

\* Who may be what he becomes.
Admits(v) == \A d \in Slots :
    \/ v.conn[d].st \in {conn[d].st, "none", "unknown", "connecting", "handshake"}
    \/ v.conn[d].st = "person" /\ ~find_kill(d)
    \/ /\ v.conn[d].st = "server" /\ Linked(World, Peer[d]) = {}
       /\ \A e \in Slots \ {d} : v.conn[e].st = conn[e].st

\* What a step asks of the world it leaves.
LEMMA Stepped ==
    ASSUME ConnInv, ~lost, NEW v, Sound(v), Ordered(v), Becomes(v), Admits(v), Cardinality(v.cache) <= MaxCached,
           kill' \in [KMasks -> By], zap' \in [ZMasks -> By], rehashes' \in 0 .. MaxRehash,
           \A d \in Slots : v.lost \/ v.conn[d].st # "person" \/ (find_kill(d)' => find_kill(d))
    PROVE  ConnInv'
<1>1. World' = v /\ conn' = v.conn /\ cache' = v.cache /\ lost' = v.lost
  BY Becoming DEF Sound
<1>2. OneLink'
  <2> SUFFICES ASSUME NEW c \in Slots, NEW d \in Slots, v.conn[c].st = "server", v.conn[d].st = "server",
                      Peer[c] = Peer[d], c # d
               PROVE  FALSE
    BY <1>1 DEF OneLink
  <2>1. ASSUME NEW x \in Slots, NEW y \in Slots, v.conn[x].st = "server", v.conn[y].st = "server",
               Peer[x] = Peer[y], x # y
        PROVE  conn[x].st = "server"
    <3>1. CASE v.conn[x].st \in {conn[x].st, "none", "unknown", "connecting", "handshake"}
      BY <2>1, <3>1
    <3>2. CASE Linked(World, Peer[x]) = {} /\ \A e \in Slots \ {x} : v.conn[e].st = conn[e].st
      <4>1. conn[y].st = "server"
        BY <2>1, <3>2
      <4>2. y \in Linked(World, Peer[x])
        BY <2>1, <4>1, WorldIs DEF Linked
      <4> QED BY <3>2, <4>2
    <3> QED BY <2>1, <3>1, <3>2 DEF Admits
  <2>2. conn[c].st = "server" /\ conn[d].st = "server"
    BY <2>1
  <2> QED BY <2>2 DEF ConnInv, OneLink
<1>3. NoneKilled'
  <2> SUFFICES ASSUME ~v.lost, NEW d \in Slots, v.conn[d].st = "person"
               PROVE  ~find_kill(d)'
    BY <1>1 DEF NoneKilled
  <2>1. ~find_kill(d)
    BY DEF Admits, ConnInv, NoneKilled
  <2> QED BY <2>1
<1> QED BY <1>1, <1>2, <1>3 DEF ConnInv

LEMMA FewCached ==
    ASSUME ConnInv, NEW v, v.cache \subseteq cache
    PROVE  Cardinality(v.cache) <= MaxCached
<1>1. IsFiniteSet(Range(Addr))
  <2>1. IsFiniteSet(Slots) /\ DOMAIN Addr = Slots
    BY ConnAssumption
  <2> DEFINE f == [c \in Slots |-> Addr[c]]
  <2>2. f \in Surjection(Slots, Range(Addr))
    BY <2>1 DEF Surjection, Range
  <2> QED BY <2>1, <2>2, FS_Surjection
<1>2. cache \subseteq Range(Addr)
  BY WorldIs DEF ConnInv, Sound, ConnWorlds
<1>3. IsFiniteSet(cache) /\ IsFiniteSet(v.cache)
  BY <1>1, <1>2, FS_Subset
<1>4. Cardinality(v.cache) <= Cardinality(cache)
  BY <1>3, FS_Subset
<1>5. Cardinality(v.cache) \in Nat /\ Cardinality(cache) \in Nat
  BY <1>3, FS_CardinalityType
<1> QED BY <1>4, <1>5, Bounds DEF ConnInv

\* A step by which nobody becomes anything.
LEMMA Steady ==
    ASSUME ConnInv, ~lost, NEW v, Goes(World, v), Becomes(v), UNCHANGED Bans
    PROVE  ConnInv'
<1>1. Sound(v) /\ Ordered(v) /\ v.cache \subseteq cache /\ \A d \in Slots : v.conn[d].st \in {conn[d].st, "none"}
  BY WorldIs DEF Goes, ConnInv
<1>2. Admits(v)
  BY <1>1 DEF Admits
<1>3. Cardinality(v.cache) <= MaxCached
  BY <1>1, FewCached
<1>4. kill' = kill /\ zap' = zap /\ rehashes' = rehashes
  BY DEF Bans
<1>5. \A d \in Slots : find_kill(d)' = find_kill(d)
  BY <1>4 DEF find_kill
<1>6. kill' \in [KMasks -> By] /\ zap' \in [ZMasks -> By] /\ rehashes' \in 0 .. MaxRehash
  BY <1>4 DEF ConnInv
<1> QED BY <1>1, <1>2, <1>3, <1>5, <1>6, Stepped

\* A configuration file is a sequence of nodes.
LEMMA FilesAre ==
    ASSUME NEW f \in Configs
    PROVE  f \in Seq(Nodes)
<1>1. f \in Seq(Node) /\ Range(f) \subseteq Nodes
  BY ConnAssumption DEF Nodes
<1>2. \A k \in 1 .. Len(f) : f[k] \in Range(f)
  BY <1>1 DEF Range
<1>3. \A k \in 1 .. Len(f) : f[k] \in Nodes
  BY <1>1, <1>2
<1>4. f = [k \in 1 .. Len(f) |-> f[k]] /\ Len(f) \in Nat
  BY <1>1
<1> QED BY <1>3, <1>4

\* Nothing is configured.
LEMMA EmptySound == Sound(Empty) /\ Ordered(Empty) /\ Empty.config = <<>>
<1>1. /\ Empty.conn = [c \in Slots |-> NoConn] /\ Empty.query = [c \in Slots |-> "no"]
      /\ Empty.cache = {} /\ Empty.line = [i \in 1 .. MaxLine |-> NoLine] /\ Empty.order = <<>>
      /\ Empty.cls = [k \in 1 .. MaxClass |-> NoClass] /\ Empty.classlist = <<>>
      /\ Empty.config = <<>> /\ Empty.lost = FALSE
  BY DEF Empty
<1>2. <<>> \in Seq(Lines) /\ <<>> \in Seq(1 .. MaxClass) /\ <<>> \in Seq(Entry)
  OBVIOUS
<1>3. Empty \in ConnWorlds
  BY <1>2, Nothing DEF Empty, ConnWorlds, Lines
<1>4. /\ \A c \in Slots : Empty.conn[c] = NoConn /\ Empty.query[c] = "no"
      /\ \A i \in Lines : Empty.line[i] = NoLine
      /\ \A k \in 1 .. MaxClass : Empty.cls[k] = NoClass
  BY <1>1 DEF Lines
<1>5. NoLine.kind = "free" /\ IsInjective(<<>>) /\ Range(<<>>) = {}
  BY DEF NoLine, IsInjective, Range
<1> HIDE DEF Empty
<1>6. Hung(Empty)
  BY <1>4, <1>5, NoOne DEF Hung
<1>7. Tallied(Empty) /\ Freed(Empty) /\ Listened(Empty, {})
  BY <1>4, <1>5 DEF Tallied, Freed, Listened
<1>8. Heard(Empty) /\ Lettered(Empty, {})
  BY <1>4, NoOne DEF Heard, Lettered
<1>9. Classed(Empty)
  BY <1>4 DEF Classed
<1>10. Seated(Empty)
  BY <1>4, NoOne DEF Seated
<1>11. Ordered(Empty)
  <2>1. NoLine.legal = FALSE
    BY DEF NoLine
  <2> QED BY <1>1, <1>4, <1>5, <2>1 DEF Ordered, Placed
<1> QED BY <1>1, <1>3, <1>6, <1>7, <1>8, <1>9, <1>10, <1>11 DEF Sound, Books

LEMMA ConnInitially == ConnInit => ConnInv
<1> SUFFICES ASSUME ConnInit PROVE ConnInv
  OBVIOUS
<1> DEFINE w == config_read(Empty, FirstConfig)
<1>1. FirstConfig \in Seq(Nodes)
  BY ConnAssumption, FilesAre
<1>2. Reads(Empty, w) /\ Ordered(w)
  BY <1>1, EmptySound, ConfigRead
<1>3. /\ conn = w.conn /\ query = w.query /\ cache = w.cache /\ line = w.line /\ order = w.order
      /\ cls = w.cls /\ classlist = w.classlist /\ config = w.config /\ lost = w.lost
      /\ kill = [m \in KMasks |-> "none"] /\ zap = [m \in ZMasks |-> "none"] /\ rehashes = 0
  BY DEF ConnInit
<1> HIDE DEF w
<1>4. w \in ConnWorlds /\ Sound(w) /\ w.conn = [c \in Slots |-> NoConn] /\ w.cache = {}
  BY <1>2 DEF Reads, Sound, Empty
<1>5. w = [conn |-> w.conn, query |-> w.query, cache |-> w.cache, line |-> w.line, order |-> w.order,
           cls |-> w.cls, classlist |-> w.classlist, config |-> w.config, lost |-> w.lost]
  BY <1>4 DEF ConnWorlds
<1>6. World = w
  BY <1>3, <1>5 DEF World
<1>7. \A c \in Slots : conn[c].st = "none"
  BY <1>3, <1>4, NoOne
<1>8. Cardinality(cache) <= MaxCached
  BY <1>3, <1>4, FS_EmptySet, Bounds
<1>9. kill \in [KMasks -> By] /\ zap \in [ZMasks -> By] /\ rehashes \in 0 .. MaxRehash
  BY <1>3, Bounds DEF By
<1> QED BY <1>2, <1>4, <1>6, <1>7, <1>8, <1>9 DEF ConnInv, OneLink, NoneKilled

\* A connection that changes by what nothing else depends on.
LEMMA StepNudges ==
    ASSUME ConnInv, ~lost, NEW c \in Slots, NEW me, NEW q, Plain(World, c, me, q), UNCHANGED Bans,
           NEW v, v = Put(World, c, me, q), Becomes(v)
    PROVE  ConnInv'
<1>1. Goes(World, v)
  BY Nudges DEF ConnInv
<1> QED BY <1>1, Steady

\* A question that is out belongs to a connection that waits.
LEMMA Waits ==
    ASSUME ConnInv, ~lost, NEW c \in Slots
    PROVE  /\ conn \in [Slots -> Client] /\ conn[c] \in Client /\ query \in [Slots -> {"no", "ptr", "name"}]
           /\ cache \in SUBSET Range(Addr) /\ World \in ConnWorlds /\ Sound(World)
           /\ Books(World, {}, {}) /\ Seated(World) /\ Ordered(World)
           /\ query[c] # "no" => conn[c].st # "none" /\ conn[c].dns
           /\ conn[c].host => conn[c].st # "none" /\ Addr[c] \in cache
           /\ conn[c].oper # "no" => conn[c].st = "person"
           /\ conn[c].st = "none" => conn[c].confs = <<>> /\ conn[c].via = 0
  BY WorldIs DEF ConnInv, Sound, Seated, ConnWorlds

LEMMA QuitStep ==
    ASSUME ConnInv, ~lost, NEW c \in Slots, Quit(c)
    PROVE  ConnInv'
<1>1. Goes(World, exit_client(World, c))
  BY Waits, WorldIs, Exits DEF Quit, Open
<1> QED BY <1>1, Steady DEF Quit

LEMMA ReadStep ==
    ASSUME ConnInv, ~lost, NEW c \in Slots, Read(c)
    PROVE  ConnInv'
<1> DEFINE n == IF IsRegistered(World, c) THEN 0 ELSE conn[c].idle
           me == [conn[c] EXCEPT !.pung = FALSE, !.idle = n]
           z == [World EXCEPT !.conn[c].pung = FALSE,
                              !.conn[c].idle = IF IsRegistered(World, c) THEN 0 ELSE @]
<1>1. conn[c].st # "none" /\ UNCHANGED Bans
      /\ Becomes(IF conn[c].dead THEN exit_client(World, c) ELSE z)
  BY DEF Read, Open
<1>2. CASE conn[c].dead
  <2>1. Goes(World, exit_client(World, c))
    BY <1>1, Waits, WorldIs, Exits
  <2> QED BY <1>1, <1>2, <2>1, Steady
<1>3. CASE ~conn[c].dead
  <2>1. conn[c] \in Client /\ conn \in [Slots -> Client]
    BY Waits
  <2>2. conn[c].idle \in 0 .. 2 /\ n \in 0 .. 2
    BY <2>1 DEF Client
  <2>3. z = Put(World, c, me, query)
    BY <2>1, WorldIs, Zenon DEF Put, World
  <2> HIDE DEF n
  <2>4. Plain(World, c, me, query)
    BY <1>1, <2>1, <2>2, Waits, WorldIs DEF Plain, Client
  <2> HIDE DEF me, z
  <2> QED BY <1>1, <1>3, <2>3, <2>4, StepNudges
<1> QED BY <1>2, <1>3

\* A step by which nobody becomes a user or a link.
LEMMA Settles ==
    ASSUME ConnInv, ~lost, NEW v, Sound(v), Ordered(v), Becomes(v), UNCHANGED Bans, Cardinality(v.cache) <= MaxCached,
           \A d \in Slots : v.conn[d].st \in {conn[d].st, "none", "unknown", "connecting", "handshake"}
    PROVE  ConnInv'
<1>1. Admits(v)
  BY DEF Admits
<1>2. kill' = kill /\ zap' = zap /\ rehashes' = rehashes
  BY DEF Bans
<1>3. \A d \in Slots : find_kill(d)' = find_kill(d)
  BY <1>2 DEF find_kill
<1>4. kill' \in [KMasks -> By] /\ zap' \in [ZMasks -> By] /\ rehashes' \in 0 .. MaxRehash
  BY <1>2 DEF ConnInv
<1> QED BY <1>1, <1>3, <1>4, Stepped

\* No step is taken by which the server is lost.
LEMMA Losing ==
    ASSUME ConnInv, ~lost, Becomes(Lost(World)), UNCHANGED Bans
    PROVE  ConnInv'
<1>1. Goes(World, Lost(World))
  BY LostGoes DEF ConnInv
<1> QED BY <1>1, Steady

LEMMA DeadLinkStep ==
    ASSUME ConnInv, ~lost, NEW c \in Slots, dead_link(c)
    PROVE  ConnInv'
<1> DEFINE me == [conn[c] EXCEPT !.dead = TRUE]
           z == [World EXCEPT !.conn[c].dead = TRUE]
<1>1. conn[c].st # "none" /\ UNCHANGED Bans /\ Becomes(z)
  BY DEF dead_link, Open
<1>2. conn[c] \in Client /\ conn \in [Slots -> Client]
  BY Waits
<1>3. z = Put(World, c, me, query)
  BY <1>2, WorldIs, Zenon DEF Put, World
<1>4. Plain(World, c, me, query)
  BY <1>1, <1>2, Waits, WorldIs DEF Plain, Client
<1> HIDE DEF me, z
<1> QED BY <1>1, <1>3, <1>4, StepNudges

LEMMA AgeStep ==
    ASSUME ConnInv, ~lost, NEW c \in Slots, Age(c)
    PROVE  ConnInv'
<1> DEFINE n == conn[c].idle + 1
           me == [conn[c] EXCEPT !.idle = n]
           z == [World EXCEPT !.conn[c].idle = @ + 1]
<1>1. conn[c].st # "none" /\ UNCHANGED Bans /\ Becomes(z)
      /\ conn[c].idle < IF IsRegistered(World, c) THEN 2 ELSE 1
  BY DEF Age, Open
<1>2. conn[c] \in Client /\ conn \in [Slots -> Client]
  BY Waits
<1>3. n \in 0 .. 2
  <2>1. conn[c].idle \in 0 .. 2
    BY <1>2 DEF Client
  <2> QED BY <1>1, <2>1
<1>4. z = Put(World, c, me, query)
  BY <1>2, WorldIs, Zenon DEF Put, World
<1> HIDE DEF n
<1>5. Plain(World, c, me, query)
  BY <1>1, <1>2, <1>3, Waits, WorldIs DEF Plain, Client
<1> HIDE DEF me, z
<1> QED BY <1>1, <1>4, <1>5, StepNudges

LEMMA PingsStep ==
    ASSUME ConnInv, ~lost, Pings
    PROVE  ConnInv'
<1>1. Becomes(check_pings(World, {})) /\ UNCHANGED Bans
  BY DEF Pings
<1>2. Goes(World, check_pings(World, {}))
  BY Pinged DEF ConnInv
<1> QED BY <1>1, <1>2, Steady

\* A connection has its answer, or gives up.
LEMMA ResolvedIs ==
    ASSUME NEW w, Sound(w), NEW c \in Slots, w.conn[c].st # "none"
    PROVE  /\ Goes(w, Resolved(w, c)) /\ Resolved(w, c).cache = w.cache
           /\ Resolved(w, c).lost = w.lost /\ Resolved(w, c).line = w.line
           /\ Resolved(w, c).query = [w.query EXCEPT ![c] = "no"]
           /\ \A d \in Slots : Resolved(w, c).conn[d].st = w.conn[d].st
<1> DEFINE me == [w.conn[c] EXCEPT !.dns = FALSE, !.read = TRUE]
           q == [w.query EXCEPT ![c] = "no"]
           z == Resolved(w, c)
<1>1. w \in ConnWorlds /\ w.conn \in [Slots -> Client] /\ w.conn[c] \in Client
      /\ w.query \in [Slots -> {"no", "ptr", "name"}]
  BY DEF Sound, ConnWorlds
<1>2. w = [conn |-> w.conn, query |-> w.query, cache |-> w.cache, line |-> w.line, order |-> w.order,
           cls |-> w.cls, classlist |-> w.classlist, config |-> w.config, lost |-> w.lost]
  BY <1>1 DEF ConnWorlds
<1>3. z = Put(w, c, me, q)
  BY <1>1, <1>2 DEF Put, Resolved, del_queries
<1>4. me \in Client /\ q[c] = "no" /\ me.st = w.conn[c].st
  BY <1>1 DEF Client
<1>5. Plain(w, c, me, q)
  BY <1>1, <1>4 DEF Plain, Client
<1>6. z.cache = w.cache /\ z.lost = w.lost /\ z.line = w.line /\ z.query = q
      /\ z.conn = [w.conn EXCEPT ![c] = me]
  <2> HIDE DEF me, q, z
  <2> QED BY <1>2, <1>3 DEF Put
<1> HIDE DEF me, q, z
<1>7. \A d \in Slots : z.conn[d].st = w.conn[d].st
  BY <1>1, <1>4, <1>6
<1>8. Goes(w, z)
  BY <1>3, <1>5, Nudges
<1> QED BY <1>6, <1>7, <1>8 DEF z, q

\* The entry that a connection points to is put into the cache.
LEMMA CachedIs ==
    ASSUME NEW w, Sound(w), NEW c \in Slots, w.conn[c].st # "none", NEW v, v = Cached(w, c)
    PROVE  /\ Sound(v) /\ v.cache = w.cache \cup {Addr[c]} /\ v.lost = w.lost /\ v.query = w.query
           /\ (Ordered(w) => Ordered(v))
           /\ \A d \in Slots : v.conn[d].st = w.conn[d].st
<1> DEFINE me == [w.conn[c] EXCEPT !.host = TRUE]
<1>1. /\ w \in ConnWorlds /\ w.conn \in [Slots -> Client] /\ w.conn[c] \in Client
      /\ w.cache \in SUBSET Range(Addr) /\ Addr[c] \in Range(Addr)
  BY ConnAssumption DEF Sound, ConnWorlds, Range
<1>2. me \in Client /\ me.confs = w.conn[c].confs /\ me.via = w.conn[c].via /\ me.oper = w.conn[c].oper
      /\ me.st = w.conn[c].st /\ me.dns = w.conn[c].dns
  BY <1>1 DEF Client
<1>3. v = [w EXCEPT !.cache = w.cache \cup {Addr[c]}, !.conn = [w.conn EXCEPT ![c] = me]]
  BY <1>1 DEF Cached, ConnWorlds
<1> HIDE DEF me
<1>4. /\ v \in ConnWorlds /\ v.conn = [w.conn EXCEPT ![c] = me] /\ v.line = w.line /\ v.cls = w.cls
      /\ v.query = w.query /\ v.cache = w.cache \cup {Addr[c]} /\ v.lost = w.lost /\ v.order = w.order
  <2> DEFINE all == [w.conn EXCEPT ![c] = me]
             as == w.cache \cup {Addr[c]}
  <2>1. all \in [Slots -> Client] /\ as \in SUBSET Range(Addr)
    BY <1>1, <1>2
  <2>2. v = [w EXCEPT !.cache = as, !.conn = all]
    BY <1>3
  <2> HIDE DEF all, as
  <2>3. v \in ConnWorlds /\ v.conn = all /\ v.line = w.line /\ v.cls = w.cls
        /\ v.query = w.query /\ v.cache = as /\ v.lost = w.lost /\ v.order = w.order
    BY <1>1, <2>1, <2>2 DEF ConnWorlds
  <2> QED BY <2>3 DEF all, as
<1>5. v.conn[c] = me /\ \A d \in Slots : d # c => v.conn[d] = w.conn[d]
  BY <1>1, <1>4
<1>6. Worn(w, v, {}) /\ Remains(w, v)
  BY <1>2, <1>4, <1>5 DEF Worn, Remains
<1>7. Books(w, {}, {}) => Books(v, {}, {})
  BY <1>1, <1>4, <1>6, BooksStay
<1>8. Seated(w) => Seated(v)
  <2> SUFFICES ASSUME Seated(w), NEW d \in Slots
               PROVE  /\ v.conn[d].st = "none" => v.conn[d].confs = <<>> /\ v.conn[d].via = 0
                      /\ v.conn[d].oper # "no" => v.conn[d].st = "person"
                      /\ v.query[d] # "no" => v.conn[d].st # "none" /\ v.conn[d].dns
                      /\ v.conn[d].host => v.conn[d].st # "none" /\ Addr[d] \in v.cache
    BY DEF Seated
  <2>1. /\ w.conn[d].st = "none" => w.conn[d].confs = <<>> /\ w.conn[d].via = 0
        /\ w.conn[d].oper # "no" => w.conn[d].st = "person"
        /\ w.query[d] # "no" => w.conn[d].st # "none" /\ w.conn[d].dns
        /\ w.conn[d].host => w.conn[d].st # "none" /\ Addr[d] \in w.cache
    BY DEF Seated
  <2>2. CASE d = c
    BY <1>2, <1>4, <1>5, <2>1, <2>2
  <2>3. CASE d # c
    BY <1>4, <1>5, <2>1, <2>3
  <2> QED BY <2>2, <2>3
<1>9. \A d \in Slots : v.conn[d].st = w.conn[d].st
  BY <1>2, <1>5
<1>10. Ordered(w) => Ordered(v)
  BY <1>4, SameOrders
<1> QED BY <1>4, <1>7, <1>8, <1>9, <1>10 DEF Sound

\* It is the same of the world of the server.
LEMMA ResolvedHere ==
    ASSUME ConnInv, ~lost, NEW c \in Slots, conn[c].st # "none", NEW x, x = Resolved(World, c)
    PROVE  /\ Goes(World, x) /\ x.cache = cache /\ x.lost = lost
           /\ x.query = [query EXCEPT ![c] = "no"] /\ \A d \in Slots : x.conn[d].st = conn[d].st
<1>1. Sound(World) /\ World.conn[c].st # "none"
  BY Waits, WorldIs
<1>2. /\ Goes(World, x) /\ x.cache = World.cache /\ x.lost = World.lost
      /\ x.query = [World.query EXCEPT ![c] = "no"] /\ \A d \in Slots : x.conn[d].st = World.conn[d].st
  BY <1>1, ResolvedIs
<1> HIDE DEF World
<1> QED BY <1>2, WorldIs

LEMMA DnsTimeoutStep ==
    ASSUME ConnInv, ~lost, NEW c \in Slots, DnsTimeout(c)
    PROVE  ConnInv'
<1>1. query[c] # "no" /\ Becomes(Resolved(World, c)) /\ UNCHANGED Bans
  BY DEF DnsTimeout
<1>2. Goes(World, Resolved(World, c))
  BY <1>1, Waits, WorldIs, ResolvedIs
<1> QED BY <1>1, <1>2, Steady

LEMMA ExpireStep ==
    ASSUME ConnInv, ~lost, NEW a, ExpireCache(a)
    PROVE  ConnInv'
<1>1. Becomes(rem_cache(World, {a})) /\ UNCHANGED Bans
  BY DEF ExpireCache
<1>2. Goes(World, rem_cache(World, {a}))
  BY RemCache DEF ConnInv
<1> QED BY <1>1, <1>2, Steady

\* The name is asked for: the same connection waits.
LEMMA AskStep ==
    ASSUME ConnInv, ~lost, NEW c \in Slots, query[c] = "ptr", query' = [query EXCEPT ![c] = "name"],
           UNCHANGED <<conn, cache, line, order, cls, classlist, config, lost>>, UNCHANGED Bans
    PROVE  ConnInv'
<1> DEFINE q == [query EXCEPT ![c] = "name"]
           v == [World EXCEPT !.query = q]
<1>1. World \in ConnWorlds /\ query \in [Slots -> {"no", "ptr", "name"}] /\ Sound(World)
      /\ Books(World, {}, {}) /\ Seated(World)
  BY Waits
<1>2. q \in [Slots -> {"no", "ptr", "name"}] /\ \A d \in Slots : q[d] # "no" => query[d] # "no"
  BY <1>1
<1>3. q = query'
  OBVIOUS
<1> HIDE DEF q
<1>4. /\ v.conn = conn /\ v.query = q /\ v.cache = cache /\ v.line = line /\ v.order = order
      /\ v.cls = cls /\ v.classlist = classlist /\ v.config = config /\ v.lost = lost
  BY DEF World
<1>5. v \in ConnWorlds
  BY <1>1, <1>2 DEF ConnWorlds
<1> HIDE DEF v
<1>6. Becomes(v)
  BY <1>3, <1>4 DEF Becomes
<1>7. Worn(World, v, {}) /\ Remains(World, v)
  BY <1>4, WorldIs DEF Worn, Remains
<1>8. Books(v, {}, {})
  BY <1>1, <1>4, <1>5, <1>7, WorldIs, BooksStay
<1>9. Seated(v)
  BY <1>1, <1>2, <1>4, WorldIs DEF Seated
<1>11. Ordered(World) => Ordered(v)
  BY <1>4, WorldIs, SameOrders
<1>10. Goes(World, v)
  BY <1>4, <1>5, <1>8, <1>9, <1>11, WorldIs DEF Goes, Sound
<1> QED BY <1>6, <1>10, Steady

LEMMA AnswerStep ==
    ASSUME ConnInv, ~lost, NEW c \in Slots, Answer(c)
    PROVE  ConnInv'
<1> DEFINE x == Resolved(World, c)
           v == Cached(x, c)
<1>1. query[c] = "ptr" /\ UNCHANGED Bans /\ UNCHANGED <<line, order, cls, classlist, config, lost>>
      /\ \/ query' = [query EXCEPT ![c] = "name"] /\ UNCHANGED <<conn, cache>>
         \/ /\ Addr[c] \in cache /\ conn' = v.conn /\ query' = [query EXCEPT ![c] = "no"] /\ UNCHANGED cache
  BY DEF Answer
<1>2. CASE query' = [query EXCEPT ![c] = "name"] /\ UNCHANGED <<conn, cache>>
  BY <1>1, <1>2, AskStep
<1>3. CASE Addr[c] \in cache /\ conn' = v.conn /\ query' = [query EXCEPT ![c] = "no"] /\ UNCHANGED cache
  <2>1. conn[c].st # "none"
    BY <1>1, Waits
  <2>2. /\ Goes(World, x) /\ x.cache = cache /\ x.lost = lost /\ x.query = query'
        /\ \A d \in Slots : x.conn[d].st = conn[d].st
    BY <1>3, <2>1, ResolvedHere
  <2>3. x.line = line /\ x.order = order /\ x.cls = cls /\ x.classlist = classlist /\ x.config = config
    BY DEF Resolved, del_queries, World
  <2> HIDE DEF x
  <2>4. /\ v.line = x.line /\ v.order = x.order /\ v.cls = x.cls /\ v.classlist = x.classlist
        /\ v.config = x.config
    <3>1. x = [conn |-> x.conn, query |-> x.query, cache |-> x.cache, line |-> x.line, order |-> x.order,
               cls |-> x.cls, classlist |-> x.classlist, config |-> x.config, lost |-> x.lost]
      BY <2>2 DEF Goes, Sound, ConnWorlds
    <3> QED BY <3>1 DEF Cached
  <2>5. x.conn[c].st # "none"
    BY <2>1, <2>2
  <2>6. /\ Sound(v) /\ v.cache = x.cache \cup {Addr[c]} /\ v.lost = x.lost /\ v.query = x.query
        /\ (Ordered(x) => Ordered(v))
        /\ \A d \in Slots : v.conn[d].st = x.conn[d].st
    BY <2>2, <2>5, CachedIs DEF Goes
  <2> HIDE DEF v
  <2>7. v.cache = cache
    BY <1>3, <2>2, <2>6
  <2>8. Becomes(v)
    BY <1>1, <1>3, <2>2, <2>3, <2>4, <2>6, <2>7 DEF Becomes
  <2>9. Goes(World, v)
    BY <2>2, <2>6, <2>7, WorldIs DEF Goes
  <2> QED BY <1>1, <2>8, <2>9, Steady
<1> QED BY <1>1, <1>2, <1>3

\* One more entry, and one less.
LEMMA Crowds ==
    ASSUME ConnInv, ~lost, NEW b \in Range(Addr), NEW s, s = cache \cup {b}
    PROVE  /\ IsFiniteSet(s) /\ Cardinality(s) \in Nat
           /\ \A a \in s : Cardinality(s \ {a}) <= MaxCached
<1>1. cache \in SUBSET Range(Addr) /\ Cardinality(cache) <= MaxCached
  BY Waits, WorldIs DEF ConnInv, Sound, ConnWorlds
<1>2. IsFiniteSet(cache)
  <2>1. IsFiniteSet(Slots) /\ DOMAIN Addr = Slots
    BY ConnAssumption
  <2> DEFINE f == [c \in Slots |-> Addr[c]]
  <2>2. f \in Surjection(Slots, Range(Addr))
    BY <2>1 DEF Surjection, Range
  <2>3. IsFiniteSet(Range(Addr))
    BY <2>1, <2>2, FS_Surjection
  <2> QED BY <1>1, <2>3, FS_Subset
<1>3. /\ IsFiniteSet(s)
      /\ Cardinality(s) = Cardinality(cache) \/ Cardinality(s) = Cardinality(cache) + 1
  BY <1>2, FS_AddElement
<1>4. Cardinality(cache) \in Nat /\ Cardinality(s) \in Nat
  BY <1>2, <1>3, FS_CardinalityType
<1>5. ASSUME NEW a \in s
      PROVE  Cardinality(s \ {a}) <= MaxCached
  <2>1. Cardinality(s \ {a}) = Cardinality(s) - 1
    BY <1>3, <1>5, FS_RemoveElement
  <2> QED BY <1>1, <1>3, <1>4, <2>1, Bounds
<1> QED BY <1>3, <1>4, <1>5

LEMMA DnsDoneStep ==
    ASSUME ConnInv, ~lost, NEW c \in Slots, DnsDone(c)
    PROVE  ConnInv'
<1> DEFINE x == Resolved(World, c)
           w == Cached(x, c)
<1>1. /\ query[c] = "name" /\ UNCHANGED Bans
      /\ \/ Cardinality(w.cache) <= MaxCached /\ Becomes(w)
         \/ \E a \in Crowded(w) : Becomes(rem_cache(w, {a}))
  BY DEF DnsDone
<1>2. conn[c].st # "none" /\ Addr[c] \in Range(Addr)
  BY <1>1, Waits, ConnAssumption DEF Range
<1>3. Goes(World, x) /\ Ordered(x) /\ x.cache = cache /\ \A d \in Slots : x.conn[d].st = conn[d].st
  <2>1. Goes(World, x) /\ x.cache = cache /\ \A d \in Slots : x.conn[d].st = conn[d].st
    BY <1>2, ResolvedHere
  <2> HIDE DEF x
  <2> QED BY <2>1 DEF Goes, ConnInv
<1> HIDE DEF x
<1>4. x.conn[c].st # "none"
  BY <1>2, <1>3
<1>5. Sound(w) /\ Ordered(w) /\ w.cache = cache \cup {Addr[c]} /\ \A d \in Slots : w.conn[d].st = conn[d].st
  BY <1>3, <1>4, CachedIs DEF Goes
<1> HIDE DEF w
<1>6. CASE Cardinality(w.cache) <= MaxCached /\ Becomes(w)
  BY <1>1, <1>5, <1>6, Settles
<1>7. CASE \E a \in Crowded(w) : Becomes(rem_cache(w, {a}))
  <2>1. PICK a \in Crowded(w) : Becomes(rem_cache(w, {a}))
    BY <1>7
  <2> DEFINE v == rem_cache(w, {a})
  <2>2. a \in w.cache
    BY <2>1 DEF Crowded
  <2>3. /\ Goes(w, v) /\ v.cache = w.cache \ {a}
        /\ \A d \in Slots : v.conn[d].st = w.conn[d].st
    BY <1>5, RemCache
  <2> HIDE DEF v
  <2>4. Cardinality(v.cache) <= MaxCached
    BY <1>2, <1>5, <2>2, <2>3, Crowds
  <2>5. Sound(v) /\ Ordered(v) /\ \A d \in Slots : v.conn[d].st = conn[d].st
    BY <1>5, <2>3 DEF Goes
  <2>6. Becomes(v)
    BY <2>1 DEF v
  <2> QED BY <1>1, <2>4, <2>5, <2>6, Settles
<1> QED BY <1>1, <1>6, <1>7

\* A connection comes, through the listener i, and is counted there.
LEMMA Arrives ==
    ASSUME NEW w \in ConnWorlds, NEW v \in ConnWorlds, Books(w, {}, {}), NEW c \in Slots,
           NEW i \in 0 .. MaxLine, i # 0 => w.line[i].legal /\ w.line[i].kind = "P",
           w.conn[c].confs = <<>>, w.conn[c].via = 0,
           v.conn[c].confs = <<>>, v.conn[c].via = i, v.conn[c].oper = "no",
           \A d \in Slots : d # c => v.conn[d] = w.conn[d], v.cls = w.cls,
           v.line = IF i = 0 THEN w.line
                    ELSE [w.line EXCEPT ![i] = [w.line[i] EXCEPT !.clients = w.line[i].clients + 1]]
    PROVE  Books(v, {}, {})
<1>1. /\ \A d \in Slots : w.conn[d] \in Client
      /\ \A j \in Lines : w.line[j] \in Line /\ w.line[j].clients \in Int
  BY DEF ConnWorlds, Line
<1>2. (i # 0 => i \in Lines) /\ 0 \notin Lines /\ \A x \in 0 .. MaxLine : x # 0 => x \in Lines
  BY ConnAssumption DEF Lines
<1>3. \A j \in Lines : /\ j # i => v.line[j] = w.line[j]
                       /\ j = i => v.line[j] = [w.line[j] EXCEPT !.clients = w.line[j].clients + 1]
  <2> SUFFICES ASSUME NEW j \in Lines
               PROVE  /\ j # i => v.line[j] = w.line[j]
                      /\ j = i => v.line[j] = [w.line[j] EXCEPT !.clients = w.line[j].clients + 1]
    OBVIOUS
  <2> DEFINE more == [w.line[i] EXCEPT !.clients = w.line[i].clients + 1]
  <2>1. v.line = IF i = 0 THEN w.line ELSE [w.line EXCEPT ![i] = more]
    OBVIOUS
  <2> HIDE DEF more
  <2>2. v.line[j] = IF j = i THEN more ELSE w.line[j]
    <3>1. DOMAIN w.line = Lines /\ w.line = [x \in Lines |-> w.line[x]]
      BY DEF ConnWorlds
    <3>2. CASE i = 0
      BY <1>2, <2>1, <3>2
    <3>3. CASE i # 0
      BY <1>2, <2>1, <3>1, <3>3
    <3> QED BY <3>2, <3>3
  <2> QED BY <2>2 DEF more
<1>4. \A j \in Lines : /\ v.line[j].kind = w.line[j].kind /\ v.line[j].legal = w.line[j].legal
                       /\ v.line[j].class = w.line[j].class
                       /\ (w.line[j].kind # "P" => v.line[j] = w.line[j])
  BY <1>1, <1>2, <1>3 DEF Line
<1>5. \A d \in Slots : v.conn[d].confs = w.conn[d].confs
  OBVIOUS
<1>6. \A d \in Slots : \A j : is_attached(v, d, j) <=> is_attached(w, d, j)
  BY <1>5 DEF is_attached
<1>7. \A j : Held(v, j) = Held(w, j)
  BY <1>6 DEF Held
<1>8. \A d \in Slots : Range(w.conn[d].confs) \subseteq Lines
  BY <1>1, RangeIn DEF Lines, Client
<1>9. Hung(v) /\ Freed(v)
  <2>1. Hung(v)
    BY <1>4, <1>5, <1>8 DEF Books, Hung
  <2>2. Freed(v)
    BY <1>4 DEF Books, Freed
  <2> QED BY <2>1, <2>2
<1>10. Tallied(v)
  <2> SUFFICES ASSUME NEW j \in Lines, v.line[j].kind \notin {"P", "free"}
               PROVE  v.line[j].clients = Cardinality(Held(v, j))
    BY DEF Tallied
  <2>1. w.line[j].kind \notin {"P", "free"} /\ v.line[j] = w.line[j]
    BY <1>4
  <2>2. w.line[j].clients = Cardinality(Held(w, j))
    BY <2>1 DEF Books, Tallied
  <2> QED BY <1>7, <2>1, <2>2
<1>11. Heard(v)
  <2> SUFFICES ASSUME NEW d \in Slots, v.conn[d].via # 0, v.line[v.conn[d].via].legal
               PROVE  v.line[v.conn[d].via].kind = "P"
    BY DEF Heard
  <2>1. CASE d = c
    BY <1>2, <1>4, <2>1
  <2>2. CASE d # c
    <3> DEFINE j == w.conn[d].via
    <3>1. j \in Lines /\ v.conn[d].via = j /\ j # 0
      BY <1>1, <1>2, <2>2 DEF Client
    <3>2. w.line[j].legal
      BY <1>4, <3>1
    <3>3. w.line[j].kind = "P"
      BY <3>1, <3>2 DEF Books, Heard
    <3> HIDE DEF j
    <3> QED BY <1>4, <3>1, <3>3
  <2> QED BY <2>1, <2>2
<1>12. Lettered(v, {})
  <2> SUFFICES ASSUME NEW d \in Slots, v.conn[d].oper = "glob"
               PROVE  \E j \in Range(v.conn[d].confs) : v.line[j].kind \in Operators
    BY DEF Lettered
  <2>1. d # c /\ v.conn[d] = w.conn[d]
    OBVIOUS
  <2>2. PICK j \in Range(w.conn[d].confs) : w.line[j].kind \in Operators
    BY <2>1 DEF Books, Lettered
  <2> QED BY <1>4, <1>5, <1>8, <2>2
<1>13. Listened(v, {})
  <2> SUFFICES ASSUME NEW j \in Lines, v.line[j].kind = "P", v.line[j].legal
               PROVE  v.line[j].clients = Cardinality(Accepted(v, j))
    <3>1. \A j : Accepted(v, j) \ {} = Accepted(v, j)
      OBVIOUS
    <3> QED BY <3>1 DEF Listened
  <2> DEFINE A == Accepted(w, j)
  <2>1. w.line[j].clients = Cardinality(A)
    <3>1. A \ {} = A
      OBVIOUS
    <3> QED BY <1>4, <3>1 DEF Books, Listened
  <2>2. IsFiniteSet(A) /\ c \notin A /\ Accepted(v, j) = IF j = i THEN A \cup {c} ELSE A
    BY <1>2, ConnAssumption, FS_Subset DEF Accepted
  <2> HIDE DEF A
  <2>3. CASE j = i
    <3>1. Cardinality(A \cup {c}) = Cardinality(A) + 1
      BY <2>2, FS_AddElement
    <3>2. v.line[j].clients = w.line[j].clients + 1
      BY <1>1, <1>3, <2>3 DEF Line
    <3> QED BY <2>1, <2>2, <2>3, <3>1, <3>2
  <2>4. CASE j # i
    BY <1>3, <2>1, <2>2, <2>4
  <2> QED BY <2>3, <2>4
<1>14. Classed(v)
  <2>1. \A k \in 1 .. MaxClass : Attached(v, k) = Attached(w, k)
    BY <1>4, <1>6 DEF Attached, Lines
  <2> QED BY <2>1 DEF Books, Classed
<1> QED BY <1>9, <1>10, <1>11, <1>12, <1>13, <1>14 DEF Books

\* The state of a new connection, and the question that is asked for it.
Newly(w, me, i, a, ask) ==
    /\ me \in Client /\ me.st \in {"unknown", "connecting"} /\ me.confs = <<>> /\ me.via = i
    /\ me.oper = "no" /\ (me.host => a \in w.cache)
    /\ ask \in {"no", "ptr"} /\ (ask = "no" \/ me.dns)

\* The connection is there, and counted by its listener.
Joined(w, v, c, i, me, ask) ==
    /\ v.conn = [w.conn EXCEPT ![c] = me] /\ v.query = [w.query EXCEPT ![c] = ask]
    /\ v.cache = w.cache /\ v.cls = w.cls /\ v.lost = w.lost /\ IsInjective(v.order)
    /\ Range(v.order) = Range(w.order)
    /\ v.line = IF i = 0 THEN w.line
                ELSE [w.line EXCEPT ![i] = [w.line[i] EXCEPT !.clients = w.line[i].clients + 1]]
    /\ i # 0 => w.line[i].legal /\ w.line[i].kind = "P"

\* The world in which the connection is there.
LEMMA Opens ==
    ASSUME NEW w, Sound(w), Ordered(w), ~w.lost, NEW c \in Slots, w.conn[c].st = "none", NEW i \in 0 .. MaxLine,
           NEW me, NEW ask, Newly(w, me, i, Addr[c], ask), NEW v \in ConnWorlds, Joined(w, v, c, i, me, ask)
    PROVE  /\ Sound(v) /\ Ordered(v) /\ v.conn[c].st = me.st
           /\ \A d \in Slots : d # c => v.conn[d] = w.conn[d]
<1>1. /\ w \in ConnWorlds /\ w.conn \in [Slots -> Client] /\ w.query \in [Slots -> {"no", "ptr", "name"}]
      /\ Books(w, {}, {}) /\ Seated(w)
  BY DEF Sound, ConnWorlds
<1>0. /\ v.conn = [w.conn EXCEPT ![c] = me] /\ v.query = [w.query EXCEPT ![c] = ask]
      /\ v.cache = w.cache /\ v.cls = w.cls /\ v.lost = w.lost
      /\ v.line = IF i = 0 THEN w.line
                  ELSE [w.line EXCEPT ![i] = [w.line[i] EXCEPT !.clients = w.line[i].clients + 1]]
      /\ i # 0 => w.line[i].legal /\ w.line[i].kind = "P"
  BY DEF Joined
<1>2. v.conn[c] = me /\ \A d \in Slots : d # c => v.conn[d] = w.conn[d]
  BY <1>0, <1>1
<1>3. v.query[c] = ask /\ \A d \in Slots : d # c => v.query[d] = w.query[d]
  BY <1>0, <1>1
<1>4. w.conn[c].confs = <<>> /\ w.conn[c].via = 0
  BY <1>1 DEF Seated
<1>5. v.conn[c].confs = <<>> /\ v.conn[c].via = i /\ v.conn[c].oper = "no"
  BY <1>2 DEF Newly
<1>6. Books(v, {}, {})
  BY ONLY <1>0, <1>1, <1>2, <1>4, <1>5, Arrives, v \in ConnWorlds, c \in Slots, i \in 0 .. MaxLine
<1>7. Seated(v)
  <2> SUFFICES ASSUME NEW d \in Slots
               PROVE  /\ v.conn[d].st = "none" => v.conn[d].confs = <<>> /\ v.conn[d].via = 0
                      /\ v.conn[d].oper # "no" => v.conn[d].st = "person"
                      /\ v.query[d] # "no" => v.conn[d].st # "none" /\ v.conn[d].dns
                      /\ v.conn[d].host => v.conn[d].st # "none" /\ Addr[d] \in v.cache
    BY DEF Seated
  <2>1. CASE d = c
    BY <1>0, <1>2, <1>3, <2>1 DEF Newly
  <2>2. CASE d # c
    BY <1>0, <1>1, <1>2, <1>3, <2>2 DEF Seated
  <2> QED BY <2>1, <2>2
<1>8. Ordered(v)
  <2> DEFINE more == [w.line[i] EXCEPT !.clients = w.line[i].clients + 1]
  <2>1. \A j \in Lines : w.line[j] \in Line
    BY <1>1 DEF ConnWorlds
  <2>2. i \in Lines => more.legal = w.line[i].legal /\ more.kind = w.line[i].kind
    BY <2>1 DEF Line
  <2>3. \A j \in Lines : v.line[j] = w.line[j] \/ (j = i /\ v.line[j] = more)
    <3>1. v.line = w.line \/ v.line = [w.line EXCEPT ![i] = more]
      BY <1>0
    <3>2. DOMAIN w.line = Lines
      BY <1>1 DEF ConnWorlds
    <3> HIDE DEF more
    <3> QED BY <3>1, <3>2
  <2> HIDE DEF more
  <2>4. \A j \in Lines : v.line[j].legal = w.line[j].legal /\ v.line[j].kind = w.line[j].kind
    BY <2>2, <2>3
  <2>5. IsInjective(v.order) /\ Range(v.order) = Range(w.order) /\ Ordered(w)
    BY DEF Joined
  <2> QED BY ONLY <2>4, <2>5 DEF Ordered, Placed
<1> QED BY <1>0, <1>2, <1>6, <1>7, <1>8 DEF Sound

LEMMA AcceptStep ==
    ASSUME ConnInv, ~lost, NEW c \in Slots, NEW i \in DOMAIN line, Accept(c, i)
    PROVE  ConnInv'
<1> DEFINE known == Addr[c] \in cache \/ "resolver" \notin focus
           me == [Fresh EXCEPT !.via = i, !.dns = ~known, !.read = known, !.host = Addr[c] \in cache]
           ask == IF known THEN "no" ELSE "ptr"
           z == [World EXCEPT !.conn[c] = me, !.line[i].clients = @ + 1, !.query[c] = ask]
           more == [line[i] EXCEPT !.clients = line[i].clients + 1]
<1>1. /\ conn[c].st = "none" /\ IsLine(World, i, {"P"}) /\ UNCHANGED Bans
      /\ Becomes(IF find_zap(c) THEN Lost(World) ELSE z)
  BY DEF Accept, Open
<1>2. CASE find_zap(c)
  BY <1>1, <1>2, Losing
<1>3. CASE ~find_zap(c)
  <2>1. /\ World \in ConnWorlds /\ Sound(World) /\ conn \in [Slots -> Client]
        /\ query \in [Slots -> {"no", "ptr", "name"}] /\ line \in [Lines -> Line]
    BY Waits, WorldIs DEF ConnWorlds
  <2>2. i \in Lines /\ i \in 0 .. MaxLine /\ i # 0 /\ line[i].legal /\ line[i].kind = "P"
    <3>1. i \in Lines /\ MaxLine \in Nat
      BY <2>1, Bounds
    <3>2. line[i].legal /\ line[i].kind = "P"
      BY <1>1, WorldIs DEF IsLine
    <3> QED BY <3>1, <3>2 DEF Lines
  <2>3. known \in BOOLEAN /\ (Addr[c] \in cache) \in BOOLEAN
    OBVIOUS
  <2>4. more \in Line
    <3>1. line[i] \in Line /\ line[i].clients + 1 \in Int
      BY <2>1, <2>2 DEF Line
    <3> QED BY <3>1 DEF Line
  <2>5. z = [World EXCEPT !.conn = [conn EXCEPT ![c] = me], !.line = [line EXCEPT ![i] = more],
                          !.query = [query EXCEPT ![c] = ask]]
    BY WorldIs DEF World
  <2>6. /\ me.st = "unknown" /\ me.confs = <<>> /\ me.via = i /\ me.oper = "no" /\ me.dns = ~known
        /\ me.host = (Addr[c] \in cache) /\ me \in Client
    <3> HIDE DEF known
    <3>1. Fresh \in Client /\ Fresh.st = "unknown" /\ Fresh.confs = <<>> /\ Fresh.oper = "no"
      BY Nothing DEF Fresh, NoConn, Client
    <3> QED BY <2>2, <2>3, <3>1 DEF Client
  <2>7. Newly(World, me, i, Addr[c], ask)
    <3> HIDE DEF me, known
    <3> QED BY <2>6, WorldIs DEF Newly
  <2>8. ask \in {"no", "ptr", "name"}
    OBVIOUS
  <2> HIDE DEF me, ask, more, known, z
  <2>9. /\ z \in ConnWorlds /\ z.conn = [conn EXCEPT ![c] = me] /\ z.query = [query EXCEPT ![c] = ask]
        /\ z.line = [line EXCEPT ![i] = more] /\ z.cls = cls /\ z.cache = cache /\ z.lost = lost
        /\ z.order = order
    <3> DEFINE C == [conn EXCEPT ![c] = me]
               Q == [query EXCEPT ![c] = ask]
               L == [line EXCEPT ![i] = more]
    <3>1. C \in [Slots -> Client] /\ Q \in [Slots -> {"no", "ptr", "name"}] /\ L \in [Lines -> Line]
      BY <2>1, <2>4, <2>6, <2>8
    <3>2. z = [World EXCEPT !.conn = C, !.line = L, !.query = Q]
      BY <2>5
    <3> HIDE DEF C, Q, L
    <3>3. /\ z \in ConnWorlds /\ z.conn = C /\ z.query = Q
          /\ z.line = L /\ z.cls = World.cls /\ z.cache = World.cache /\ z.lost = World.lost
          /\ z.order = World.order
      BY <2>1, <3>1, <3>2 DEF ConnWorlds
    <3> QED BY <3>3, WorldIs DEF C, Q, L
  <2>10. World.conn[c].st = "none" /\ ~World.lost /\ Sound(World) /\ Ordered(World) /\ Joined(World, z, c, i, me, ask)
    <3>1. lost = FALSE
      BY <2>1, WorldIs DEF ConnWorlds
    <3>2. Ordered(World) /\ IsInjective(z.order) /\ Range(z.order) = Range(World.order)
      BY <2>9, WorldIs DEF ConnInv, Ordered, Placed
    <3> QED BY <1>1, <2>1, <2>2, <2>9, <3>1, <3>2, WorldIs DEF Joined, more
  <2>11. /\ Sound(z) /\ Ordered(z) /\ z.conn[c].st = me.st
         /\ \A d \in Slots : d # c => z.conn[d] = World.conn[d]
    <3>1. z \in ConnWorlds /\ i \in 0 .. MaxLine
      BY <2>2, <2>9
    <3> QED BY ONLY <2>7, <2>10, <3>1, Opens, c \in Slots
  <2>12. \A d \in Slots : z.conn[d].st \in {conn[d].st, "none", "unknown", "connecting", "handshake"}
    BY <2>6, <2>11, WorldIs DEF me
  <2>13. Cardinality(z.cache) <= MaxCached
    BY <2>9 DEF ConnInv
  <2> QED BY <1>1, <1>3, <2>11, <2>12, <2>13, Settles
<1> QED BY <1>2, <1>3

LEMMA Numbers == {0, 1, 2} \subseteq 0 .. 2 /\ 0 \in 0 .. 2 /\ 2 \in 0 .. 2
  OBVIOUS

\* A sound world in which lines were attached and detached is sound.
LEMMA KinGoes ==
    ASSUME NEW w, Sound(w), NEW v, Fit(v, {}, {}), Kin(w, v)
    PROVE  Goes(w, v) /\ v.cache = w.cache /\ \A d \in Slots : v.conn[d].st = w.conn[d].st
<1>1. /\ v.cache = w.cache /\ (w.lost => v.lost) /\ \A d \in Slots : v.conn[d].st = w.conn[d].st
  BY DEF Kin, Alike
<1>2. Sound(v)
  BY <1>1, KinSeats DEF Sound, Fit
<1>3. Ordered(w) => Ordered(v)
  BY KinOrders
<1> QED BY <1>1, <1>2, <1>3 DEF Goes

LEMMA FitHere ==
    ASSUME ConnInv, ~lost
    PROVE  Fit(World, {}, {}) /\ \A O : Fit(World, O, {})
<1>1. World \in ConnWorlds /\ Books(World, {}, {})
  BY Waits, WorldIs DEF ConnInv, Sound
<1>2. \A O : Lettered(World, O)
  BY <1>1 DEF Books, Lettered
<1> QED BY <1>1, <1>2 DEF Fit, Books

\* A connection is made something, which was the same before.
LEMMA CompletedStep ==
    ASSUME ConnInv, ~lost, NEW c \in Slots, Completed(c)
    PROVE  ConnInv'
<1> DEFINE me == [conn[c] EXCEPT !.st = "handshake", !.read = TRUE]
           z == [World EXCEPT !.conn[c].st = "handshake", !.conn[c].read = TRUE]
<1>1. conn[c].st = "connecting" /\ UNCHANGED Bans /\ (Becomes(z) \/ Becomes(exit_client(World, c)))
  BY DEF Completed
<1>2. CASE Becomes(exit_client(World, c))
  <2>1. Goes(World, exit_client(World, c))
    BY <1>1, Waits, WorldIs, Exits
  <2> QED BY <1>1, <1>2, <2>1, Steady
<1>3. CASE Becomes(z)
  <2>1. conn[c] \in Client /\ conn \in [Slots -> Client] /\ conn[c].oper = "no"
    BY <1>1, Waits
  <2>2. z = Put(World, c, me, query)
    BY <2>1, WorldIs, Zenon DEF Put, World
  <2>3. me \in Client /\ me.st = "handshake" /\ me.confs = conn[c].confs /\ me.via = conn[c].via
        /\ me.host = conn[c].host /\ me.dns = conn[c].dns /\ me.oper = "no"
    BY <2>1 DEF Client
  <2> HIDE DEF me, z
  <2>4. Edits(World, c, me, query)
    BY <1>1, <2>3, WorldIs DEF Edits
  <2>5. Nearly(World, c)
    BY Waits, SoundNearly
  <2>6. /\ Sound(z) /\ z.cache = cache /\ z.conn[c] = me /\ z.line = line /\ z.order = order
        /\ \A d \in Slots : d # c => z.conn[d] = conn[d]
    BY <2>2, <2>4, <2>5, Tweaks, WorldIs
  <2>7. \A d \in Slots : z.conn[d].st \in {conn[d].st, "none", "unknown", "connecting", "handshake"}
    BY <2>3, <2>6
  <2>8. Cardinality(z.cache) <= MaxCached
    BY <2>6 DEF ConnInv
  <2>9. Ordered(z)
    BY <2>6, WorldIs, SameOrders DEF ConnInv
  <2> QED BY <1>1, <1>3, <2>6, <2>7, <2>8, <2>9, Settles
<1> QED BY <1>1, <1>2, <1>3

\* The lines that a user may come in by, or be an operator by.
LEMMA FoundIs ==
    ASSUME ConnInv, NEW c \in Slots
    PROVE  /\ find_Iline(World, c) # 0 =>
                find_Iline(World, c) \in Lines /\ line[find_Iline(World, c)].kind = "I"
           /\ find_oper(World, c) # 0 =>
                find_oper(World, c) \in Lines /\ line[find_oper(World, c)].kind \in Operators
<1>1. World.order \in Seq(1 .. MaxLine)
  BY DEF ConnInv, Sound, ConnWorlds, Lines
<1>2. find_Iline(World, c) # 0 =>
        find_Iline(World, c) \in Lines /\ IsLine(World, find_Iline(World, c), {"I"})
  BY <1>1, FirstLineIs DEF find_Iline, Lines
<1>3. find_oper(World, c) # 0 =>
        find_oper(World, c) \in Lines /\ IsLine(World, find_oper(World, c), Operators)
  BY <1>1, FirstLineIs DEF find_oper, Lines
<1> QED BY <1>2, <1>3, WorldIs DEF IsLine

\* A step by which the connection c becomes a user, whom no line bans.
LEMMA LetIn ==
    ASSUME ConnInv, ~lost, NEW c \in Slots, ~find_kill(c), NEW w, Goes(World, w), NEW v, Sound(v),
           v.line = w.line, v.order = w.order,
           v.cache = w.cache, \A d \in Slots : d # c => v.conn[d] = w.conn[d], v.conn[c].st = "person",
           Becomes(v), UNCHANGED Bans
    PROVE  ConnInv'
<1>1. Admits(v)
  BY WorldIs DEF Admits, Goes
<1>2. kill' = kill /\ zap' = zap /\ rehashes' = rehashes
  BY DEF Bans
<1>3. \A d \in Slots : find_kill(d)' = find_kill(d)
  BY <1>2 DEF find_kill
<1>4. kill' \in [KMasks -> By] /\ zap' \in [ZMasks -> By] /\ rehashes' \in 0 .. MaxRehash
  BY <1>2 DEF ConnInv
<1>5. v.cache \subseteq cache
  BY WorldIs DEF Goes
<1>6. Cardinality(v.cache) <= MaxCached
  BY <1>5, FewCached
<1>7. Ordered(v)
  BY SameOrders DEF Goes, ConnInv
<1> QED BY <1>1, <1>3, <1>4, <1>6, <1>7, Stepped

LEMMA RegisterStep ==
    ASSUME ConnInv, ~lost, NEW c \in Slots, NEW password \in BOOLEAN, Register(c, password)
    PROVE  ConnInv'
<1> DEFINE i == find_Iline(World, c)
           w == attach_conf(World, c, i)
<1>1. /\ conn[c].st = "unknown" /\ UNCHANGED Bans
      /\ Becomes(IF i = 0 \/ ~MayAttach(World, c, i) THEN exit_client(World, c)
                 ELSE IF ~password \/ find_kill(c) THEN exit_client(w, c) ELSE Welcome(w, c))
  BY DEF Register
<1>2. i # 0 => i \in Lines /\ line[i].kind = "I"
  BY FoundIs
<1> HIDE DEF i
<1>3. CASE i = 0 \/ ~MayAttach(World, c, i)
  <2>1. Goes(World, exit_client(World, c))
    BY <1>1, Waits, WorldIs, Exits
  <2> QED BY <1>1, <1>3, <2>1, Steady
<1>4. CASE i # 0 /\ MayAttach(World, c, i)
  <2>1. Fit(World, {}, {}) /\ World.conn[c].st # "none" /\ World.line[i].kind \notin {"P", "free"} /\ i \in Lines
    BY <1>1, <1>2, <1>4, FitHere, WorldIs
  <2>2. Fit(w, {}, {}) /\ Kin(World, w)
    <3>1. ASSUME NEW O, NEW V, Fit(World, O, V)
          PROVE  Fit(w, O, V) /\ Kin(World, w)
      BY <2>1, <3>1, Attaches
    <3> QED BY <2>1, <3>1
  <2>3. Goes(World, w) /\ Sound(w) /\ w.conn[c].st = "unknown"
    <3>1. Sound(World)
      BY DEF ConnInv
    <3> QED BY <1>1, <2>2, <3>1, KinGoes, WorldIs DEF Goes
  <2> HIDE DEF w
  <2>4. CASE ~password \/ find_kill(c)
    <3>1. Goes(w, exit_client(w, c))
      BY <2>3, Exits
    <3>2. Goes(World, exit_client(w, c))
      BY <2>3, <3>1, GoesOn
    <3> QED BY <1>1, <1>4, <2>4, <3>2, Steady
  <2>5. CASE password /\ ~find_kill(c)
    <3> DEFINE h == find_ahurt(c)
               me == [w.conn[c] EXCEPT !.st = "person", !.idle = 0, !.hurt = h]
               z == Welcome(w, c)
    <3>1. w \in ConnWorlds /\ w.conn \in [Slots -> Client] /\ w.conn[c] \in Client
      BY <2>3 DEF Sound, ConnWorlds
    <3>2. w = [conn |-> w.conn, query |-> w.query, cache |-> w.cache, line |-> w.line, order |-> w.order,
               cls |-> w.cls, classlist |-> w.classlist, config |-> w.config, lost |-> w.lost]
      BY <3>1 DEF ConnWorlds
    <3>3. z = Put(w, c, me, w.query)
      BY <3>1, <3>2, Zenon DEF Put, Welcome
    <3>4. h \in BOOLEAN
      BY DEF find_ahurt
    <3> HIDE DEF h
    <3>5. /\ me \in Client /\ me.st = "person" /\ me.confs = w.conn[c].confs /\ me.via = w.conn[c].via
          /\ me.host = w.conn[c].host /\ me.dns = w.conn[c].dns /\ me.oper = w.conn[c].oper
      <4> DEFINE old == w.conn[c]
      <4>1. old \in Client
        BY <3>1
      <4> HIDE DEF old
      <4>2. /\ me \in Client /\ me.st = "person" /\ me.confs = old.confs /\ me.via = old.via
            /\ me.host = old.host /\ me.dns = old.dns /\ me.oper = old.oper
        <5>1. me = [old EXCEPT !.st = "person", !.idle = 0, !.hurt = h]
          BY DEF old
        <5> HIDE DEF me
        <5>2. me \in Client
          BY <3>4, <4>1, <5>1, Numbers DEF Client
        <5>3. /\ me.st = "person" /\ me.confs = old.confs /\ me.via = old.via
              /\ me.host = old.host /\ me.dns = old.dns /\ me.oper = old.oper
          BY <4>1, <5>1 DEF Client
        <5> QED BY <5>2, <5>3
      <4> QED BY <4>2 DEF old
    <3> HIDE DEF me, z
    <3>6. w.lost \/ w.conn[c].oper = "no"
      BY <2>3 DEF Sound, Seated
    <3>7. Edits(w, c, me, w.query)
      BY <2>3, <3>5, <3>6 DEF Edits
    <3>8. Nearly(w, c)
      BY <2>3, SoundNearly
    <3>9. /\ Sound(z) /\ z.cache = w.cache /\ z.conn[c] = me /\ z.line = w.line /\ z.order = w.order
          /\ \A d \in Slots : d # c => z.conn[d] = w.conn[d]
      BY <3>3, <3>7, <3>8, Tweaks
    <3>10. Becomes(z)
      BY <1>1, <1>4, <2>5 DEF z
    <3> QED BY <1>1, <2>3, <2>5, <3>5, <3>9, <3>10, LetIn
  <2> QED BY <2>4, <2>5
<1> QED BY <1>3, <1>4

\* A step of one connection that nobody leaves or enters by.
LEMMA Settling ==
    ASSUME ConnInv, ~lost, NEW w, Goes(World, w), NEW c \in Slots, NEW v, Sound(v), v.cache = w.cache,
           v.line = w.line, v.order = w.order,
           \A d \in Slots : d # c => v.conn[d] = w.conn[d], v.conn[c].st = w.conn[c].st,
           Becomes(v), UNCHANGED Bans
    PROVE  ConnInv'
<1>1. v.cache \subseteq cache /\ \A d \in Slots : v.conn[d].st \in {conn[d].st, "none"}
  BY WorldIs DEF Goes
<1>2. Cardinality(v.cache) <= MaxCached
  BY <1>1, FewCached
<1>3. Ordered(v)
  BY SameOrders DEF Goes, ConnInv
<1> QED BY <1>1, <1>2, <1>3, Settles

\* What is left of the connection c's lines when it fails to be an operator.
LEMMA FailedGoes ==
    ASSUME ConnInv, ~lost, NEW c \in Slots, conn[c].st = "person", conn[c].oper # "glob",
           NEW i, i = 0 \/ i \in Lines, NEW w,
           w = IF i = 0 THEN IF conn[c].hurt THEN det_confs_butmask(World, c, {}) ELSE World
               ELSE detach_conf(World, c, i)
    PROVE  Goes(World, w) /\ w.conn[c].st = "person"
<1>1. Fit(World, {}, {}) /\ World.conn[c].st = "person" /\ World.conn[c].oper # "glob" /\ Sound(World)
  BY FitHere, WorldIs DEF ConnInv
<1>2. CASE w = World
  BY <1>1, <1>2, GoesSelf
<1>3. CASE w = det_confs_butmask(World, c, {})
  <2>1. ASSUME NEW O, NEW V, Fit(World, O, V)
        PROVE  Fit(w, O, V) /\ Kin(World, w)
    BY <1>1, <1>3, <2>1, Dets
  <2>2. Fit(w, {}, {}) /\ Kin(World, w)
    BY <1>1, <2>1
  <2> QED BY <1>1, <2>2, KinGoes
<1>4. CASE i \in Lines /\ w = detach_conf(World, c, i)
  <2>1. ASSUME NEW O, NEW V, Fit(World, O, V)
        PROVE  Fit(w, O, V) /\ Kin(World, w)
    BY <1>1, <1>4, <2>1, Detaches
  <2>2. Fit(w, {}, {}) /\ Kin(World, w)
    BY <1>1, <2>1
  <2> QED BY <1>1, <2>2, KinGoes
<1> QED BY <1>2, <1>3, <1>4

LEMMA OperStep ==
    ASSUME ConnInv, ~lost, NEW c \in Slots, NEW password \in BOOLEAN, Oper(c, password)
    PROVE  ConnInv'
<1> DEFINE i == find_oper(World, c)
           ok == password /\ MayAttach(World, c, i)
           failed == IF i = 0 THEN IF conn[c].hurt THEN det_confs_butmask(World, c, {}) ELSE World
                     ELSE detach_conf(World, c, i)
           w == attach_conf(World, c, i)
           kind == IF line[i].kind = "O" THEN "glob" ELSE "loc"
           up == [w EXCEPT !.conn[c].oper = kind, !.conn[c].hurt = FALSE]
           down == [failed EXCEPT !.conn[c].idle = 2, !.conn[c].pung = TRUE]
<1>1. /\ conn[c].st = "person" /\ conn[c].oper # "glob" /\ UNCHANGED Bans
      /\ Becomes(IF i # 0 /\ ok THEN up ELSE IF conn[c].hurt THEN down ELSE failed)
  BY DEF Oper, Person
<1>2. i # 0 => i \in Lines /\ line[i].kind \in Operators
  BY FoundIs
<1> HIDE DEF i
<1>3. CASE i # 0 /\ ok
  <2>1. /\ Fit(World, {}, {}) /\ World.conn[c].st # "none" /\ World.line[i].kind \notin {"P", "free"}
        /\ i \in Lines /\ MayAttach(World, c, i)
    BY <1>1, <1>2, <1>3, FitHere, WorldIs DEF Operators
  <2>2. Fit(w, {}, {}) /\ Kin(World, w) /\ (w.lost \/ w.conn[c].confs = <<i>> \o conn[c].confs)
    <3>1. ASSUME NEW O, NEW V, Fit(World, O, V)
          PROVE  /\ Fit(w, O, V) /\ Kin(World, w)
                 /\ MayAttach(World, c, i) => w.lost \/ w.conn[c].confs = <<i>> \o World.conn[c].confs
      BY <2>1, <3>1, Attaches
    <3> QED BY <2>1, <3>1, WorldIs
  <2>3. Goes(World, w) /\ Sound(w) /\ w.conn[c].st = "person"
    <3>1. Sound(World)
      BY DEF ConnInv
    <3> QED BY <1>1, <2>2, <3>1, KinGoes, WorldIs DEF Goes
  <2>4. w.line[i].kind = line[i].kind
    BY <2>1, <2>2, WorldIs DEF Kin, MayAttach
  <2>5. w.lost \/ i \in Range(w.conn[c].confs)
    <3>1. conn[c].confs \in Seq(1 .. MaxLine)
      BY Waits DEF Client
    <3>2. ASSUME w.conn[c].confs = <<i>> \o conn[c].confs
          PROVE  i \in Range(w.conn[c].confs)
      <4> DEFINE s == w.conn[c].confs
      <4>1. Len(s) = Len(conn[c].confs) + 1 /\ s[1] = i /\ DOMAIN s = 1 .. Len(s) /\ Len(conn[c].confs) \in Nat
        BY <3>1, <3>2
      <4> HIDE DEF s
      <4>2. 1 \in DOMAIN s
        BY <4>1
      <4>3. i \in Range(s)
        BY <4>1, <4>2 DEF Range
      <4> QED BY <4>3 DEF s
    <3> QED BY <2>2, <3>2
  <2> HIDE DEF w
  <2>6. kind \in {"loc", "glob"}
    OBVIOUS
  <2> HIDE DEF kind
  <2> DEFINE me == [w.conn[c] EXCEPT !.oper = kind, !.hurt = FALSE]
  <2>7. w \in ConnWorlds /\ w.conn \in [Slots -> Client] /\ w.conn[c] \in Client
    BY <2>3 DEF Sound, ConnWorlds
  <2>8. w = [conn |-> w.conn, query |-> w.query, cache |-> w.cache, line |-> w.line, order |-> w.order,
             cls |-> w.cls, classlist |-> w.classlist, config |-> w.config, lost |-> w.lost]
    BY <2>7 DEF ConnWorlds
  <2>9. up = Put(w, c, me, w.query)
    BY <2>7, <2>8, Zenon DEF Put
  <2>10. /\ me \in Client /\ me.st = "person" /\ me.confs = w.conn[c].confs /\ me.via = w.conn[c].via
         /\ me.host = w.conn[c].host /\ me.dns = w.conn[c].dns
    BY <2>3, <2>6, <2>7 DEF Client
  <2> HIDE DEF me
  <2>12. Edits(w, c, me, w.query)
    BY <1>2, <1>3, <2>3, <2>4, <2>5, <2>10 DEF Edits
  <2>13. Nearly(w, c)
    BY <2>3, SoundNearly
  <2>14. /\ Sound(up) /\ up.cache = w.cache /\ up.conn[c] = me /\ up.line = w.line /\ up.order = w.order
         /\ \A d \in Slots : d # c => up.conn[d] = w.conn[d]
    <3> HIDE DEF up
    <3> QED BY <2>9, <2>12, <2>13, Tweaks
  <2>15. Becomes(up)
    BY <1>1, <1>3
  <2> HIDE DEF up
  <2> QED BY <1>1, <2>3, <2>10, <2>14, <2>15, Settling
<1>4. CASE ~(i # 0 /\ ok)
  <2>1. Goes(World, failed) /\ failed.conn[c].st = "person"
    BY <1>1, <1>2, FailedGoes
  <2> HIDE DEF failed, ok
  <2>2. CASE ~conn[c].hurt
    BY <1>1, <1>4, <2>1, <2>2, Steady
  <2>3. CASE conn[c].hurt
    <3> DEFINE f == failed
               me == [f.conn[c] EXCEPT !.idle = 2, !.pung = TRUE]
    <3> HIDE DEF f
    <3>0. Goes(World, f) /\ f.conn[c].st = "person" /\ f = failed
      BY <2>1 DEF f
    <3>1. Sound(f) /\ f \in ConnWorlds /\ f.conn \in [Slots -> Client] /\ f.conn[c] \in Client
      BY <3>0 DEF Goes, Sound, ConnWorlds
    <3>2. f = [conn |-> f.conn, query |-> f.query, cache |-> f.cache, line |-> f.line, order |-> f.order,
               cls |-> f.cls, classlist |-> f.classlist, config |-> f.config, lost |-> f.lost]
      BY <3>1 DEF ConnWorlds
    <3>3. down = Put(f, c, me, f.query)
      BY <3>0, <3>1, <3>2, Zenon DEF Put
    <3>4. /\ me \in Client /\ me.st = f.conn[c].st /\ me.confs = f.conn[c].confs /\ me.via = f.conn[c].via
          /\ me.host = f.conn[c].host /\ me.dns = f.conn[c].dns /\ me.oper = f.conn[c].oper
      <4>1. me \in Client
        BY <3>1, Numbers DEF Client
      <4> QED BY <3>1, <4>1 DEF Client
    <3> HIDE DEF me
    <3>5. Plain(f, c, me, f.query)
      BY <3>0, <3>4 DEF Plain
    <3>6. Becomes(down)
      BY <1>1, <1>4, <2>3
    <3> HIDE DEF down
    <3>7. Goes(f, down)
      BY <3>1, <3>3, <3>5, Nudges
    <3>8. Goes(World, down)
      BY <3>0, <3>7, GoesOn
    <3> QED BY <1>1, <3>6, <3>8, Steady
  <2> QED BY <2>2, <2>3
<1> QED BY <1>3, <1>4

LEMMA DeopStep ==
    ASSUME ConnInv, ~lost, NEW c \in Slots, Deop(c)
    PROVE  ConnInv'
<1> DEFINE w == det_confs_butmask(World, c, {"I"})
           me == [w.conn[c] EXCEPT !.oper = "no"]
           z == [w EXCEPT !.conn[c].oper = "no"]
<1>1. conn[c].st = "person" /\ UNCHANGED Bans /\ Becomes(z)
  BY DEF Deop, Person
<1>2. Fit(w, {c}, {}) /\ Kin(World, w)
  <2>1. Fit(World, {c}, {}) /\ World.conn[c].st # "none"
    BY <1>1, FitHere, WorldIs
  <2> QED BY <2>1, Dets
<1> HIDE DEF w
<1>3. Nearly(w, c) /\ w.conn[c].st = "person"
  <2>1. Seated(World)
    BY Waits
  <2>2. Seated(w)
    BY <1>2, <2>1, KinSeats
  <2> QED BY <1>1, <1>2, <2>2, WorldIs DEF Nearly, Fit, Kin, Alike
<1>4. w \in ConnWorlds /\ w.conn \in [Slots -> Client] /\ w.conn[c] \in Client
  BY <1>3 DEF Nearly, ConnWorlds
<1>5. w = [conn |-> w.conn, query |-> w.query, cache |-> w.cache, line |-> w.line, order |-> w.order,
           cls |-> w.cls, classlist |-> w.classlist, config |-> w.config, lost |-> w.lost]
  BY <1>4 DEF ConnWorlds
<1>6. z = Put(w, c, me, w.query)
  BY <1>4, <1>5, Zenon DEF Put
<1>7. /\ me \in Client /\ me.st = "person" /\ me.confs = w.conn[c].confs /\ me.via = w.conn[c].via
      /\ me.host = w.conn[c].host /\ me.dns = w.conn[c].dns /\ me.oper = "no"
  BY <1>3, <1>4 DEF Client
<1> HIDE DEF me, z
<1>8. Edits(w, c, me, w.query)
  BY <1>3, <1>7 DEF Edits
<1>9. /\ Sound(z) /\ z.cache = w.cache /\ z.conn[c] = me /\ z.line = w.line /\ z.order = w.order
      /\ \A d \in Slots : d # c => z.conn[d] = w.conn[d]
  BY <1>3, <1>6, <1>8, Tweaks
<1>10. z.cache = cache /\ \A d \in Slots : z.conn[d].st = conn[d].st
  BY <1>1, <1>2, <1>7, <1>9, WorldIs DEF Kin, Alike
<1>11. Cardinality(z.cache) <= MaxCached
  BY <1>10 DEF ConnInv
<1>12. Ordered(z)
  BY <1>2, <1>9, KinOrders, SameOrders DEF ConnInv
<1> QED BY <1>1, <1>9, <1>10, <1>11, <1>12, Settles

\* A sequence without i that gets it at the end.
LEMMA OneLast ==
    ASSUME NEW S, NEW s \in Seq(S), NEW i \in S, i \notin Range(s), IsInjective(s)
    PROVE  IsInjective(Append(s, i)) /\ Range(Append(s, i)) = Range(s) \cup {i}
<1> DEFINE t == Append(s, i)
<1>1. /\ Len(s) \in Nat /\ DOMAIN s = 1 .. Len(s) /\ DOMAIN t = 1 .. (Len(s) + 1) /\ t[Len(s) + 1] = i
      /\ \A n \in DOMAIN s : t[n] = s[n]
  OBVIOUS
<1> HIDE DEF t
<1>2. \A n \in DOMAIN t : n = Len(s) + 1 \/ n \in DOMAIN s
  BY <1>1
<1>3. Len(s) + 1 \in DOMAIN t /\ \A n \in DOMAIN s : n \in DOMAIN t
  BY <1>1
<1>4. Range(t) = Range(s) \cup {i}
  BY <1>1, <1>2, <1>3 DEF Range
<1>5. IsInjective(t)
  BY <1>1, <1>2, <1>3 DEF IsInjective, Range
<1> QED BY <1>4, <1>5 DEF t

LEMMA ConnectStep ==
    ASSUME ConnInv, ~lost, NEW c \in Slots, NEW i \in DOMAIN line, NEW refused \in BOOLEAN,
           Connect(c, i, refused)
    PROVE  ConnInv'
<1> DEFINE me == [Fresh EXCEPT !.st = "connecting"]
           o == Append(Without(order, i), i)
           w == [World EXCEPT !.order = Append(Without(@, i), i), !.conn[c] = me]
           v == attach_confs(w, c, Peer[c], Links)
<1>1. /\ conn[c].st = "none" /\ UNCHANGED Bans /\ i \in Range(order)
      /\ Becomes(Lost(World)) \/ Becomes(v)
  BY DEF Connect, Open, MayTry
<1>2. CASE Becomes(Lost(World))
  BY <1>1, <1>2, Losing
<1>3. CASE Becomes(v)
  <2>1. /\ World \in ConnWorlds /\ Sound(World) /\ conn \in [Slots -> Client]
        /\ query \in [Slots -> {"no", "ptr", "name"}] /\ line \in [Lines -> Line] /\ order \in Seq(Lines)
    BY Waits, WorldIs DEF ConnWorlds
  <2>2. o \in Seq(Lines) /\ 0 \in 0 .. MaxLine
    <3>1. i \in Lines /\ Without(order, i) \in Seq(Lines)
      BY <2>1, WithoutIs
    <3> QED BY <3>1, Bounds
  <2>3. w = [World EXCEPT !.order = o, !.conn = [conn EXCEPT ![c] = me]]
    BY WorldIs DEF World
  <2>4. /\ me.st = "connecting" /\ me.confs = <<>> /\ me.via = 0 /\ me.oper = "no" /\ me.dns = FALSE
        /\ me.host = FALSE /\ me \in Client
    BY Nothing DEF Fresh, NoConn, Client
  <2>5. Newly(World, me, 0, Addr[c], "no")
    <3> HIDE DEF me
    <3> QED BY <2>4 DEF Newly
  <2>6. query = [query EXCEPT ![c] = "no"]
    <3>1. query[c] = "no"
      BY <1>1, Waits
    <3> QED BY <2>1, <3>1
  <2> HIDE DEF me, o, w
  <2>7. /\ w \in ConnWorlds /\ w.conn = [conn EXCEPT ![c] = me] /\ w.query = query
        /\ w.line = line /\ w.cls = cls /\ w.cache = cache /\ w.lost = lost /\ w.order = o
    <3> DEFINE C == [conn EXCEPT ![c] = me]
    <3>1. C \in [Slots -> Client]
      BY <2>1, <2>4
    <3>2. w = [World EXCEPT !.order = o, !.conn = C]
      BY <2>3
    <3> HIDE DEF C
    <3>3. /\ w \in ConnWorlds /\ w.conn = C /\ w.query = World.query
          /\ w.line = World.line /\ w.cls = World.cls /\ w.cache = World.cache /\ w.lost = World.lost
          /\ w.order = o
      BY <2>1, <2>2, <3>1, <3>2 DEF ConnWorlds
    <3> QED BY <3>3, WorldIs DEF C
  <2>15. IsInjective(w.order) /\ Range(w.order) = Range(order)
    <3> DEFINE s == Without(order, i)
    <3>1. i \in Range(order) /\ IsInjective(order)
      BY <1>1, WorldIs DEF ConnInv, Ordered, Placed
    <3>2. s \in Seq(Lines) /\ Range(s) = Range(order) \ {i} /\ IsInjective(s) /\ i \in Lines
      BY <2>1, <3>1, WithoutIs
    <3> HIDE DEF s
    <3>3. IsInjective(Append(s, i)) /\ Range(Append(s, i)) = Range(s) \cup {i}
      BY <3>2, OneLast
    <3> QED BY <2>7, <3>1, <3>2, <3>3 DEF o, s
  <2>8. World.conn[c].st = "none" /\ ~World.lost /\ Joined(World, w, c, 0, me, "no") /\ Sound(World)
        /\ Ordered(World)
    BY <1>1, <2>1, <2>6, <2>7, <2>15, WorldIs DEF Joined, ConnInv
  <2>9. /\ Sound(w) /\ Ordered(w) /\ w.conn[c].st = me.st
        /\ \A d \in Slots : d # c => w.conn[d] = World.conn[d]
    <3>1. w \in ConnWorlds /\ 0 \in 0 .. MaxLine
      BY <2>2, <2>7
    <3> QED BY ONLY <2>5, <2>8, <3>1, Opens, c \in Slots
  <2>10. Fit(w, {}, {}) /\ w.conn[c].st # "none" /\ Links \cap {"P", "free"} = {}
    BY <2>4, <2>9 DEF Sound, Fit, Links
  <2>11. Fit(v, {}, {}) /\ Kin(w, v)
    <3>1. ASSUME NEW O, NEW V, Fit(w, O, V)
          PROVE  Fit(v, O, V) /\ Kin(w, v)
      BY <2>10, <3>1, AttachesAll
    <3> QED BY <2>10, <3>1
  <2> HIDE DEF v
  <2>12. Goes(w, v) /\ v.cache = w.cache /\ \A d \in Slots : v.conn[d].st = w.conn[d].st
    BY <2>9, <2>11, KinGoes
  <2>13. \A d \in Slots : v.conn[d].st \in {conn[d].st, "none", "unknown", "connecting", "handshake"}
    BY <2>4, <2>9, <2>12, WorldIs
  <2>14. Cardinality(v.cache) <= MaxCached /\ Sound(v) /\ Ordered(v)
    BY <2>7, <2>9, <2>12 DEF ConnInv, Goes
  <2> QED BY <1>1, <1>3, <2>13, <2>14, Settles
<1> QED BY <1>1, <1>2, <1>3

\* From w to v only lines were attached and detached.
Grows(w, v) == Fit(v, {}, {}) /\ Kin(w, v)

LEMMA GrowsAttach ==
    ASSUME NEW w, NEW u, Grows(w, u), NEW c \in Slots, w.conn[c].st # "none", NEW i \in Lines,
           u.line[i].legal => u.line[i].kind \notin {"P", "free"}, NEW v, v = attach_conf(u, c, i)
    PROVE  Grows(w, v) /\ Kin(u, v)
<1>1. Fit(u, {}, {}) /\ Kin(w, u) /\ u.conn[c].st # "none"
  BY DEF Grows, Kin, Alike
<1>2. ASSUME NEW O, NEW V, Fit(u, O, V)
      PROVE  Fit(v, O, V) /\ Kin(u, v)
  BY <1>1, <1>2, Attaches
<1>3. Fit(v, {}, {}) /\ Kin(u, v)
  BY <1>1, <1>2
<1> QED BY <1>1, <1>3, KinGoesOn DEF Grows

LEMMA GrowsAll ==
    ASSUME NEW w, NEW u, Grows(w, u), NEW c \in Slots, w.conn[c].st # "none",
           NEW name, NEW kinds, kinds \cap {"P", "free"} = {}, NEW v, v = attach_confs(u, c, name, kinds)
    PROVE  Grows(w, v) /\ Kin(u, v)
<1>1. Fit(u, {}, {}) /\ Kin(w, u) /\ u.conn[c].st # "none"
  BY DEF Grows, Kin, Alike
<1>2. ASSUME NEW O, NEW V, Fit(u, O, V)
      PROVE  Fit(v, O, V) /\ Kin(u, v)
  BY <1>1, <1>2, AttachesAll
<1>3. Fit(v, {}, {}) /\ Kin(u, v)
  BY <1>1, <1>2
<1> QED BY <1>1, <1>3, KinGoesOn DEF Grows

LEMMA GrowsDet ==
    ASSUME NEW w, NEW u, Grows(w, u), NEW c \in Slots, w.conn[c].st # "none", w.conn[c].oper # "glob",
           NEW kinds, NEW v, v = det_confs_butmask(u, c, kinds)
    PROVE  Grows(w, v) /\ Kin(u, v)
<1>1. Fit(u, {}, {}) /\ Kin(w, u) /\ u.conn[c].st # "none" /\ u.conn[c].oper # "glob"
  BY DEF Grows, Kin, Alike
<1>2. ASSUME NEW O, NEW V, Fit(u, O, V)
      PROVE  Fit(v, O, V) /\ Kin(u, v)
  BY <1>1, <1>2, Dets
<1>3. Fit(v, {}, {}) /\ Kin(u, v)
  BY <1>1, <1>2
<1> QED BY <1>1, <1>3, KinGoesOn DEF Grows

\* The line of a connection that find_conf() finds.
LEMMA ConfIs ==
    ASSUME NEW w \in ConnWorlds, NEW c \in Slots, NEW name, NEW kinds, NEW i,
           i = find_conf(w, c, name, kinds), i # 0
    PROVE  i \in Lines /\ w.line[i].legal /\ w.line[i].kind \in kinds
<1>1. w.conn[c].confs \in Seq(1 .. MaxLine)
  BY DEF ConnWorlds, Client
<1>2. i \in 1 .. MaxLine /\ IsLine(w, i, kinds)
  BY <1>1, FirstLineIs DEF find_conf
<1> QED BY <1>2 DEF IsLine, Lines

\* check_server(): what it leaves, whether the link is let in or not.
LEMMA Checked ==
    ASSUME NEW w, Fit(w, {}, {}), NEW c \in Slots, w.conn[c].st # "none", w.conn[c].oper # "glob"
    PROVE  Grows(w, check_server(w, c).w)
<1> DEFINE name == Peer[c]
           w1 == check_server_init(w, c)
           n == find_conf(w1, c, name, {"N"})
           k == find_conf(w1, c, name, {"C"})
           x == det_confs_butmask(w1, c, {})
           y == attach_conf(x, c, n)
           w2 == attach_conf(y, c, k)
           z == attach_confs(w2, c, name, {"U"})
<1>1. check_server(w, c) = IF n = 0 \/ k = 0 THEN [ok |-> FALSE, w |-> x] ELSE [ok |-> TRUE, w |-> z]
  BY DEF check_server
<1>2. Kin(w, w)
  BY DEF Kin, Alike
<1>3. Grows(w, w)
  BY <1>2 DEF Grows
<1>4. Grows(w, w1)
  <2>1. Links \cap {"P", "free"} = {}
    BY DEF Links
  <2>2. Grows(w, attach_confs(w, c, Peer[c], Links))
    BY <1>3, <2>1, GrowsAll
  <2> QED BY <1>3, <2>2 DEF check_server_init
<1> HIDE DEF w1
<1>5. Grows(w, x) /\ Kin(w1, x)
  BY <1>4, GrowsDet
<1>6. n # 0 => n \in Lines /\ w1.line[n].legal /\ w1.line[n].kind \in {"N"}
  BY <1>4, ConfIs DEF Grows, Fit
<1>7. k # 0 => k \in Lines /\ w1.line[k].legal /\ w1.line[k].kind \in {"C"}
  BY <1>4, ConfIs DEF Grows, Fit
<1> HIDE DEF n, k, x
<1>8. CASE n = 0 \/ k = 0
  BY <1>1, <1>5, <1>8
<1>9. CASE n # 0 /\ k # 0
  <2>1. x.line[n].kind = "N" /\ x.line[k].kind = "C"
    BY <1>5, <1>6, <1>7, <1>9 DEF Kin
  <2>2. Grows(w, y) /\ Kin(x, y)
    BY <1>5, <1>6, <1>9, <2>1, GrowsAttach
  <2>3. Kin(w1, y)
    BY <1>5, <2>2, KinGoesOn
  <2> HIDE DEF y
  <2>4. y.line[k].kind = "C"
    BY <1>7, <1>9, <2>3 DEF Kin
  <2>5. Grows(w, w2)
    BY <1>7, <1>9, <2>2, <2>4, GrowsAttach
  <2> HIDE DEF w2
  <2>6. {"U"} \cap {"P", "free"} = {}
    OBVIOUS
  <2>7. Grows(w, z)
    BY <2>5, <2>6, GrowsAll
  <2> QED BY <1>1, <1>9, <2>7
<1> QED BY <1>8, <1>9

\* A link that is let in, where no other is.
LEMMA ServerStep ==
    ASSUME ConnInv, ~lost, NEW c \in Slots, NEW password \in BOOLEAN, Server(c, password)
    PROVE  ConnInv'
<1> DEFINE name == Peer[c]
           checked == check_server(World, c)
           u == checked.w
           z == m_server_estab(u, c)
<1>1. /\ conn[c].st \in {"unknown", "handshake"} /\ UNCHANGED Bans
      /\ \/ Becomes(exit_client(World, c))
         \/ \E d \in Linked(World, name) \cup {c} : Becomes(exit_client(World, d))
         \/ Linked(World, name) = {} /\ (Becomes(exit_client(u, c)) \/ Becomes(z))
  BY DEF Server
<1>2. ASSUME NEW d \in Slots, conn[d].st # "none", Becomes(exit_client(World, d))
      PROVE  ConnInv'
  <2>1. Goes(World, exit_client(World, d))
    BY <1>2, Waits, WorldIs, Exits
  <2> QED BY <1>1, <1>2, <2>1, Steady
<1>3. CASE \E d \in Linked(World, name) \cup {c} : Becomes(exit_client(World, d))
  <2>1. \A d \in Linked(World, name) \cup {c} : d \in Slots /\ conn[d].st # "none"
    BY <1>1, WorldIs DEF Linked
  <2> QED BY <1>2, <1>3, <2>1
<1>4. conn[c].oper = "no" /\ World.conn[c].st = conn[c].st /\ World.conn[c].oper = conn[c].oper
  BY <1>1, Waits, WorldIs
<1>5. Grows(World, u)
  BY <1>1, <1>4, FitHere, Checked
<1> HIDE DEF checked, u
<1>6. Goes(World, u) /\ Sound(u) /\ u.conn[c].st # "none" /\ u.cache = cache
      /\ \A d \in Slots : u.conn[d].st = conn[d].st
  <2>1. Sound(World)
    BY DEF ConnInv
  <2> QED BY <1>1, <1>4, <1>5, <2>1, KinGoes, WorldIs DEF Goes, Grows
<1>7. CASE Becomes(exit_client(u, c))
  <2>1. Goes(World, exit_client(u, c))
    BY <1>6, Exits, GoesOn
  <2> QED BY <1>1, <1>7, <2>1, Steady
<1>8. CASE Linked(World, name) = {} /\ Becomes(z)
  <2> DEFINE w == det_confs_butmask(u, c, {"N", "U"})
             me == [w.conn[c] EXCEPT !.st = "server", !.idle = 0]
  <2>1. Grows(World, w)
    BY <1>1, <1>4, <1>5, GrowsDet
  <2>2. z = [w EXCEPT !.conn[c].st = "server", !.conn[c].idle = 0]
    BY DEF m_server_estab
  <2>3. Becomes(z)
    BY <1>8
  <2> HIDE DEF w, z
  <2>4. Sound(w) /\ w.cache = cache /\ w.conn[c].oper = "no" /\ w.conn[c].st # "none"
        /\ \A d \in Slots : w.conn[d].st = conn[d].st
    <3>1. Sound(World)
      BY DEF ConnInv
    <3> QED BY <1>1, <1>4, <2>1, <3>1, KinGoes, WorldIs DEF Goes, Grows, Kin, Alike
  <2>5. w \in ConnWorlds /\ w.conn \in [Slots -> Client] /\ w.conn[c] \in Client
    BY <2>4 DEF Sound, ConnWorlds
  <2>6. w = [conn |-> w.conn, query |-> w.query, cache |-> w.cache, line |-> w.line, order |-> w.order,
             cls |-> w.cls, classlist |-> w.classlist, config |-> w.config, lost |-> w.lost]
    BY <2>5 DEF ConnWorlds
  <2>7. z = Put(w, c, me, w.query)
    BY <2>2, <2>5, <2>6, Zenon DEF Put
  <2>8. me \in Client /\ me.st = "server" /\ me.confs = w.conn[c].confs /\ me.via = w.conn[c].via
        /\ me.host = w.conn[c].host /\ me.dns = w.conn[c].dns /\ me.oper = "no"
    <3>1. me \in Client
      BY <2>5, Numbers DEF Client
    <3> QED BY <2>4, <2>5, <3>1 DEF Client
  <2> HIDE DEF me
  <2>9. Edits(w, c, me, w.query)
    BY <2>4, <2>8 DEF Edits
  <2>10. Nearly(w, c)
    BY <2>4, SoundNearly
  <2>11. /\ Sound(z) /\ z.cache = w.cache /\ z.conn[c] = me /\ z.line = w.line /\ z.order = w.order
         /\ \A d \in Slots : d # c => z.conn[d] = w.conn[d]
    BY <2>7, <2>9, <2>10, Tweaks
  <2>12. Admits(z)
    <3> SUFFICES ASSUME NEW d \in Slots
                 PROVE  \/ z.conn[d].st \in {conn[d].st, "none", "unknown", "connecting", "handshake"}
                        \/ /\ z.conn[d].st = "server" /\ Linked(World, Peer[d]) = {}
                           /\ \A e \in Slots \ {d} : z.conn[e].st = conn[e].st
      BY DEF Admits
    <3>1. CASE d = c
      BY <1>8, <2>4, <2>8, <2>11, <3>1
    <3>2. CASE d # c
      BY <2>4, <2>11, <3>2
    <3> QED BY <3>1, <3>2
  <2>13. kill' = kill /\ zap' = zap /\ rehashes' = rehashes
    BY <1>1 DEF Bans
  <2>14. \A d \in Slots : find_kill(d)' = find_kill(d)
    BY <2>13 DEF find_kill
  <2>15. kill' \in [KMasks -> By] /\ zap' \in [ZMasks -> By] /\ rehashes' \in 0 .. MaxRehash
    BY <2>13 DEF ConnInv
  <2>16. Cardinality(z.cache) <= MaxCached
    BY <2>4, <2>11 DEF ConnInv
  <2>17. Ordered(z)
    <3>1. Ordered(w)
      BY <2>1, KinOrders DEF Grows, ConnInv
    <3> QED BY <2>11, <3>1, SameOrders
  <2> QED BY <2>3, <2>11, <2>12, <2>14, <2>15, <2>16, <2>17, Stepped
<1> QED BY <1>1, <1>2, <1>3, <1>7, <1>8

\* A step that changes the bans, and leaves no user whom a new one fits.
LEMMA Banning ==
    ASSUME ConnInv, ~lost, NEW v, Goes(World, v), Becomes(v),
           kill' \in [KMasks -> By], zap' \in [ZMasks -> By], rehashes' \in 0 .. MaxRehash,
           \A d \in Slots : v.lost \/ v.conn[d].st # "person" \/ (find_kill(d)' => find_kill(d))
    PROVE  ConnInv'
<1>1. Sound(v) /\ Ordered(v) /\ v.cache \subseteq cache /\ \A d \in Slots : v.conn[d].st \in {conn[d].st, "none"}
  BY WorldIs DEF Goes, ConnInv
<1>2. Admits(v)
  BY <1>1 DEF Admits
<1>3. Cardinality(v.cache) <= MaxCached
  BY <1>1, FewCached
<1> QED BY <1>1, <1>2, <1>3, Stepped

\* A new line is looked up for the users here; one that adds nothing changes nothing.
LEMMA AddKillStep ==
    ASSUME ConnInv, ~lost, NEW m \in KMasks, NEW by \in By, NEW new \in BOOLEAN, AddKill(m, by, new)
    PROVE  ConnInv'
<1> DEFINE banned == IF new THEN Hits[m] ELSE {c \in Slots : find_kill(c)}
           v == check_pings(World, banned)
<1>1. /\ kill' = IF new THEN [kill EXCEPT ![m] = by] ELSE kill
      /\ Becomes(v) /\ zap' = zap /\ rehashes' = rehashes
  BY DEF AddKill
<1>2. Goes(World, v) /\ \A d \in Slots \cap banned : v.lost \/ v.conn[d].st # "person"
  <2>1. Sound(World)
    BY DEF ConnInv
  <2> HIDE DEF banned
  <2> QED BY <2>1, Pinged
<1>3. kill \in [KMasks -> By] /\ zap \in [ZMasks -> By] /\ rehashes \in 0 .. MaxRehash
  BY DEF ConnInv
<1>4. kill' \in [KMasks -> By]
  BY <1>1, <1>3
<1> HIDE DEF v
<1>5. ASSUME NEW d \in Slots, find_kill(d)', ~find_kill(d)
      PROVE  v.lost \/ v.conn[d].st # "person"
  <2>1. PICK k \in KMasks : kill'[k] # "none" /\ d \in Hits[k]
    BY <1>5 DEF find_kill
  <2>2. kill[k] = "none"
    BY <1>5, <2>1 DEF find_kill
  <2>3. new /\ k = m
    BY <1>1, <1>3, <2>1, <2>2
  <2> QED BY <1>2, <2>1, <2>3
<1> QED BY <1>1, <1>2, <1>3, <1>4, <1>5, Banning

\* Fewer bans, or other ones that leave the users here alone.
LEMMA Sparing ==
    ASSUME ConnInv, ~lost, Becomes(World), kill' \in [KMasks -> By], zap' \in [ZMasks -> By],
           rehashes' = rehashes, \A k \in KMasks : kill'[k] \in {kill[k], "none"}
    PROVE  ConnInv'
<1>1. Goes(World, World)
  BY GoesSelf DEF ConnInv
<1>2. \A d \in Slots : find_kill(d)' => find_kill(d)
  BY DEF find_kill
<1> QED BY <1>1, <1>2, Banning DEF ConnInv

LEMMA DelKillStep ==
    ASSUME ConnInv, ~lost, NEW m \in KMasks, NEW by \in By, DelKill(m, by)
    PROVE  ConnInv'
<1>1. kill \in [KMasks -> By] /\ zap \in [ZMasks -> By]
  BY DEF ConnInv
<1>2. kill' = [kill EXCEPT ![m] = "none"] /\ Becomes(World) /\ zap' = zap /\ rehashes' = rehashes
  BY DEF DelKill
<1>3. kill' \in [KMasks -> By] /\ \A k \in KMasks : kill'[k] \in {kill[k], "none"}
  BY <1>1, <1>2 DEF By
<1> QED BY <1>1, <1>2, <1>3, Sparing

\* The nodes that the monitors keep.
LEMMA SameIs ==
    ASSUME ConnInv
    PROVE  [k \in DOMAIN config |-> config[k].node] \in Seq(Nodes)
<1>1. config \in Seq(Entry)
  BY WorldIs DEF ConnInv, Sound, ConnWorlds
<1>2. DOMAIN config = 1 .. Len(config) /\ Len(config) \in Nat
  BY <1>1
<1>3. \A k \in 1 .. Len(config) : config[k] \in Entry
  BY <1>1, PlaceOf
<1>4. \A e \in Entry : e.node \in Nodes
  BY DEF Entry
<1> DEFINE same == [k \in 1 .. Len(config) |-> config[k].node]
<1>5. same \in [1 .. Len(config) -> Nodes]
  BY <1>3, <1>4
<1> HIDE DEF same
<1>6. same \in Seq(Nodes)
  BY <1>2, <1>5
<1> QED BY <1>2, <1>6 DEF same

\* The users here are looked up, whether the configuration is read or not.
LEMMA ZlineStep ==
    ASSUME ConnInv, ~lost, NEW c \in Slots, NEW m \in ZMasks, Zline(c, m)
    PROVE  ConnInv'
<1> DEFINE by == IF IsOper(c) THEN "temp" ELSE "akill"
           banned == {d \in Slots : find_kill(d) \/ find_zap(d) \/ Addr[d] \in Zaps[m]}
           own == Addr[c] \in Zaps[m] \/ find_zap(c)
           same == [k \in DOMAIN config |-> config[k].node]
           v == IF own THEN rehash(World, same, banned) ELSE check_pings(World, banned)
<1>1. /\ zap' = [zap EXCEPT ![m] = IF zap[m] = "none" THEN by ELSE zap[m]]
      /\ kill' = kill /\ rehashes' = rehashes /\ Becomes(v)
  BY DEF Zline
<1>2. kill \in [KMasks -> By] /\ zap \in [ZMasks -> By] /\ rehashes \in 0 .. MaxRehash /\ Sound(World)
  BY DEF ConnInv
<1>3. by \in By /\ zap' \in [ZMasks -> By]
  <2>1. by \in By
    BY DEF By
  <2> HIDE DEF by
  <2> DEFINE e == IF zap[m] = "none" THEN by ELSE zap[m]
  <2>2. e \in By /\ zap' = [zap EXCEPT ![m] = e]
    BY <1>1, <1>2, <2>1
  <2> HIDE DEF e
  <2> QED BY <1>2, <2>1, <2>2
<1>4. same \in Seq(Nodes)
  BY SameIs
<1> HIDE DEF same, banned, own
<1>5. Goes(World, v)
  BY <1>2, <1>4, Rehashes, Pinged
<1> HIDE DEF v
<1>6. \A d \in Slots : find_kill(d)' = find_kill(d)
  BY <1>1 DEF find_kill
<1> QED BY <1>1, <1>2, <1>3, <1>5, <1>6, Banning

LEMMA UnzlineStep ==
    ASSUME ConnInv, ~lost, NEW m \in ZMasks, Unzline(m)
    PROVE  ConnInv'
<1>1. kill \in [KMasks -> By] /\ zap \in [ZMasks -> By]
  BY DEF ConnInv
<1>2. kill' = kill /\ Becomes(World) /\ zap' = [zap EXCEPT ![m] = "none"] /\ rehashes' = rehashes
  BY DEF Unzline
<1>3. zap' \in [ZMasks -> By]
  BY <1>1, <1>2 DEF By
<1> QED BY <1>1, <1>2, <1>3, Sparing

LEMMA AhurtStep ==
    ASSUME ConnInv, ~lost, Ahurt
    PROVE  ConnInv'
<1>1. kill \in [KMasks -> By] /\ zap \in [ZMasks -> By]
  BY DEF ConnInv
<1>2. kill' = kill /\ Becomes(World) /\ zap' = zap /\ rehashes' = rehashes
  BY DEF Ahurt
<1> QED BY <1>1, <1>2, Sparing

LEMMA RehashStep ==
    ASSUME ConnInv, ~lost, NEW f \in Configs, Rehash(f)
    PROVE  ConnInv'
<1> DEFINE banned == {c \in Slots : find_kill(c) \/ find_zap(c)}
           v == rehash(World, f, banned)
<1>1. /\ rehashes < MaxRehash /\ rehashes' = rehashes + 1 /\ Becomes(v) /\ kill' = kill /\ zap' = zap
  BY DEF Rehash
<1>2. kill \in [KMasks -> By] /\ zap \in [ZMasks -> By] /\ rehashes \in 0 .. MaxRehash /\ Sound(World)
  BY DEF ConnInv
<1>3. rehashes' \in 0 .. MaxRehash
  BY <1>1, <1>2, Bounds
<1>4. f \in Seq(Nodes)
  BY FilesAre
<1> HIDE DEF banned
<1>5. Goes(World, v)
  BY <1>2, <1>4, Rehashes
<1> HIDE DEF v
<1>6. \A d \in Slots : find_kill(d)' = find_kill(d)
  BY <1>1 DEF find_kill
<1> QED BY <1>1, <1>2, <1>3, <1>5, <1>6, Banning

LEMMA ConnStep ==
    ConnInv /\ [ConnNext]_connVars => ConnInv'
<1> SUFFICES ASSUME ConnInv, [ConnNext]_connVars PROVE ConnInv'
  OBVIOUS
<1>1. CASE ConnNext
  <2>1. ~lost
    BY <1>1 DEF ConnNext
  <2>2. CASE \E c \in Slots : \/ \E i \in DOMAIN line : Accept(c, i) \/ \E r \in BOOLEAN : Connect(c, i, r)
                              \/ Read(c) \/ Quit(c) \/ Completed(c)
                              \/ \E p \in BOOLEAN : Register(c, p) \/ Server(c, p)
    BY <2>1, <2>2, AcceptStep, ConnectStep, ReadStep, QuitStep, CompletedStep, RegisterStep, ServerStep
  <2>3. CASE \/ \E c \in Slots : Answer(c) \/ DnsDone(c) \/ DnsTimeout(c)
             \/ \E a \in cache : ExpireCache(a)
    BY <2>1, <2>3, AnswerStep, DnsDoneStep, DnsTimeoutStep, ExpireStep
  <2>4. CASE Pings \/ \E c \in Slots : Age(c) \/ dead_link(c)
    BY <2>1, <2>4, PingsStep, AgeStep, DeadLinkStep
  <2>5. CASE Ahurt \/ \E c \in Slots : Deop(c) \/ \E p \in BOOLEAN : Oper(c, p)
    BY <2>1, <2>5, DeopStep, OperStep, AhurtStep
  <2>6. CASE \E m \in KMasks : Kline(m) \/ Akill(m) \/ Unkline(m) \/ Rakill(m)
    <3>1. "temp" \in By /\ "akill" \in By
      BY DEF By
    <3>2. \A m \in KMasks : (kill[m] = "none") \in BOOLEAN /\ (~find_kill_byname(m)) \in BOOLEAN
      OBVIOUS
    <3>3. \A m \in KMasks : Kline(m) => ConnInv'
      BY <2>1, <3>1, <3>2, AddKillStep DEF Kline
    <3>4. \A m \in KMasks : Akill(m) => ConnInv'
      BY <2>1, <3>1, <3>2, AddKillStep DEF Akill
    <3>5. \A m \in KMasks : Unkline(m) \/ Rakill(m) => ConnInv'
      BY <2>1, <3>1, DelKillStep DEF Unkline, Rakill
    <3> QED BY <2>6, <3>3, <3>4, <3>5
  <2>7. CASE \E m \in ZMasks : Unzline(m) \/ \E c \in Slots : Zline(c, m)
    BY <2>1, <2>7, UnzlineStep, ZlineStep
  <2>8. CASE \E f \in Configs : Rehash(f)
    BY <2>1, <2>8, RehashStep
  <2> QED BY <1>1, <2>2, <2>3, <2>4, <2>5, <2>6, <2>7, <2>8 DEF ConnNext
<1>2. CASE UNCHANGED connVars
  <2>1. /\ World' = World /\ conn' = conn /\ cache' = cache /\ lost' = lost /\ kill' = kill
        /\ zap' = zap /\ rehashes' = rehashes
    BY <1>2 DEF connVars, World
  <2>2. \A d \in Slots : find_kill(d)' = find_kill(d)
    BY <2>1 DEF find_kill
  <2>3. Sound(World)' /\ Ordered(World)'
    BY <2>1 DEF ConnInv
  <2> QED BY <2>1, <2>2, <2>3 DEF ConnInv, OneLink, NoneKilled
<1> QED BY <1>1, <1>2

\* The types of the local connections, whatever the configuration files, bans
\* and bounds: in every state no count leaves the integers, no list names what
\* is not there and no more addresses than MAXCACHED are remembered.
THEOREM ConnTypes == ConnSpec => []ConnTypeOK
<1>1. ConnInv => ConnTypeOK
  BY ConnSafe
<1> QED BY <1>1, ConnInitially, ConnStep, PTL DEF ConnSpec

\* Whoever comes, registers, becomes an operator or a link and goes, and whatever
\* a rehash removes meanwhile, lines and classes count the connections there are:
\* attach_conf(), detach_conf(), close_connection() and rehash() agree.
THEOREM ConnCounted == ConnSpec => []Counted
<1>1. ConnInv => Counted
  BY ConnSafe
<1> QED BY <1>1, ConnInitially, ConnStep, PTL DEF ConnSpec

\* No question of the resolver, no host entry and no attached line outlives what
\* it points to: del_queries(), rem_cache(), rehash() and free_conf() see to it.
THEOREM ConnPointers == ConnSpec => []PointersLive
<1>1. ConnInv => PointersLive
  BY ConnSafe
<1> QED BY <1>1, ConnInitially, ConnStep, PTL DEF ConnSpec

\* The list that connections look their lines up in has every line in force once
\* and no other: config_read() and flush_lines() leave no removed line there, and
\* connect_server(), which takes its line out to put it at the end, keeps the rest.
THEOREM ConnInForce == ConnSpec => []InForce
<1>1. ConnInv => InForce
  BY ConnSafe
<1> QED BY <1>1, ConnInitially, ConnStep, PTL DEF ConnSpec

\* No user whom a K-line or an autokill matches stays after the command that
\* added it, a rehash or a registration.
THEOREM ConnNoneKilled == ConnSpec => []NoneKilled
<1>1. ConnInv => NoneKilled
  BY ConnSafe
<1> QED BY <1>1, ConnInitially, ConnStep, PTL DEF ConnSpec

\* Of all the links that two servers may open to each other at most one is let
\* in: m_server() looks for the other before it makes one a server.
THEOREM ConnOneLink == ConnSpec => []OneLink
<1>1. ConnInv => OneLink
  BY ConnSafe
<1> QED BY <1>1, ConnInitially, ConnStep, PTL DEF ConnSpec
==============================================================================
