---------------------------- MODULE TimerProofs ----------------------------
(***************************************************************************)
(* Theorems about Timer: type correctness, the sorted list, the uniqueness *)
(* of the timer ids, and that timeralarm() neither empties the list nor    *)
(* unlinks another item than the one it ran.                               *)
(***************************************************************************)
EXTENDS Timer, FiniteSets, FiniteSetTheorems, TLAPS

\* timer() hands out a positive id that fits an int.
LEMMA NextTidRange ==
    ASSUME NEW c \in 0 .. TidWidth - 1
    PROVE  NextTid(c) \in 1 .. TidWidth - 1
BY NumberAssumption DEF NextTid

\* Until the ids go round, the next one is the last one plus one.
LEMMA NextTidNew ==
    ASSUME NEW c \in 0 .. TidWidth - 1, NextTid(c) # 1
    PROVE  NextTid(c) = c + 1
<1>1. c + 1 < TidWidth => (c + 1) % TidWidth = c + 1
  BY NumberAssumption
<1>2. c + 1 = TidWidth => (c + 1) % TidWidth = 0
  BY NumberAssumption
<1> QED BY <1>1, <1>2, NumberAssumption DEF NextTid

\* Linking an item makes the list longer by one.
LEMMA InsertIsSeq ==
    ASSUME NEW s \in Seq(Item), NEW x \in Item
    PROVE  /\ Insert(s, x) \in Seq(Item)
           /\ Len(Insert(s, x)) = Len(s) + 1
BY DEF Insert

Ordered(s) == \A i \in 1 .. Len(s) : \A j \in 1 .. Len(s) : i < j => s[i].run <= s[j].run

\* In an ordered list the items due no later than t are a prefix of it.
LEMMA PrefixDue ==
    ASSUME NEW s \in Seq(Item), Ordered(s), NEW t \in Nat
    PROVE  \E k \in 0 .. Len(s) : \A i \in 1 .. Len(s) : s[i].run <= t <=> i <= k
<1> DEFINE A == {i \in 1 .. Len(s) : s[i].run <= t}
           k == Cardinality(A)
<1>1. IsFiniteSet(1 .. Len(s)) /\ Cardinality(1 .. Len(s)) = Len(s)
  <2>1. Len(s) \in Nat
    OBVIOUS
  <2> HIDE DEF A, k
  <2> QED BY <2>1, FS_Interval
<1>2. IsFiniteSet(A) /\ k \in Nat /\ k <= Len(s)
  <2>1. A \in SUBSET (1 .. Len(s))
    OBVIOUS
  <2> HIDE DEF A
  <2> QED BY <1>1, <2>1, FS_Subset, FS_CardinalityType
<1>3. IsFiniteSet(1 .. k) /\ Cardinality(1 .. k) = k
  BY <1>2, FS_Interval
<1>4. ASSUME NEW i \in A PROVE i <= k
  <2>1. ASSUME NEW j \in 1 .. i PROVE j \in A
    <3>1. j \in 1 .. Len(s) /\ i \in 1 .. Len(s) /\ s[i].run <= t
      OBVIOUS
    <3>2. s[i] \in Item /\ s[j] \in Item
      BY <3>1
    <3>3. s[j].run <= s[i].run
      BY <3>1, <3>2 DEF Ordered, Item
    <3>4. s[j].run <= t
      BY <3>1, <3>2, <3>3 DEF Item
    <3> QED BY <3>1, <3>4
  <2>2. i \in Nat /\ Cardinality(1 .. i) = i
    <3>1. i \in Nat /\ i >= 1
      OBVIOUS
    <3> HIDE DEF A
    <3> QED BY <3>1, FS_Interval
  <2>3. Cardinality(1 .. i) <= k
    <3> HIDE DEF A
    <3> QED BY <2>1, <1>2, FS_Subset
  <2> QED BY <2>2, <2>3
<1>5. A = 1 .. k
  <2>1. A \in SUBSET (1 .. k)
    BY <1>4, <1>2
  <2> HIDE DEF A
  <2> QED BY <2>1, <1>3, FS_Subset
<1> HIDE DEF k
<1>6. \A i \in 1 .. Len(s) : s[i].run <= t <=> i <= k
  BY <1>5, <1>2
<1> QED BY <1>6, <1>2

\* Where x goes in an ordered list.
LEMMA InsertAt ==
    ASSUME NEW s \in Seq(Item), Ordered(s), NEW x \in Item
    PROVE  \E p \in 1 .. Len(s) + 1 :
             /\ \A i \in 1 .. Len(s) : s[i].run <= x.run <=> i < p
             /\ \A i \in 1 .. Len(s) + 1 :
                   Insert(s, x)[i] = IF i < p THEN s[i] ELSE IF i = p THEN x ELSE s[i - 1]
<1>1. x.run \in Nat
  BY DEF Item
<1>2. PICK k \in 0 .. Len(s) : \A i \in 1 .. Len(s) : s[i].run <= x.run <=> i <= k
  BY <1>1, PrefixDue
<1>3. ASSUME NEW i \in 1 .. Len(s) + 1
      PROVE  Insert(s, x)[i] = IF i < k + 1 THEN s[i] ELSE IF i = k + 1 THEN x ELSE s[i - 1]
  <2>1. CASE i < k + 1
    BY <1>2, <2>1 DEF Insert
  <2>2. CASE i = k + 1
    BY <1>2, <2>2 DEF Insert
  <2>3. CASE i > k + 1
    BY <1>2, <2>3 DEF Insert
  <2> QED BY <2>1, <2>2, <2>3
<1> DEFINE p == k + 1
<1>4. p \in 1 .. Len(s) + 1 /\ \A i \in 1 .. Len(s) : s[i].run <= x.run <=> i < p
  BY <1>2
<1>5. \A i \in 1 .. Len(s) + 1 :
        Insert(s, x)[i] = IF i < p THEN s[i] ELSE IF i = p THEN x ELSE s[i - 1]
  BY <1>3
<1> HIDE DEF p
<1> QED BY <1>4, <1>5

Distinct(s) == \A i, j \in 1 .. Len(s) : s[i].tid = s[j].tid => i = j
UpTo(s, c) == \A i \in 1 .. Len(s) : s[i].tid \in 1 .. c

\* timer() keeps an ordered list ordered.
LEMMA InsertOrdered ==
    ASSUME NEW s \in Seq(Item), Ordered(s), NEW x \in Item
    PROVE  Ordered(Insert(s, x))
<1> DEFINE t == Insert(s, x)
<1>1. t \in Seq(Item) /\ Len(t) = Len(s) + 1
  BY InsertIsSeq
<1>2. PICK p \in 1 .. Len(s) + 1 :
        /\ \A i \in 1 .. Len(s) : s[i].run <= x.run <=> i < p
        /\ \A i \in 1 .. Len(s) + 1 :
              t[i] = IF i < p THEN s[i] ELSE IF i = p THEN x ELSE s[i - 1]
  BY InsertAt
<1> HIDE DEF t
<1>3. x.run \in Nat /\ \A i \in 1 .. Len(s) : s[i].run \in Nat
  <2>1. \A i \in 1 .. Len(s) : s[i] \in Item
    OBVIOUS
  <2> QED BY <2>1 DEF Item
<1>4. ASSUME NEW i \in 1 .. Len(t), NEW j \in 1 .. Len(t), i < j
      PROVE  t[i].run <= t[j].run
  <2>0. /\ i \in 1 .. Len(s) + 1 /\ j \in 1 .. Len(s) + 1 /\ p \in 1 .. Len(s) + 1
        /\ Len(s) \in Nat
    BY <1>1
  <2>1. CASE j < p
    <3>1. i \in 1 .. Len(s) /\ j \in 1 .. Len(s) /\ i < p
      BY <2>0, <1>4, <2>1
    <3>2. t[i] = s[i] /\ t[j] = s[j]
      BY <2>0, <1>2, <2>1, <3>1
    <3> QED BY <1>4, <3>1, <3>2 DEF Ordered
  <2>2. CASE j = p
    <3>1. i \in 1 .. Len(s) /\ i < p
      BY <2>0, <1>4, <2>2
    <3>2. t[i] = s[i] /\ t[j] = x
      BY <2>0, <1>2, <2>2, <3>1
    <3>3. s[i].run <= x.run
      BY <1>2, <3>1
    <3> QED BY <3>2, <3>3
  <2>3. CASE j > p /\ i < p
    <3>1. t[i] = s[i] /\ t[j] = s[j - 1] /\ i \in 1 .. Len(s) /\ j - 1 \in 1 .. Len(s)
      BY <2>0, <1>2, <2>3
    <3>2. s[i].run <= x.run /\ ~(s[j - 1].run <= x.run)
      BY <1>2, <2>3, <3>1
    <3> QED BY <1>3, <3>1, <3>2
  <2>4. CASE j > p /\ i = p
    <3>1. t[i] = x /\ t[j] = s[j - 1] /\ j - 1 \in 1 .. Len(s)
      BY <2>0, <1>2, <2>4
    <3>2. ~(s[j - 1].run <= x.run)
      BY <1>2, <2>4, <3>1
    <3> QED BY <1>3, <3>1, <3>2
  <2>5. CASE i > p
    <3>1. /\ t[i] = s[i - 1] /\ i - 1 \in 1 .. Len(s)
          /\ t[j] = s[j - 1] /\ j - 1 \in 1 .. Len(s)
          /\ i - 1 < j - 1
      BY <2>0, <1>2, <1>4, <2>5
    <3> QED BY <3>1 DEF Ordered
  <2> QED BY <1>4, <2>1, <2>2, <2>3, <2>4, <2>5
<1> QED BY <1>4 DEF Ordered, t

\* A new highest id keeps the ids distinct.
LEMMA InsertDistinct ==
    ASSUME NEW s \in Seq(Item), Ordered(s), Distinct(s), NEW x \in Item,
           NEW c \in Nat, UpTo(s, c), x.tid = c + 1
    PROVE  Distinct(Insert(s, x)) /\ UpTo(Insert(s, x), c + 1)
<1> DEFINE t == Insert(s, x)
<1>1. t \in Seq(Item) /\ Len(t) = Len(s) + 1
  BY InsertIsSeq
<1>2. PICK p \in 1 .. Len(s) + 1 :
        \A i \in 1 .. Len(s) + 1 :
              t[i] = IF i < p THEN s[i] ELSE IF i = p THEN x ELSE s[i - 1]
  BY InsertAt
<1> HIDE DEF t
<1>3. \A i \in 1 .. Len(t) :
        /\ i < p => t[i] = s[i] /\ i \in 1 .. Len(s)
        /\ i = p => t[i] = x
        /\ i > p => t[i] = s[i - 1] /\ i - 1 \in 1 .. Len(s)
  <2> SUFFICES ASSUME NEW i \in 1 .. Len(t)
               PROVE  /\ i < p => t[i] = s[i] /\ i \in 1 .. Len(s)
                      /\ i = p => t[i] = x
                      /\ i > p => t[i] = s[i - 1] /\ i - 1 \in 1 .. Len(s)
    OBVIOUS
  <2>1. Len(s) \in Nat /\ i \in 1 .. Len(s) + 1
    BY <1>1
  <2>2. t[i] = IF i < p THEN s[i] ELSE IF i = p THEN x ELSE s[i - 1]
    BY <1>2, <2>1
  <2>3. (i < p => i \in 1 .. Len(s)) /\ (i > p => i - 1 \in 1 .. Len(s))
    BY <2>1
  <2> QED BY <2>1, <2>2, <2>3
<1>4. \A i \in 1 .. Len(s) : s[i].tid \in 1 .. c
  BY DEF UpTo
<1>5. UpTo(t, c + 1)
  <2> SUFFICES ASSUME NEW i \in 1 .. Len(t) PROVE t[i].tid \in 1 .. c + 1
    BY DEF UpTo
  <2>1. i < p \/ i = p \/ i > p
    OBVIOUS
  <2>2. CASE i = p
    BY <1>3, <2>2
  <2>3. CASE i # p
    <3>1. \E m \in 1 .. Len(s) : t[i] = s[m]
      BY <1>3, <2>1, <2>3
    <3>2. t[i].tid \in 1 .. c
      BY <1>4, <3>1
    <3> QED BY <3>2
  <2> QED BY <2>2, <2>3
<1>6. ASSUME NEW i \in 1 .. Len(t), NEW j \in 1 .. Len(t), t[i].tid = t[j].tid
      PROVE  i = j
  <2>1. ASSUME NEW l \in 1 .. Len(t), l # p PROVE t[l].tid # c + 1
    <3>1. l < p \/ l > p
      BY <2>1
    <3>2. \E m \in 1 .. Len(s) : t[l] = s[m]
      BY <1>3, <3>1
    <3> QED BY <1>4, <3>2
  <2>2. CASE i = p \/ j = p
    BY <1>3, <1>6, <2>1, <2>2
  <2>3. CASE i # p /\ j # p
    <3> DEFINE u(l) == IF l < p THEN l ELSE l - 1
    <3>1. u(i) \in 1 .. Len(s) /\ u(j) \in 1 .. Len(s) /\ t[i] = s[u(i)] /\ t[j] = s[u(j)]
      BY <1>3, <2>3
    <3>2. u(i) = u(j)
      BY <1>6, <3>1 DEF Distinct
    <3> QED BY <2>3, <3>2
  <2> QED BY <2>2, <2>3
<1> QED BY <1>5, <1>6 DEF Distinct, t

\* Unlinking position p moves what is behind p one place forward.
LEMMA UnlinkIsSeq ==
    ASSUME NEW s \in Seq(Item), NEW p \in 1 .. Len(s)
    PROVE  /\ Unlink(s, p) \in Seq(Item)
           /\ Len(Unlink(s, p)) = Len(s) - 1
           /\ \A i \in 1 .. Len(s) - 1 : Unlink(s, p)[i] = IF i < p THEN s[i] ELSE s[i + 1]
BY DEF Unlink

\* Unlinking disturbs neither the order nor the ids of the others.
LEMMA UnlinkKeeps ==
    ASSUME NEW s \in Seq(Item), NEW p \in 1 .. Len(s)
    PROVE  /\ Ordered(s) => Ordered(Unlink(s, p))
           /\ Distinct(s) => Distinct(Unlink(s, p))
           /\ \A c \in Nat : UpTo(s, c) => UpTo(Unlink(s, p), c)
<1> DEFINE t == Unlink(s, p)
           u(i) == IF i < p THEN i ELSE i + 1
<1>1. \A i \in 1 .. Len(t) : u(i) \in 1 .. Len(s) /\ t[i] = s[u(i)]
  BY UnlinkIsSeq
<1>2. Len(t) \in Nat /\ \A i, j \in 1 .. Len(t) : (i < j => u(i) < u(j)) /\ (u(i) = u(j) => i = j)
  BY UnlinkIsSeq
<1> HIDE DEF t, u
<1>3. Ordered(s) => Ordered(t)
  BY <1>1, <1>2 DEF Ordered
<1>4. Distinct(s) => Distinct(t)
  BY <1>1, <1>2 DEF Distinct
<1>5. \A c \in Nat : UpTo(s, c) => UpTo(t, c)
  BY <1>1 DEF UpTo
<1> QED BY <1>3, <1>4, <1>5 DEF t
-----------------------------------------------------------------------------
(***************************************************************************)
(* The inductive invariant.                                                *)
(***************************************************************************)

\* The list: sorted, and until the ids have gone round each id is used once and
\* none of those still to come is in use.
ListInv ==
    /\ timers \in Seq(Item)
    /\ curtid \in 0 .. TidWidth - 1
    /\ overrun \in BOOLEAN
    /\ Ordered(timers)
    /\ ~overrun => Distinct(timers) /\ UpTo(timers, curtid)

\* timeralarm() works on the head of a list that is not empty.
AlarmInv ==
    /\ phase \in {"alarm", "call", "pop"} => Len(timers) > 0
    /\ phase = "call" => running = timers[1] /\ Period[running.call] > 0

\* timed_advert_maint is on the list, and is not what is about to be popped.
MaintAt(i) == timers[i].call = Maint /\ (phase = "pop" => i > 1)

MaintInv ==
    ~overrun => phase # "crashed" /\ \E i \in 1 .. Len(timers) : MaintAt(i)

IInv == TypeOK /\ ListInv /\ AlarmInv /\ MaintInv

\* timer() with a delay: the list invariant is kept, the new item is behind
\* everything due no later, and everything else moves by at most one place.
LEMMA LinkList ==
    ASSUME ListInv, now \in Nat, NEW s \in Nat, NEW c \in Calls, Link(s, c)
    PROVE  /\ ListInv'
           /\ Len(timers') = Len(timers) + 1
           /\ overrun => overrun'
           /\ \E p \in 1 .. Len(timers) + 1 :
                /\ \A i \in 1 .. Len(timers) : timers[i].run <= now + s <=> i < p
                /\ timers'[p].call = c
                /\ \A i \in 1 .. Len(timers) :
                     timers[i] = timers'[IF i < p THEN i ELSE i + 1]
<1> DEFINE x == [run |-> now + s, tid |-> NextTid(curtid), call |-> c]
<1>1. NextTid(curtid) \in 1 .. TidWidth - 1
  BY NextTidRange DEF ListInv
<1>2. x \in Item /\ x.run = now + s /\ x.tid = NextTid(curtid) /\ x.call = c
  BY <1>1 DEF Item
<1>3. /\ timers' = Insert(timers, x) /\ curtid' = NextTid(curtid)
      /\ overrun' = (overrun \/ NextTid(curtid) = 1)
  BY DEF Link
<1> HIDE DEF x
<1>4. timers' \in Seq(Item) /\ Len(timers') = Len(timers) + 1
  BY <1>2, <1>3, InsertIsSeq DEF ListInv
<1>5. Ordered(timers')
  BY <1>2, <1>3, InsertOrdered DEF ListInv
<1>6. ~overrun' => Distinct(timers') /\ UpTo(timers', curtid')
  <2>1. SUFFICES ASSUME ~overrun' PROVE Distinct(timers') /\ UpTo(timers', curtid')
    OBVIOUS
  <2>2. curtid \in Nat /\ NextTid(curtid) = curtid + 1
    <3>1. NextTid(curtid) # 1
      BY <1>3, <2>1
    <3>2. curtid \in 0 .. TidWidth - 1 /\ curtid \in Nat
      BY NumberAssumption DEF ListInv
    <3> QED BY <3>1, <3>2, NextTidNew
  <2>3. Distinct(timers) /\ UpTo(timers, curtid)
    BY <1>3, <2>1 DEF ListInv
  <2> QED BY <1>2, <1>3, <2>2, <2>3, InsertDistinct DEF ListInv
<1>7. ListInv' /\ (overrun => overrun')
  BY <1>1, <1>3, <1>4, <1>5, <1>6 DEF ListInv
<1>8. PICK p \in 1 .. Len(timers) + 1 :
        /\ \A i \in 1 .. Len(timers) : timers[i].run <= now + s <=> i < p
        /\ \A i \in 1 .. Len(timers) + 1 : timers'[i] =
              IF i < p THEN timers[i] ELSE IF i = p THEN x ELSE timers[i - 1]
  <2>1. timers \in Seq(Item) /\ Ordered(timers)
    BY DEF ListInv
  <2>2. PICK p \in 1 .. Len(timers) + 1 :
          /\ \A i \in 1 .. Len(timers) : timers[i].run <= x.run <=> i < p
          /\ \A i \in 1 .. Len(timers) + 1 : Insert(timers, x)[i] =
                IF i < p THEN timers[i] ELSE IF i = p THEN x ELSE timers[i - 1]
    BY <1>2, <2>1, InsertAt
  <2> QED BY <1>2, <1>3, <2>2
<1>9. timers'[p].call = c
  BY <1>2, <1>8
<1>10. ASSUME NEW i \in 1 .. Len(timers)
       PROVE  timers[i] = timers'[IF i < p THEN i ELSE i + 1]
  <2>1. Len(timers) \in Nat
    BY DEF ListInv
  <2>2. CASE i < p
    BY <1>8, <2>1, <2>2
  <2>3. CASE i >= p
    BY <1>8, <2>1, <2>3
  <2> QED BY <2>2, <2>3
<1> QED BY <1>4, <1>7, <1>8, <1>9, <1>10

\* cancel_timer() takes the timer it was given and no other: every call with a
\* different id stays.
LEMMA CancelList ==
    ASSUME ListInv, NEW t, CancelTimer(t)
    PROVE  /\ ListInv'
           /\ \A i \in 1 .. Len(timers) : timers[i].tid # t =>
                \E j \in 1 .. Len(timers') : timers'[j] = timers[i]
<1> DEFINE found == {i \in 1 .. Len(timers) : timers[i].tid = t}
<1>1. CASE found = {}
  <2>1. UNCHANGED <<timers, curtid, overrun>>
    BY <1>1 DEF CancelTimer
  <2> QED BY <2>1 DEF ListInv, Ordered, Distinct, UpTo
<1>2. CASE found # {}
  <2>1. PICK p \in found : timers' = Unlink(timers, p)
    BY <1>2 DEF CancelTimer
  <2>2. /\ curtid' = curtid /\ overrun' = overrun
        /\ timers \in Seq(Item) /\ p \in 1 .. Len(timers) /\ timers[p].tid = t
    BY <2>1 DEF CancelTimer, ListInv
  <2>3. ListInv'
    <3>1. curtid \in Nat
      BY NumberAssumption DEF ListInv
    <3> QED BY <2>1, <2>2, <3>1, UnlinkIsSeq, UnlinkKeeps DEF ListInv
  <2>4. ASSUME NEW i \in 1 .. Len(timers), timers[i].tid # t
        PROVE  \E j \in 1 .. Len(timers') : timers'[j] = timers[i]
    <3> DEFINE j == IF i < p THEN i ELSE i - 1
    <3>1. i # p
      BY <2>2, <2>4
    <3>2. j \in 1 .. Len(timers) - 1 /\ i = IF j < p THEN j ELSE j + 1
      BY <2>2, <3>1
    <3>3. j \in 1 .. Len(timers') /\ timers'[j] = timers[i]
      <4> HIDE DEF j
      <4> QED BY <2>1, <2>2, <3>2, UnlinkIsSeq
    <3> QED BY <3>3
  <2> QED BY <2>3, <2>4
<1> QED BY <1>1, <1>2

\* main() arms its two timers in an order that establishes the invariant.
LEMMA InitInv == Init => IInv
<1> SUFFICES ASSUME Init PROVE IInv
  OBVIOUS
<1>1. NoItem \in Item
  BY CallAssumption, NumberAssumption DEF NoItem, Item
<1> DEFINE x == [run |-> MaintDelay, tid |-> 2, call |-> Maint]
           y == [run |-> QueueDelay, tid |-> 1, call |-> Queue]
<1>2. x \in Item /\ y \in Item
  BY CallAssumption, NumberAssumption DEF Item
<1>3. /\ timers = <<x, y>> /\ Len(timers) = 2
      /\ timers[1] = x /\ timers[2] = y
  BY DEF Init
<1>4. timers \in Seq(Item)
  BY <1>2, <1>3
<1>5. x.run <= y.run /\ x.tid = 2 /\ y.tid = 1 /\ x.call = Maint
  BY NumberAssumption
<1> HIDE DEF x, y
<1>6. TypeOK
  <2>1. MaxLines \in Nat /\ MaxCalls \in Nat /\ MaxBack \in Nat /\ 2 \in 0 .. TidWidth - 1
    BY NumberAssumption
  <2>2. budget \in [line : Nat, call : Nat, back : Nat]
    BY <2>1 DEF Init
  <2> QED BY <1>1, <1>4, <2>1, <2>2 DEF Init, TypeOK, Phases
<1>7. ListInv
  <2>1. \A i \in 1 .. Len(timers) : i = 1 \/ i = 2
    BY <1>3
  <2>2. Ordered(timers)
    BY <1>3, <1>5, <2>1 DEF Ordered
  <2>3. Distinct(timers) /\ UpTo(timers, 2)
    BY <1>3, <1>5, <2>1 DEF Distinct, UpTo
  <2>4. curtid = 2 /\ curtid \in 0 .. TidWidth - 1 /\ overrun = FALSE
    BY NumberAssumption DEF Init
  <2> QED BY <1>4, <2>2, <2>3, <2>4 DEF ListInv
<1>8. AlarmInv /\ MaintInv
  <2>1. phase = "select"
    BY DEF Init
  <2>2. 1 \in 1 .. Len(timers) /\ MaintAt(1)
    BY <1>3, <1>5, <2>1 DEF MaintAt
  <2> QED BY <2>1, <2>2 DEF AlarmInv, MaintInv
<1> QED BY <1>6, <1>7, <1>8 DEF IInv

\* A step that leaves the list and the alarm alone.
LEMMA QuietStep ==
    ASSUME IInv, UNCHANGED <<listVars, phase, running>>
    PROVE  ListInv' /\ AlarmInv' /\ MaintInv'
BY DEF IInv, ListInv, AlarmInv, MaintInv, MaintAt, Ordered, Distinct, UpTo, listVars

\* The clock, the server connection and the IPC clients do not touch the list.
LEMMA EnvironmentStep ==
    ASSUME IInv, Environment
    PROVE  IInv'
<1>1. TypeOK
  BY DEF IInv
<1>2. UNCHANGED <<listVars, phase, running>>
  BY DEF Environment, Tick, ClockStep, LineArrives, IpcConnect, IpcClose, alarmVars
<1>3. TypeOK'
  <2>1. CASE Tick
    BY <1>1, <2>1 DEF TypeOK, Tick, listVars, alarmVars, loopVars
  <2>2. CASE ClockStep
    BY <1>1, <2>2 DEF TypeOK, ClockStep, listVars, alarmVars
  <2>3. CASE LineArrives
    BY <1>1, <2>3 DEF TypeOK, LineArrives, listVars, alarmVars
  <2>4. CASE IpcConnect
    BY <1>1, <2>4 DEF TypeOK, IpcConnect, listVars, alarmVars
  <2>5. CASE IpcClose
    BY <1>1, <2>5 DEF TypeOK, IpcClose, listVars, alarmVars
  <2> QED BY <2>1, <2>2, <2>3, <2>4, <2>5 DEF Environment
<1> QED BY <1>2, <1>3, QuietStep DEF IInv

\* Handling a line: any number of timer() and cancel_timer() calls.
LEMMA LinesStep ==
    ASSUME IInv, Lines
    PROVE  IInv'
<1>1. TypeOK /\ ListInv /\ AlarmInv /\ MaintInv
  BY DEF IInv
<1>2. ASSUME BeginLine \/ EndLine PROVE IInv'
  <2>1. TypeOK'
    BY <1>1, <1>2 DEF TypeOK, Phases, BeginLine, EndLine, listVars, alarmVars, loopVars
  <2>2. ListInv'
    BY <1>1, <1>2 DEF ListInv, Ordered, Distinct, UpTo, BeginLine, EndLine, listVars
  <2>3. AlarmInv' /\ MaintInv'
    BY <1>1, <1>2 DEF AlarmInv, MaintInv, MaintAt, BeginLine, EndLine, listVars
  <2> QED BY <2>1, <2>2, <2>3 DEF IInv
<1>3. ASSUME HandlerArm PROVE IInv'
  <2>1. PICK s \in Delays, c \in Calls \ {Maint} : Arm(s, c)
    BY <1>3 DEF HandlerArm
  <2>2. /\ s \in Nat /\ c \in Calls /\ Period[c] \in Nat /\ now \in Nat
        /\ phase = "handle"
        /\ UNCHANGED <<now, phase, curtime, running, lines, ipc>>
    BY <1>1, <1>3, CallAssumption, NumberAssumption DEF HandlerArm, TypeOK, alarmVars
  <2>3. (\E d \in Nat : Link(d, c)) \/ UNCHANGED listVars
    BY <2>1, <2>2 DEF Arm
  <2>4. CASE UNCHANGED listVars
    <3>1. TypeOK'
      BY <1>1, <1>3, <2>2, <2>4 DEF TypeOK, HandlerArm, listVars
    <3> QED BY <2>2, <2>4, <3>1, QuietStep DEF IInv
  <2>5. CASE \E d \in Nat : Link(d, c)
    <3>1. PICK d \in Nat : Link(d, c)
      BY <2>5
    <3>2. PICK p \in 1 .. Len(timers) + 1 :
            /\ ListInv' /\ Len(timers') = Len(timers) + 1
            /\ overrun => overrun'
            /\ \A i \in 1 .. Len(timers) :
                 timers[i] = timers'[IF i < p THEN i ELSE i + 1]
      BY <1>1, <2>2, <3>1, LinkList
    <3>3. TypeOK'
      <4>1. /\ timers' \in Seq(Item) /\ curtid' \in 0 .. TidWidth - 1
            /\ overrun' \in BOOLEAN
        BY <3>2 DEF ListInv
      <4>2. budget' \in [line : Nat, call : Nat, back : Nat]
        BY <1>1, <1>3 DEF TypeOK, HandlerArm
      <4> QED BY <1>1, <2>2, <4>1, <4>2 DEF TypeOK
    <3>4. AlarmInv'
      BY <2>2 DEF AlarmInv
    <3>5. MaintInv'
      <4>1. SUFFICES ASSUME ~overrun'
                     PROVE  \E j \in 1 .. Len(timers') : timers'[j].call = Maint
        BY <2>2 DEF MaintInv, MaintAt
      <4>2. PICK i \in 1 .. Len(timers) : timers[i].call = Maint
        BY <1>1, <3>2, <4>1 DEF MaintInv, MaintAt
      <4>3. (IF i < p THEN i ELSE i + 1) \in 1 .. Len(timers')
        BY <3>2, <4>2
      <4> QED BY <3>2, <4>2, <4>3
    <3> QED BY <3>2, <3>3, <3>4, <3>5 DEF IInv
  <2> QED BY <2>3, <2>4, <2>5
<1>4. ASSUME HandlerCancel PROVE IInv'
  <2>1. PICK t \in {0} \cup {timers[i].tid : i \in {j \in 1 .. Len(timers) :
                              timers[j].call \in Cancellable}} : CancelTimer(t)
    BY <1>4 DEF HandlerCancel
  <2>2. /\ phase = "handle"
        /\ UNCHANGED <<now, phase, curtime, running, lines, ipc, budget>>
    BY <1>4 DEF HandlerCancel, alarmVars, loopVars
  <2>3. ListInv' /\ overrun' = overrun
    BY <1>1, <2>1, CancelList DEF CancelTimer
  <2>4. TypeOK'
    BY <1>1, <2>2, <2>3 DEF TypeOK, ListInv
  <2>5. AlarmInv'
    BY <2>2 DEF AlarmInv
  <2>6. MaintInv'
    <3>1. SUFFICES ASSUME ~overrun
                   PROVE  \E j \in 1 .. Len(timers') : timers'[j].call = Maint
      BY <2>2, <2>3 DEF MaintInv, MaintAt
    <3>2. PICK i \in 1 .. Len(timers) : timers[i].call = Maint
      BY <1>1, <3>1 DEF MaintInv, MaintAt
    <3>3. Distinct(timers) /\ UpTo(timers, curtid)
      BY <1>1, <3>1 DEF ListInv
    <3>4. timers[i].tid # t
      <4>1. CASE t = 0
        BY <3>2, <3>3, <4>1 DEF UpTo
      <4>2. CASE \E j \in 1 .. Len(timers) : t = timers[j].tid /\ timers[j].call \in Cancellable
        <5>1. PICK j \in 1 .. Len(timers) : t = timers[j].tid /\ timers[j].call \in Cancellable
          BY <4>2
        <5>2. i # j
          BY <3>2, <5>1, CallAssumption, MaintAssumption
        <5> QED BY <3>2, <3>3, <5>1, <5>2 DEF Distinct
      <4> QED BY <2>1, <4>1, <4>2
    <3>5. PICK j \in 1 .. Len(timers') : timers'[j] = timers[i]
      BY <1>1, <2>1, <3>4, CancelList
    <3> QED BY <3>2, <3>5
  <2> QED BY <2>3, <2>4, <2>5, <2>6 DEF IInv
<1> QED BY <1>2, <1>3, <1>4 DEF Lines

\* One pass of timeralarm().
LEMMA AlarmsStep ==
    ASSUME IInv, Alarms
    PROVE  IInv'
<1>1. TypeOK /\ ListInv /\ AlarmInv /\ MaintInv
  BY DEF IInv
<1>2. timers \in Seq(Item) /\ Len(timers) \in Nat
  BY <1>1 DEF ListInv
<1>3. ASSUME Alarm \/ AlarmDone PROVE IInv'
  <2>1. TypeOK'
    BY <1>1, <1>3 DEF TypeOK, Phases, Alarm, AlarmDone, listVars, loopVars
  <2>2. ListInv'
    BY <1>1, <1>3 DEF ListInv, Ordered, Distinct, UpTo, Alarm, AlarmDone, listVars
  <2>3. MaintInv'
    BY <1>1, <1>3 DEF MaintInv, MaintAt, Alarm, AlarmDone, listVars
  <2>4. AlarmInv'
    BY <1>2, <1>3 DEF AlarmInv, Alarm, AlarmDone, listVars
  <2> QED BY <2>1, <2>2, <2>3, <2>4 DEF IInv
<1>4. ASSUME AlarmCall PROVE IInv'
  <2>1. Len(timers) > 0 /\ timers[1] \in Item
    BY <1>1, <1>2, <1>4 DEF AlarmInv, AlarmCall
  <2>2. timers[1].call \in Calls /\ Period[timers[1].call] \in Nat
    BY <2>1, CallAssumption DEF Item
  <2>3. TypeOK'
    BY <1>1, <1>4, <2>1 DEF TypeOK, Phases, AlarmCall, listVars, loopVars
  <2>4. ListInv'
    BY <1>1, <1>4 DEF ListInv, Ordered, Distinct, UpTo, AlarmCall, listVars
  <2>5. AlarmInv'
    BY <1>4, <2>1 DEF AlarmInv, AlarmCall, listVars
  <2>6. MaintInv'
    <3>1. SUFFICES ASSUME ~overrun PROVE \E i \in 1 .. Len(timers) : MaintAt(i)'
      BY <1>4 DEF MaintInv, MaintAt, AlarmCall, listVars
    <3>2. PICK i \in 1 .. Len(timers) : timers[i].call = Maint
      BY <1>1, <3>1 DEF MaintInv, MaintAt
    <3>3. phase' = "pop" => timers[1].call # Maint
      BY <1>4, MaintAssumption DEF AlarmCall
    <3>4. phase' = "pop" => i > 1
      BY <1>2, <3>2, <3>3
    <3> QED BY <1>4, <3>2, <3>4 DEF MaintAt, AlarmCall, listVars
  <2> QED BY <2>3, <2>4, <2>5, <2>6 DEF IInv
<1>5. ASSUME CallRearm PROVE IInv'
  <2> DEFINE c == running.call
  <2>1. /\ c \in Calls /\ Period[c] \in Nat /\ now \in Nat
        /\ Len(timers) > 0 /\ c = timers[1].call
    BY <1>1, <1>5, CallAssumption DEF TypeOK, Item, AlarmInv, CallRearm
  <2>2. Link(Period[c], c) /\ phase' = "pop"
    BY <1>5 DEF CallRearm
  <2> HIDE DEF c
  <2>3. PICK p \in 1 .. Len(timers) + 1 :
          /\ ListInv' /\ Len(timers') = Len(timers) + 1
          /\ overrun => overrun'
          /\ timers'[p].call = c
          /\ \A i \in 1 .. Len(timers) :
               timers[i] = timers'[IF i < p THEN i ELSE i + 1]
    BY <1>1, <2>1, <2>2, LinkList
  <2>4. TypeOK'
    <3>1. /\ timers' \in Seq(Item) /\ curtid' \in 0 .. TidWidth - 1
          /\ overrun' \in BOOLEAN
      BY <2>3 DEF ListInv
    <3> QED BY <1>1, <1>5, <3>1 DEF TypeOK, Phases, CallRearm, alarmVars, loopVars
  <2>5. AlarmInv'
    BY <1>2, <2>1, <2>2, <2>3 DEF AlarmInv
  <2>6. MaintInv'
    <3>1. SUFFICES ASSUME ~overrun'
                   PROVE  \E j \in 1 .. Len(timers') : timers'[j].call = Maint /\ j > 1
      BY <2>2 DEF MaintInv, MaintAt
    <3>2. PICK i \in 1 .. Len(timers) : timers[i].call = Maint
      BY <1>1, <2>3, <3>1 DEF MaintInv, MaintAt
    <3>3. CASE p > 1 /\ c = Maint
      BY <1>2, <2>3, <3>3
    <3>4. CASE p > 1 /\ c # Maint
      <4>1. i > 1
        BY <2>1, <3>2, <3>4
      <4>2. (IF i < p THEN i ELSE i + 1) \in 2 .. Len(timers')
        BY <1>2, <2>3, <4>1
      <4> QED BY <2>3, <3>2, <4>2
    <3>5. CASE p = 1
      <4>1. i + 1 \in 2 .. Len(timers') /\ timers[i] = timers'[i + 1]
        BY <1>2, <2>3, <3>5
      <4> QED BY <3>2, <4>1
    <3> QED BY <3>3, <3>4, <3>5
  <2> QED BY <2>3, <2>4, <2>5, <2>6 DEF IInv
<1>6. ASSUME AlarmPop PROVE IInv'
  <2>1. /\ 1 \in 1 .. Len(timers) /\ timers' = Unlink(timers, 1)
        /\ phase' = IF Len(timers) = 1 THEN "crashed" ELSE "alarm"
        /\ UNCHANGED <<now, curtid, overrun, curtime, lines, ipc, budget>>
    BY <1>1, <1>2, <1>6 DEF AlarmInv, AlarmPop, loopVars
  <2>2. /\ timers' \in Seq(Item) /\ Len(timers') = Len(timers) - 1
        /\ \A i \in 1 .. Len(timers) - 1 : timers'[i] = timers[i + 1]
    BY <1>2, <2>1, UnlinkIsSeq
  <2>3. TypeOK'
    <3>1. NoItem \in Item
      BY CallAssumption, NumberAssumption DEF NoItem, Item
    <3> QED BY <1>1, <1>6, <2>1, <2>2, <3>1 DEF TypeOK, Phases, AlarmPop
  <2>4. ListInv'
    <3>1. curtid \in Nat
      BY <1>1, NumberAssumption DEF ListInv
    <3> QED BY <1>1, <2>1, <2>2, <3>1, UnlinkKeeps DEF ListInv
  <2>5. AlarmInv'
    BY <1>2, <2>1, <2>2 DEF AlarmInv
  <2>6. MaintInv'
    <3>1. SUFFICES ASSUME ~overrun
                   PROVE  phase' = "alarm" /\ \E j \in 1 .. Len(timers') : timers'[j].call = Maint
      BY <2>1 DEF MaintInv, MaintAt
    <3>2. PICK i \in 1 .. Len(timers) : timers[i].call = Maint /\ i > 1
      BY <1>1, <1>6, <3>1 DEF MaintInv, MaintAt, AlarmPop
    <3>3. i - 1 \in 1 .. Len(timers') /\ timers'[i - 1] = timers[i] /\ phase' = "alarm"
      BY <1>2, <2>1, <2>2, <3>2
    <3> QED BY <3>2, <3>3
  <2> QED BY <2>3, <2>4, <2>5, <2>6 DEF IInv
<1> QED BY <1>3, <1>4, <1>5, <1>6 DEF Alarms

\* IInv holds in every reachable state.
THEOREM Inductive == Spec => []IInv
<1>1. IInv /\ [Next]_vars => IInv'
  <2> SUFFICES ASSUME IInv, [Next]_vars PROVE IInv'
    OBVIOUS
  <2>1. CASE UNCHANGED vars
    <3>1. UNCHANGED <<listVars, phase, running>> /\ TypeOK'
      BY <2>1 DEF vars, listVars, IInv, TypeOK
    <3> QED BY <3>1, QuietStep DEF IInv
  <2> QED BY <2>1, EnvironmentStep, LinesStep, AlarmsStep DEF Next
<1> QED BY <1>1, InitInv, PTL DEF Spec
-----------------------------------------------------------------------------
(***************************************************************************)
(* What the invariant gives.                                               *)
(***************************************************************************)

\* Every variable of services/timer.c and of main()'s loop keeps its type; in
\* particular every timer id fits the int it is kept in.
THEOREM TypeCorrect == Spec => []TypeOK
BY Inductive, PTL DEF IInv

\* However the handlers arm and cancel, and whatever the clock does, the list
\* timer() and cancel_timer() build is sorted by due time.
THEOREM ListSorted == Spec => []Sorted
<1>1. IInv => Sorted
  BY DEF IInv, ListInv, Ordered, Sorted
<1> QED BY <1>1, Inductive, PTL

\* Until timer() has announced "Timer ID overrun!", the id of a timer names one
\* item of the list.
THEOREM TidsUnique == Spec => []UniqueTids
<1>1. IInv => UniqueTids
  BY DEF IInv, ListInv, Distinct, UniqueTids
<1> QED BY <1>1, Inductive, PTL

\* Until then timeralarm() never unlinks the last item: main()'s timed_advert_maint
\* is always on the list behind the one that is popped.
THEOREM NeverEmpty == Spec => []NeverEmptied
<1>1. IInv => NeverEmptied
  <2> SUFFICES ASSUME IInv, ~overrun PROVE phase # "crashed" /\ timers # <<>>
    BY DEF NeverEmptied
  <2>1. phase # "crashed" /\ \E i \in 1 .. Len(timers) : MaintAt(i)
    BY DEF IInv, MaintInv
  <2>2. timers # <<>>
    BY <2>1
  <2> QED BY <2>1, <2>2
<1> QED BY <1>1, Inductive, PTL

\* While an alarm is being handled, what the call that is running re-arms goes
\* behind the head, as long as the clock is not stepped back.
RunsHead ==
    /\ phase \in {"alarm", "call", "pop"} => curtime <= now
    /\ phase \in {"call", "pop"} => running = timers[1]
    /\ phase = "call" => timers[1].run <= curtime

RunInv == budget.back <= MaxBack /\ (Steady => RunsHead)

\* RunInv holds in every reachable state.
LEMMA HeadRuns == Spec => []RunInv
<1>1. Init => RunInv
  BY NumberAssumption DEF Init, RunInv, RunsHead, Steady
<1>2. IInv /\ RunInv /\ [Next]_vars => RunInv'
  <2> SUFFICES ASSUME IInv, RunInv, [Next]_vars PROVE RunInv'
    OBVIOUS
  <2>1. TypeOK /\ ListInv /\ AlarmInv /\ MaxBack \in Nat /\ budget.back \in Nat
    BY NumberAssumption DEF IInv, TypeOK
  <2>2. CASE UNCHANGED vars
    BY <2>2 DEF vars, RunInv, RunsHead, Steady
  <2>3. CASE Environment
    <3>1. CASE Tick
      BY <2>1, <3>1 DEF Tick, RunInv, RunsHead, Steady, TypeOK, listVars, alarmVars, loopVars
    <3>2. CASE ClockStep
      BY <2>1, <3>2 DEF ClockStep, RunInv, Steady, TypeOK
    <3>3. CASE LineArrives
      BY <2>1, <3>3 DEF LineArrives, RunInv, RunsHead, Steady, TypeOK, listVars, alarmVars
    <3>4. CASE IpcConnect \/ IpcClose
      BY <3>4 DEF IpcConnect, IpcClose, RunInv, RunsHead, Steady, listVars, alarmVars
    <3> QED BY <2>3, <3>1, <3>2, <3>3, <3>4 DEF Environment
  <2>4. CASE Lines
    <3>1. phase' \in {"handle", "select"} /\ budget'.back = budget.back
      BY <2>1, <2>4 DEF Lines, BeginLine, HandlerArm, HandlerCancel, EndLine, TypeOK, loopVars
    <3> QED BY <3>1 DEF RunInv, RunsHead, Steady
  <2>5. CASE Alarm
    BY <2>1, <2>5 DEF Alarm, RunInv, RunsHead, Steady, TypeOK, loopVars
  <2>6. CASE AlarmCall
    BY <2>6 DEF AlarmCall, RunInv, RunsHead, Steady, listVars, loopVars
  <2>7. CASE CallRearm
    <3> SUFFICES ASSUME Steady PROVE RunInv'
      BY <2>7 DEF CallRearm, RunInv, Steady, loopVars
    <3> DEFINE c == running.call
    <3>1. /\ c \in Calls /\ Period[c] \in Nat /\ Period[c] > 0 /\ now \in Nat /\ curtime \in Nat
          /\ 1 \in 1 .. Len(timers) /\ timers[1].run \in Nat
      BY <2>1, <2>7, CallAssumption DEF CallRearm, AlarmInv, TypeOK, Item
    <3>2. Link(Period[c], c)
      BY <2>7 DEF CallRearm
    <3>3. timers[1].run <= now + Period[c]
      BY <2>7, <3>1 DEF CallRearm, RunInv, RunsHead, Steady
    <3> HIDE DEF c
    <3>4. PICK p \in 1 .. Len(timers) + 1 :
            /\ \A i \in 1 .. Len(timers) : timers[i].run <= now + Period[c] <=> i < p
            /\ \A i \in 1 .. Len(timers) : timers[i] = timers'[IF i < p THEN i ELSE i + 1]
      BY <2>1, <3>1, <3>2, LinkList
    <3>5. timers'[1] = timers[1]
      BY <3>1, <3>3, <3>4
    <3> QED BY <2>7, <3>5 DEF CallRearm, RunInv, RunsHead, Steady, alarmVars, loopVars
  <2>8. CASE AlarmPop
    BY <2>8 DEF AlarmPop, RunInv, RunsHead, Steady, loopVars
  <2>9. CASE AlarmDone
    BY <2>9 DEF AlarmDone, RunInv, RunsHead, Steady, listVars, loopVars
  <2> QED BY <2>2, <2>3, <2>4, <2>5, <2>6, <2>7, <2>8, <2>9 DEF Next, Alarms
<1> QED BY <1>1, <1>2, Inductive, PTL DEF Spec

\* Until the clock is stepped back, timeralarm() unlinks the item whose call it
\* ran, whatever the call did to the list.
THEOREM PopsRan == Spec => []PopsWhatItRan
<1>1. RunInv => PopsWhatItRan
  BY DEF RunInv, RunsHead, PopsWhatItRan
<1> QED BY <1>1, HeadRuns, PTL
-----------------------------------------------------------------------------
(***************************************************************************)
(* timer.c implements TimerAbs.                                            *)
(***************************************************************************)

\* Timers due together stand in the order they were asked for.
Fifo(s) ==
    \A i \in 1 .. Len(s) : \A j \in 1 .. Len(s) :
        i < j /\ s[i].run = s[j].run => s[i].tid < s[j].tid

\* The items from place k on.
Items(s, k) == {s[i] : i \in k .. Len(s)}

\* The latest timer goes behind those due at the same time.
LEMMA InsertFifo ==
    ASSUME NEW s \in Seq(Item), Ordered(s), Fifo(s), NEW x \in Item,
           NEW c \in Nat, UpTo(s, c), x.tid = c + 1
    PROVE  Fifo(Insert(s, x))
<1> DEFINE t == Insert(s, x)
<1>1. t \in Seq(Item) /\ Len(t) = Len(s) + 1 /\ Len(s) \in Nat
  BY InsertIsSeq
<1>2. PICK p \in 1 .. Len(s) + 1 :
        /\ \A i \in 1 .. Len(s) : s[i].run <= x.run <=> i < p
        /\ \A i \in 1 .. Len(s) + 1 :
              t[i] = IF i < p THEN s[i] ELSE IF i = p THEN x ELSE s[i - 1]
  BY InsertAt
<1> HIDE DEF t
<1>3. x.run \in Nat /\ \A i \in 1 .. Len(s) : s[i].run \in Nat /\ s[i].tid \in 1 .. c
  <2>1. \A i \in 1 .. Len(s) : s[i] \in Item
    OBVIOUS
  <2> QED BY <2>1 DEF Item, UpTo
<1>4. ASSUME NEW i \in 1 .. Len(t), NEW j \in 1 .. Len(t), i < j, t[i].run = t[j].run
      PROVE  t[i].tid < t[j].tid
  <2>0. i \in 1 .. Len(s) + 1 /\ j \in 1 .. Len(s) + 1
    BY <1>1
  <2>1. CASE j < p
    <3>1. t[i] = s[i] /\ t[j] = s[j] /\ i \in 1 .. Len(s) /\ j \in 1 .. Len(s)
      BY <1>1, <2>0, <1>2, <1>4, <2>1
    <3> QED BY <1>4, <3>1 DEF Fifo
  <2>2. CASE j = p
    <3>1. t[i] = s[i] /\ t[j] = x /\ i \in 1 .. Len(s)
      BY <1>1, <2>0, <1>2, <1>4, <2>2
    <3> QED BY <1>3, <3>1
  <2>3. CASE j > p /\ i < p
    <3>1. t[i] = s[i] /\ t[j] = s[j - 1] /\ i \in 1 .. Len(s) /\ j - 1 \in 1 .. Len(s) /\ i < j - 1
      BY <1>1, <2>0, <1>2, <2>3
    <3> QED BY <1>4, <3>1 DEF Fifo
  <2>4. CASE j > p /\ i = p
    <3>1. t[i] = x /\ t[j] = s[j - 1] /\ j - 1 \in 1 .. Len(s)
      BY <1>1, <2>0, <1>2, <2>4
    <3>2. ~(s[j - 1].run <= x.run)
      BY <1>2, <2>4, <3>1
    <3> QED BY <1>3, <1>4, <3>1, <3>2
  <2>5. CASE i > p
    <3>1. /\ t[i] = s[i - 1] /\ i - 1 \in 1 .. Len(s)
          /\ t[j] = s[j - 1] /\ j - 1 \in 1 .. Len(s)
          /\ i - 1 < j - 1
      BY <1>1, <2>0, <1>2, <1>4, <2>5
    <3> QED BY <1>4, <3>1 DEF Fifo
  <2> QED BY <1>4, <2>0, <2>1, <2>2, <2>3, <2>4, <2>5
<1> QED BY <1>4 DEF Fifo, t

\* Unlinking leaves the others in their order.
LEMMA UnlinkFifo ==
    ASSUME NEW s \in Seq(Item), Fifo(s), NEW p \in 1 .. Len(s)
    PROVE  Fifo(Unlink(s, p))
<1> DEFINE t == Unlink(s, p)
           u(i) == IF i < p THEN i ELSE i + 1
<1>1. \A i \in 1 .. Len(t) : u(i) \in 1 .. Len(s) /\ t[i] = s[u(i)]
  BY UnlinkIsSeq
<1>2. Len(t) \in Nat /\ \A i, j \in 1 .. Len(t) : i < j => u(i) < u(j)
  BY UnlinkIsSeq
<1> HIDE DEF t, u
<1> QED BY <1>1, <1>2 DEF Fifo, t

\* Linking adds the new item and nothing else; behind a head that is due no later
\* when the head is not counted.
LEMMA InsertItems ==
    ASSUME NEW s \in Seq(Item), Ordered(s), NEW x \in Item, NEW k \in {1, 2},
           k = 2 => Len(s) > 0 /\ s[1].run <= x.run
    PROVE  Items(Insert(s, x), k) = Items(s, k) \cup {x}
<1> DEFINE t == Insert(s, x)
<1>1. Len(t) = Len(s) + 1 /\ Len(s) \in Nat
  BY InsertIsSeq
<1>2. PICK p \in 1 .. Len(s) + 1 :
        /\ \A i \in 1 .. Len(s) : s[i].run <= x.run <=> i < p
        /\ \A i \in 1 .. Len(s) + 1 :
              t[i] = IF i < p THEN s[i] ELSE IF i = p THEN x ELSE s[i - 1]
  BY InsertAt
<1> HIDE DEF t
<1>3. p >= k
  BY <1>1, <1>2
<1>4. ASSUME NEW i \in k .. Len(t) PROVE t[i] \in Items(s, k) \cup {x}
  <2>1. CASE i < p
    <3>1. t[i] = s[i] /\ i \in k .. Len(s)
      BY <1>1, <1>2, <2>1
    <3> QED BY <3>1 DEF Items
  <2>2. CASE i = p
    BY <1>1, <1>2, <2>2
  <2>3. CASE i > p
    <3>1. t[i] = s[i - 1] /\ i - 1 \in k .. Len(s)
      BY <1>1, <1>2, <1>3, <2>3
    <3> QED BY <3>1 DEF Items
  <2> QED BY <1>1, <2>1, <2>2, <2>3
<1>5. ASSUME NEW i \in k .. Len(s) PROVE s[i] \in Items(t, k)
  <2>1. CASE i < p
    <3>1. t[i] = s[i] /\ i \in k .. Len(t)
      BY <1>1, <1>2, <2>1
    <3> QED BY <3>1 DEF Items
  <2>2. CASE i >= p
    <3>1. t[i + 1] = s[i] /\ i + 1 \in k .. Len(t)
      BY <1>1, <1>2, <2>2
    <3> QED BY <3>1 DEF Items
  <2> QED BY <1>1, <2>1, <2>2
<1>6. x \in Items(t, k)
  <2>1. t[p] = x /\ p \in k .. Len(t)
    BY <1>1, <1>2, <1>3
  <2> QED BY <2>1 DEF Items
<1> QED BY <1>4, <1>5, <1>6 DEF Items, t

\* Unlinking takes one item away.
LEMMA UnlinkItems ==
    ASSUME NEW s \in Seq(Item), NEW p \in 1 .. Len(s)
    PROVE  /\ Distinct(s) => Items(Unlink(s, p), 1) = Items(s, 1) \ {s[p]}
           /\ p = 1 => Items(Unlink(s, p), 1) = Items(s, 2)
<1> DEFINE t == Unlink(s, p)
<1>1. /\ Len(t) = Len(s) - 1 /\ Len(s) \in Nat
      /\ \A i \in 1 .. Len(s) - 1 : t[i] = IF i < p THEN s[i] ELSE s[i + 1]
  BY UnlinkIsSeq
<1> HIDE DEF t
<1>2. ASSUME NEW i \in 1 .. Len(t)
      PROVE  \E j \in 1 .. Len(s) : j # p /\ t[i] = s[j] /\ (p = 1 => j \in 2 .. Len(s))
  <2>1. CASE i < p
    <3>1. t[i] = s[i] /\ i \in 1 .. Len(s) /\ i # p /\ p # 1
      BY <1>1, <2>1
    <3> QED BY <3>1
  <2>2. CASE i >= p
    <3>1. t[i] = s[i + 1] /\ i + 1 \in 1 .. Len(s) /\ i + 1 # p /\ i + 1 \in 2 .. Len(s)
      BY <1>1, <2>2
    <3> QED BY <3>1
  <2> QED BY <2>1, <2>2
<1>3. ASSUME NEW j \in 1 .. Len(s), j # p PROVE s[j] \in Items(t, 1)
  <2>1. CASE j < p
    <3>1. t[j] = s[j] /\ j \in 1 .. Len(t)
      BY <1>1, <2>1
    <3> QED BY <3>1 DEF Items
  <2>2. CASE j > p
    <3>1. t[j - 1] = s[j] /\ j - 1 \in 1 .. Len(t)
      BY <1>1, <2>2
    <3> QED BY <3>1 DEF Items
  <2> QED BY <1>3, <2>1, <2>2
<1>4. Distinct(s) => \A j \in 1 .. Len(s) : j # p => s[j] # s[p]
  BY DEF Distinct
<1>5. ASSUME NEW y PROVE y \in Items(t, 1) => \E j \in 1 .. Len(s) :
                            j # p /\ y = s[j] /\ (p = 1 => j \in 2 .. Len(s))
  BY <1>2 DEF Items
<1>6. Distinct(s) => Items(t, 1) = Items(s, 1) \ {s[p]}
  <2>1. ASSUME Distinct(s), NEW y \in Items(t, 1) PROVE y \in Items(s, 1) \ {s[p]}
    BY <1>4, <1>5, <2>1 DEF Items
  <2>2. ASSUME NEW y \in Items(s, 1) \ {s[p]} PROVE y \in Items(t, 1)
    BY <1>3 DEF Items
  <2> QED BY <2>1, <2>2
<1>7. p = 1 => Items(t, 1) = Items(s, 2)
  <2>1. ASSUME p = 1, NEW y \in Items(t, 1) PROVE y \in Items(s, 2)
    BY <1>5, <2>1 DEF Items
  <2>2. ASSUME p = 1, NEW y \in Items(s, 2) PROVE y \in Items(t, 1)
    <3>1. PICK j \in 2 .. Len(s) : y = s[j]
      BY DEF Items
    <3>2. j \in 1 .. Len(s) /\ j # p
      BY <1>1, <2>2
    <3> QED BY <1>3, <3>1, <3>2
  <2> QED BY <2>1, <2>2
<1> QED BY <1>6, <1>7 DEF t
-----------------------------------------------------------------------------
\* What the step map needs of the list and of timeralarm()'s locals.
OrderInv ==
    /\ ~overrun => Fifo(timers)
    /\ phase \notin {"call", "pop"} => running = NoItem

\* timer() keeps the order in which timers due together were asked for.
LEMMA LinkFifo ==
    ASSUME ListInv, ~overrun => Fifo(timers), now \in Nat,
           NEW s \in Nat, NEW c \in Calls, Link(s, c)
    PROVE  ~overrun' => Fifo(timers')
<1> SUFFICES ASSUME ~overrun' PROVE Fifo(timers')
  OBVIOUS
<1> DEFINE x == [run |-> now + s, tid |-> NextTid(curtid), call |-> c]
<1>1. NextTid(curtid) \in 1 .. TidWidth - 1
  BY NextTidRange DEF ListInv
<1>2. x \in Item /\ x.tid = NextTid(curtid)
  BY <1>1 DEF Item
<1>3. timers' = Insert(timers, x) /\ ~overrun /\ NextTid(curtid) # 1
  BY DEF Link
<1> HIDE DEF x
<1>4. curtid \in Nat /\ NextTid(curtid) = curtid + 1
  BY <1>3, NextTidNew, NumberAssumption DEF ListInv
<1> QED BY <1>2, <1>3, <1>4, InsertFifo DEF ListInv

\* OrderInv holds in every reachable state.
LEMMA InOrder == Spec => []OrderInv
<1>1. Init => OrderInv
  <2> SUFFICES ASSUME Init PROVE Fifo(timers) /\ running = NoItem
    BY DEF OrderInv
  <2>1. \A i \in 1 .. Len(timers), j \in 1 .. Len(timers) : i < j => timers[i].run # timers[j].run
    <3>1. \A i \in 1 .. Len(timers) : i = 1 \/ i = 2
      BY DEF Init
    <3>2. timers[1].run = MaintDelay /\ timers[2].run = QueueDelay
      BY DEF Init
    <3> QED BY <3>1, <3>2, NumberAssumption
  <2> QED BY <2>1 DEF Init, Fifo
<1>2. IInv /\ IInv' /\ OrderInv /\ [Next]_vars => OrderInv'
  <2> SUFFICES ASSUME IInv, IInv', OrderInv, [Next]_vars PROVE OrderInv'
    OBVIOUS
  <2>1. /\ ListInv /\ AlarmInv /\ now \in Nat /\ timers \in Seq(Item) /\ Len(timers) \in Nat
        /\ running \in Item
    BY DEF IInv, TypeOK
  <2>2. CASE UNCHANGED <<timers, overrun, phase, running>>
    BY <2>2 DEF OrderInv
  <2>3. CASE BeginLine \/ EndLine \/ Alarm \/ AlarmDone
    BY <2>3 DEF OrderInv, BeginLine, EndLine, Alarm, AlarmDone, listVars, alarmVars
  <2>4. CASE HandlerArm
    <3>1. PICK s \in Delays, c \in Calls \ {Maint} : Arm(s, c)
      BY <2>4 DEF HandlerArm
    <3>2. UNCHANGED <<phase, running>>
      BY <2>4 DEF HandlerArm, alarmVars
    <3>3. s \in Nat /\ Period[c] \in Nat
      BY CallAssumption, NumberAssumption
    <3>4. (\E d \in Nat : Link(d, c)) \/ UNCHANGED <<timers, overrun>>
      BY <3>1, <3>3 DEF Arm, listVars
    <3>5. CASE \E d \in Nat : Link(d, c)
      <4>1. PICK d \in Nat : Link(d, c)
        BY <3>5
      <4>2. ~overrun' => Fifo(timers')
        BY <2>1, <4>1, LinkFifo DEF OrderInv
      <4> QED BY <3>2, <4>2 DEF OrderInv
    <3> QED BY <3>2, <3>4, <3>5, <2>2
  <2>5. CASE HandlerCancel
    <3>1. PICK t : CancelTimer(t)
      BY <2>5 DEF HandlerCancel
    <3>2. UNCHANGED <<phase, running, overrun>>
      BY <2>5, <3>1 DEF HandlerCancel, alarmVars, CancelTimer
    <3>3. UNCHANGED timers \/ \E p \in 1 .. Len(timers) : timers' = Unlink(timers, p)
      BY <3>1 DEF CancelTimer
    <3> QED BY <2>1, <3>2, <3>3, UnlinkFifo DEF OrderInv
  <2>6. CASE AlarmCall
    BY <2>6 DEF AlarmCall, OrderInv, listVars
  <2>7. CASE CallRearm
    <3>1. running.call \in Calls /\ Period[running.call] \in Nat
      BY <2>1, CallAssumption DEF Item
    <3>2. Link(Period[running.call], running.call) /\ phase' = "pop"
      BY <2>7 DEF CallRearm
    <3>3. ~overrun' => Fifo(timers')
      BY <2>1, <3>1, <3>2, LinkFifo DEF OrderInv
    <3> QED BY <3>2, <3>3 DEF OrderInv
  <2>8. CASE AlarmPop
    <3>1. 1 \in 1 .. Len(timers) /\ timers' = Unlink(timers, 1) /\ overrun' = overrun
      BY <2>1, <2>8 DEF AlarmPop, AlarmInv
    <3>2. running' = NoItem
      BY <2>8 DEF AlarmPop
    <3> QED BY <2>1, <3>1, <3>2, UnlinkFifo DEF OrderInv
  <2>9. CASE Environment
    <3>1. UNCHANGED <<timers, overrun, phase, running>>
      BY <2>9 DEF Environment, Tick, ClockStep, LineArrives, IpcConnect, IpcClose,
                  listVars, alarmVars
    <3> QED BY <3>1, <2>2
  <2>10. CASE UNCHANGED vars
    BY <2>10, <2>2 DEF vars
  <2> QED BY <2>3, <2>4, <2>5, <2>6, <2>7, <2>8, <2>9, <2>10 DEF Next, Lines, Alarms
<1> QED BY <1>1, <1>2, Inductive, PTL DEF Spec

\* The abstract pending calls are the items behind the one that is being popped.
LEMMA PendingIs ==
    ASSUME timers \in Seq(Item)
    PROVE  PendingCalls = Items(timers, IF phase \in {"call", "pop"} THEN 2 ELSE 1)
<1>1. Len(timers) \in Nat
  OBVIOUS
<1>2. CASE phase \in {"call", "pop"}
  <2>1. {j \in 1 .. Len(timers) : phase \in {"call", "pop"} => j > 1} = 2 .. Len(timers)
    BY <1>1, <1>2
  <2> QED BY <1>2, <2>1 DEF PendingCalls, Items
<1>3. CASE phase \notin {"call", "pop"}
  <2>1. {j \in 1 .. Len(timers) : phase \in {"call", "pop"} => j > 1} = 1 .. Len(timers)
    BY <1>3
  <2> QED BY <1>3, <2>1 DEF PendingCalls, Items
<1> QED BY <1>2, <1>3

\* The same after a step.
LEMMA PendingIsNext ==
    ASSUME timers' \in Seq(Item)
    PROVE  PendingCalls' = Items(timers', IF phase' \in {"call", "pop"} THEN 2 ELSE 1)
<1>1. Len(timers') \in Nat
  OBVIOUS
<1>2. CASE phase' \in {"call", "pop"}
  <2>1. {j \in 1 .. Len(timers') : phase' \in {"call", "pop"} => j > 1} = 2 .. Len(timers')
    BY <1>1, <1>2
  <2> QED BY <1>2, <2>1 DEF PendingCalls, Items
<1>3. CASE phase' \notin {"call", "pop"}
  <2>1. {j \in 1 .. Len(timers') : phase' \in {"call", "pop"} => j > 1} = 1 .. Len(timers')
    BY <1>3
  <2> QED BY <1>3, <2>1 DEF PendingCalls, Items
<1> QED BY <1>2, <1>3

\* timer() schedules one more call, with the next id.
LEMMA LinkSchedules ==
    ASSUME ListInv, now \in Nat, ~overrun', NEW d \in Nat, d > 0, NEW c \in Calls,
           Link(d, c), UNCHANGED <<now, running>>, NEW k \in {1, 2},
           k = 2 => Len(timers) > 0 /\ timers[1].run <= now + d,
           PendingCalls = Items(timers, k), PendingCalls' = Items(timers', k)
    PROVE  Abstract!Next
<1> DEFINE x == [run |-> now + d, tid |-> NextTid(curtid), call |-> c]
<1>1. NextTid(curtid) \in 1 .. TidWidth - 1 /\ TidWidth \in Nat
  BY NextTidRange, NumberAssumption DEF ListInv
<1>2. x \in Item /\ x.tid = NextTid(curtid) /\ x.run = now + d
  BY <1>1 DEF Item
<1>3. timers' = Insert(timers, x) /\ ~overrun /\ NextTid(curtid) # 1 /\ curtid' = NextTid(curtid)
  BY DEF Link
<1>4. x \in Abstract!Pending
  BY <1>1 DEF Abstract!Pending
<1> HIDE DEF x
<1>5. curtid \in Nat /\ x.tid = curtid + 1 /\ curtid' = x.tid
  BY <1>2, <1>3, NextTidNew, NumberAssumption DEF ListInv
<1>6. PendingCalls' = PendingCalls \cup {x}
  BY <1>2, <1>3, InsertItems DEF ListInv
<1>7. x \notin PendingCalls
  <2>1. \A y \in Items(timers, k) : y.tid \in 1 .. curtid
    BY <1>3 DEF ListInv, UpTo, Items
  <2>2. x.tid \notin 1 .. curtid
    BY <1>5
  <2> QED BY <2>1, <2>2
<1>8. x \in PendingCalls' \ PendingCalls
  BY <1>6, <1>7
<1>9. Abstract!Schedule(x)
  BY <1>2, <1>4, <1>5, <1>6 DEF Abstract!Schedule
<1> QED BY <1>8, <1>9 DEF Abstract!Next

\* Every step of timer.c and of main()'s loop is a step of TimerAbs or changes
\* nothing TimerAbs sees.
LEMMA StepMap ==
    ASSUME IInv, IInv', RunInv, OrderInv, [Next]_vars, Steady', ~overrun'
    PROVE  [Abstract!Next]_(Abstract!absVars)
<1>1. /\ TypeOK /\ ListInv /\ AlarmInv /\ now \in Nat /\ timers \in Seq(Item)
      /\ Len(timers) \in Nat /\ timers' \in Seq(Item) /\ running \in Item
  BY DEF IInv, TypeOK
<1>2. /\ PendingCalls = Items(timers, IF phase \in {"call", "pop"} THEN 2 ELSE 1)
      /\ PendingCalls' = Items(timers', IF phase' \in {"call", "pop"} THEN 2 ELSE 1)
  BY <1>1, PendingIs, PendingIsNext
<1>3. CASE /\ UNCHANGED <<now, timers, running, curtid>>
           /\ (phase \in {"call", "pop"}) = (phase' \in {"call", "pop"})
  BY <1>2, <1>3 DEF Abstract!absVars
<1>4. CASE UNCHANGED vars \/ LineArrives \/ IpcConnect \/ IpcClose
  BY <1>3, <1>4 DEF vars, LineArrives, IpcConnect, IpcClose, listVars, alarmVars
<1>5. CASE BeginLine \/ EndLine \/ Alarm \/ AlarmDone
  BY <1>3, <1>5 DEF BeginLine, EndLine, Alarm, AlarmDone, listVars, alarmVars
<1>6. CASE Tick
  <2>1. UNCHANGED <<timers, running, curtid, phase>> /\ now' = now + 1
    BY <1>6 DEF Tick, listVars, alarmVars
  <2>2. UNCHANGED PendingCalls
    BY <1>2, <2>1
  <2>3. Abstract!Tick
    BY <2>1, <2>2 DEF Abstract!Tick
  <2> QED BY <2>3 DEF Abstract!Next
<1>7. CASE ClockStep
  <2>1. budget.back \in Nat /\ MaxBack \in Nat /\ budget.back <= MaxBack
    BY <1>1, NumberAssumption DEF TypeOK, RunInv
  <2>2. budget'.back = budget.back - 1
    BY <1>1, <1>7 DEF ClockStep, TypeOK
  <2> QED BY <2>1, <2>2 DEF Steady
<1>8. CASE HandlerArm
  <2>1. PICK s \in Delays, c \in Calls \ {Maint} : Arm(s, c)
    BY <1>8 DEF HandlerArm
  <2>2. phase = "handle" /\ UNCHANGED <<phase, now, running>>
    BY <1>8 DEF HandlerArm, alarmVars
  <2>3. s \in Nat /\ Period[c] \in Nat
    BY CallAssumption, NumberAssumption
  <2>4. (\E d \in Nat : d > 0 /\ Link(d, c)) \/ UNCHANGED <<timers, curtid>>
    BY <2>1, <2>3 DEF Arm, listVars
  <2>5. PendingCalls = Items(timers, 1) /\ PendingCalls' = Items(timers', 1)
    BY <1>2, <2>2
  <2>6. CASE \E d \in Nat : d > 0 /\ Link(d, c)
    <3>1. PICK d \in Nat : d > 0 /\ Link(d, c)
      BY <2>6
    <3> QED BY <1>1, <2>2, <2>5, <3>1, LinkSchedules
  <2> QED BY <2>2, <2>4, <2>6, <1>3
<1>9. CASE HandlerCancel
  <2>1. PICK t : CancelTimer(t)
    BY <1>9 DEF HandlerCancel
  <2>2. phase = "handle" /\ UNCHANGED <<phase, now, running, curtid, overrun>>
    BY <1>9, <2>1 DEF HandlerCancel, alarmVars, CancelTimer
  <2>3. UNCHANGED timers \/ \E p \in 1 .. Len(timers) : timers' = Unlink(timers, p)
    BY <2>1 DEF CancelTimer
  <2>4. CASE \E p \in 1 .. Len(timers) : timers' = Unlink(timers, p)
    <3>1. PICK p \in 1 .. Len(timers) : timers' = Unlink(timers, p)
      BY <2>4
    <3>2. PendingCalls = Items(timers, 1) /\ PendingCalls' = Items(timers', 1)
      BY <1>2, <2>2
    <3>3. PendingCalls' = PendingCalls \ {timers[p]}
      BY <1>1, <2>2, <3>1, <3>2, UnlinkItems DEF ListInv
    <3>4. timers[p] \in PendingCalls
      BY <3>2 DEF Items
    <3>5. Abstract!Cancel(timers[p])
      BY <2>2, <3>3 DEF Abstract!Cancel
    <3> QED BY <3>4, <3>5 DEF Abstract!Next
  <2> QED BY <2>2, <2>3, <2>4, <1>3
<1>10. CASE AlarmCall
  <2>1. /\ phase = "alarm" /\ phase' \in {"call", "pop"} /\ running' = timers[1]
        /\ timers[1].run <= curtime /\ UNCHANGED <<now, timers, curtid, overrun, budget>>
    BY <1>10 DEF AlarmCall, listVars, loopVars
  <2>2. PendingCalls = Items(timers, 1) /\ PendingCalls' = Items(timers, 2) /\ Len(timers) > 0
    BY <1>1, <1>2, <2>1 DEF AlarmInv
  <2>3. Steady /\ ~overrun
    BY <2>1 DEF Steady
  <2>4. Distinct(timers) /\ Ordered(timers) /\ Fifo(timers)
    BY <1>1, <2>3 DEF ListInv, OrderInv
  <2>5. \A i \in 1 .. Len(timers) : timers[i] \in Item
    BY <1>1
  <2>6. timers[1].run <= now
    <3>1. curtime <= now
      BY <2>1, <2>3 DEF RunInv, RunsHead
    <3>2. timers[1] \in Item
      BY <1>1, <2>2
    <3>3. curtime \in Nat /\ timers[1].run \in Nat
      BY <1>1, <3>2 DEF TypeOK, Item
    <3> QED BY <2>1, <3>1, <3>3, <1>1
  <2>7. ASSUME NEW y \in PendingCalls PROVE Abstract!Before(timers[1], y)
    <3>1. PICK i \in 1 .. Len(timers) : y = timers[i]
      BY <2>2 DEF Items
    <3>2. i = 1 \/ 1 < i
      BY <1>1
    <3>3. /\ timers[1].run \in Nat /\ timers[i].run \in Nat
          /\ timers[1].tid \in Nat /\ timers[i].tid \in Nat
      BY <2>2, <2>5, NumberAssumption DEF Item
    <3>4. CASE 1 < i
      <4>1. timers[1].run <= timers[i].run
        BY <1>1, <2>4, <3>4 DEF Ordered
      <4>2. timers[1].run = timers[i].run => timers[1].tid < timers[i].tid
        BY <1>1, <2>4, <3>4 DEF Fifo
      <4> QED BY <3>1, <3>3, <4>1, <4>2 DEF Abstract!Before
    <3> QED BY <3>1, <3>2, <3>3, <3>4 DEF Abstract!Before
  <2>8. PendingCalls' = PendingCalls \ {timers[1]}
    <3>1. 1 \in 1 .. Len(timers)
      BY <1>1, <2>2
    <3>2. Items(Unlink(timers, 1), 1) = Items(timers, 1) \ {timers[1]}
      BY <1>1, <2>4, <3>1, UnlinkItems
    <3>3. Items(Unlink(timers, 1), 1) = Items(timers, 2)
      BY <1>1, <3>1, UnlinkItems
    <3> QED BY <2>2, <3>2, <3>3
  <2>9. timers[1] \in PendingCalls
    <3>1. 1 \in 1 .. Len(timers)
      BY <1>1, <2>2
    <3> QED BY <2>2, <3>1 DEF Items
  <2>10. running = NoItem
    BY <2>1 DEF OrderInv
  <2>11. Abstract!Fire(timers[1])
    BY <2>1, <2>6, <2>7, <2>8, <2>10 DEF Abstract!Fire
  <2> QED BY <2>9, <2>11 DEF Abstract!Next
<1>11. CASE CallRearm
  <2> DEFINE c == running.call
  <2>1. /\ phase = "call" /\ phase' = "pop" /\ Link(Period[c], c)
        /\ UNCHANGED <<now, running, budget>>
    BY <1>11 DEF CallRearm, alarmVars, loopVars
  <2>2. /\ c \in Calls /\ Period[c] \in Nat /\ Period[c] > 0 /\ Len(timers) > 0
        /\ curtime \in Nat
    BY <1>1, <2>1, CallAssumption DEF AlarmInv, Item, TypeOK
  <2>3. timers[1] \in Item /\ timers[1].run <= now + Period[c]
    <3>1. timers[1] \in Item
      BY <1>1, <2>2
    <3>2. timers[1].run <= curtime /\ curtime <= now
      BY <2>1 DEF RunInv, RunsHead, Steady
    <3> QED BY <1>1, <2>2, <3>1, <3>2 DEF Item
  <2>4. PendingCalls = Items(timers, 2) /\ PendingCalls' = Items(timers', 2)
    BY <1>2, <2>1
  <2> HIDE DEF c
  <2> QED BY <1>1, <2>1, <2>2, <2>3, <2>4, LinkSchedules
<1>12. CASE AlarmPop
  <2>1. /\ phase = "pop" /\ phase' \notin {"call", "pop"} /\ running' = NoItem
        /\ timers' = Unlink(timers, 1) /\ UNCHANGED <<now, curtid, overrun, budget>>
        /\ 1 \in 1 .. Len(timers)
    BY <1>1, <1>12 DEF AlarmPop, AlarmInv, loopVars
  <2>2. UNCHANGED PendingCalls
    BY <1>1, <1>2, <2>1, UnlinkItems
  <2>3. running # NoItem
    <3>1. running = timers[1] /\ ~overrun
      BY <2>1 DEF RunInv, RunsHead, Steady
    <3>2. timers[1].tid \in 1 .. curtid
      BY <1>1, <2>1, <3>1 DEF ListInv, UpTo
    <3> QED BY <3>1, <3>2 DEF NoItem
  <2>4. Abstract!Return
    BY <2>1, <2>2, <2>3 DEF Abstract!Return
  <2> QED BY <2>4 DEF Abstract!Next
<1> QED BY <1>4, <1>5, <1>6, <1>7, <1>8, <1>9, <1>10, <1>11, <1>12
        DEF Next, Environment, Lines, Alarms

\* The two timers of main() are what TimerAbs may start with.
LEMMA InitMap == Init => Abstract!Init
<1> SUFFICES ASSUME Init PROVE Abstract!Init
  OBVIOUS
<1> DEFINE x == [run |-> MaintDelay, tid |-> 2, call |-> Maint]
           y == [run |-> QueueDelay, tid |-> 1, call |-> Queue]
<1>1. timers = <<x, y>> /\ phase = "select"
  BY DEF Init
<1>2. \A i \in 1 .. Len(timers) : i = 1 \/ i = 2
  BY <1>1
<1>3. PendingCalls \subseteq {x, y}
  BY <1>1, <1>2 DEF PendingCalls
<1>4. x \in Abstract!Pending /\ y \in Abstract!Pending
  BY NumberAssumption, CallAssumption DEF Abstract!Pending
<1>5. x.tid = 2 /\ y.tid = 1
  OBVIOUS
<1> HIDE DEF x, y
<1> QED BY <1>3, <1>4, <1>5 DEF Init, Abstract!Init

\* timer.c implements TimerAbs: until the clock is stepped back or the ids go
\* round, every call runs once, not before it is due, after those due before it
\* and after those asked for earlier, and a cancelled one never.
THEOREM Implements == Spec => ImplementsTimerAbs
<1>1. IInv /\ IInv' /\ RunInv /\ OrderInv /\ [Next]_vars
      => [Steady' /\ ~overrun' => Abstract!Next]_(Abstract!absVars)
  BY StepMap
<1> QED BY <1>1, InitMap, Inductive, HeadRuns, InOrder, PTL DEF Spec, ImplementsTimerAbs
=============================================================================
