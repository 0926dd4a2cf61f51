--------------------------- MODULE MemoServProofs ---------------------------
(***************************************************************************)
(* Theorems about MemoServ: every memo is in one box, who may unsend what, *)
(* what the counts of the boxes count, what a restart keeps. And theorems  *)
(* about Channel: types, the two lists of invitations, the flag of a quiet *)
(* ban.                                                                    *)
(***************************************************************************)
EXTENDS MemoServ, Channel, FoldLemmas

(***************************************************************************)
(* Lists.                                                                  *)
(***************************************************************************)

\* A list has as many places as elements, when it has none twice.
LEMMA LenIs ==
    ASSUME NEW seq \in Seq(Addr), IsInjective(seq)
    PROVE  IsFiniteSet(ToSet(seq)) /\ Cardinality(ToSet(seq)) = Len(seq)
<1>1. DOMAIN seq = 1 .. Len(seq) /\ Len(seq) \in Nat
  OBVIOUS
<1>2. IsFiniteSet(1 .. Len(seq)) /\ Cardinality(1 .. Len(seq)) = Len(seq)
  BY <1>1, FS_Interval
<1>3. seq \in Bijection(1 .. Len(seq), ToSet(seq))
  <2>1. seq \in [1 .. Len(seq) -> ToSet(seq)]
    BY <1>1 DEF ToSet
  <2> QED BY <1>1, <2>1 DEF Bijection, Injection, Surjection, IsInjective, ToSet
<1>4. ExistsBijection(1 .. Len(seq), ToSet(seq))
  BY <1>3 DEF ExistsBijection
<1> QED BY <1>2, <1>4, FS_Bijection

\* A list the other way round.
LEMMA ReverseIs ==
    ASSUME NEW seq \in Seq(Addr), IsInjective(seq)
    PROVE  Reverse(seq) \in Seq(Addr) /\ IsInjective(Reverse(seq)) /\ ToSet(Reverse(seq)) = ToSet(seq)
<1> DEFINE r == Reverse(seq)
<1>1. Len(seq) \in Nat /\ DOMAIN seq = 1 .. Len(seq) /\ \A i \in 1 .. Len(seq) : seq[i] \in Addr
  OBVIOUS
<1>2. \A i \in 1 .. Len(seq) : Len(seq) - i + 1 \in 1 .. Len(seq) /\ Len(seq) - (Len(seq) - i + 1) + 1 = i
  BY <1>1
<1>3. r = [i \in 1 .. Len(seq) |-> seq[Len(seq) - i + 1]]
  BY DEF Reverse
<1>4. r \in Seq(Addr) /\ DOMAIN r = 1 .. Len(seq)
  BY <1>1, <1>2, <1>3
<1>5. IsInjective(r)
  <2> SUFFICES ASSUME NEW i \in 1 .. Len(seq), NEW j \in 1 .. Len(seq), r[i] = r[j]
               PROVE  i = j
    BY <1>4 DEF IsInjective
  <2>1. seq[Len(seq) - i + 1] = seq[Len(seq) - j + 1]
    BY <1>3
  <2>2. Len(seq) - i + 1 = Len(seq) - j + 1
    BY <1>1, <1>2, <2>1 DEF IsInjective
  <2> QED BY <1>1, <2>2
<1>6. ToSet(r) = ToSet(seq)
  <2>1. \A i \in 1 .. Len(seq) : r[i] \in ToSet(seq)
    BY <1>1, <1>2, <1>3 DEF ToSet
  <2>2. \A i \in 1 .. Len(seq) : r[Len(seq) - i + 1] = seq[i]
    BY <1>2, <1>3
  <2>3. \A i \in 1 .. Len(seq) : seq[i] \in ToSet(r)
    <3> HIDE DEF r
    <3> QED BY <1>2, <1>4, <2>2 DEF ToSet
  <2> HIDE DEF r
  <2> QED BY <1>1, <1>4, <2>1, <2>3 DEF ToSet
<1> QED BY <1>4, <1>5, <1>6

\* A part of a list has the elements it was asked for, none of them twice.
LEMMA OnlyIs ==
    ASSUME NEW list \in Seq(Addr), IsInjective(list), NEW P
    PROVE  /\ Only(list, P) \in Seq(Addr) /\ IsInjective(Only(list, P))
           /\ ToSet(Only(list, P)) = ToSet(list) \cap P
<1> DEFINE S == DOMAIN list
           All == Seq(Addr)
           Next1(some, a) == IF a \in P THEN Append(some, a) ELSE some
           pick == [T \in SUBSET S |-> Max(T)]
           F == [p \in S \X All |-> Next1(p[2], list[p[1]])]
           W == [T \in SUBSET S |-> {seq \in All : IsInjective(seq) /\ ToSet(seq) = {list[i] : i \in T} \cap P}]
<1>1. S = 1 .. Len(list) /\ Len(list) \in Nat /\ \A i \in S : list[i] \in Addr
  OBVIOUS
<1>2. IsFiniteSet(S)
  BY <1>1, FS_Interval
<1>3. Picks(pick, S)
  <2> SUFFICES ASSUME NEW T \in SUBSET S, T # {} PROVE Max(T) \in T
    BY DEF Picks
  <2>1. T \in SUBSET (1 .. Len(list))
    BY <1>1
  <2>2. \E m \in T : \A k \in T : m >= k
    BY <1>1, <2>1, NatMax
  <2> QED BY <2>2 DEF Max
<1> HIDE DEF S
<1>4. \A some \in All, a \in Addr : Append(some, a) \in All
  OBVIOUS
<1>5. F \in [S \X All -> All] /\ <<>> \in All
  <2>1. ASSUME NEW p \in S \X All PROVE Next1(p[2], list[p[1]]) \in All
    <3>1. p[1] \in S /\ p[2] \in All
      BY <2>1
    <3> HIDE DEF All
    <3> QED BY <1>1, <1>4, <3>1
  <2>2. <<>> \in All
    OBVIOUS
  <2> HIDE DEF All
  <2> QED BY <2>1, <2>2
<1>6. PICK g \in [SUBSET S -> All] : Folds(g, S, pick, <<>>, F)
  <2> HIDE DEF pick, F, All
  <2> QED BY <1>2, <1>3, <1>5, FoldExists
<1>7. g = [T \in SUBSET S |-> IF T = {} THEN <<>> ELSE Next1(g[T \ {Max(T)}], list[Max(T)])]
  <2>1. ASSUME NEW T \in SUBSET S, T # {}
        PROVE  F[<<pick[T], g[T \ {pick[T]}]>>] = Next1(g[T \ {Max(T)}], list[Max(T)])
    <3>1. pick[T] = Max(T) /\ Max(T) \in S /\ g[T \ {Max(T)}] \in All
      BY <1>3, <2>1 DEF Picks
    <3> HIDE DEF pick, All
    <3>2. <<Max(T), g[T \ {Max(T)}]>> \in S \X All
      BY <3>1
    <3> QED BY <3>1, <3>2
  <2> HIDE DEF F, Next1
  <2> QED BY <1>6, <2>1 DEF Folds
<1>8. PICK h : /\ h = [T \in SUBSET S |-> IF T = {} THEN <<>> ELSE Next1(h[T \ {Max(T)}], list[Max(T)])]
               /\ Only(list, P) = h[S]
  <2> HIDE DEF pick, F
  <2> QED BY <1>7 DEF Only, FoldLeft, MapThenFoldSet, S
<1>9. h[{}] \in W[{}]
  <2>1. h[{}] = <<>>
    BY <1>8
  <2>2. <<>> \in All /\ IsInjective(<<>>) /\ ToSet(<<>>) = {}
    BY DEF IsInjective, ToSet
  <2> QED BY <2>1, <2>2
<1>10. ASSUME NEW T \in SUBSET S, T # {}, h[T \ {pick[T]}] \in W[T \ {pick[T]}]
       PROVE  h[T] \in W[T]
  <2> DEFINE seq == h[T \ {Max(T)}]  k == Max(T)  a == list[Max(T)]
  <2>1. h[T] = Next1(seq, a) /\ k \in T /\ k \in S /\ a \in Addr
    BY <1>1, <1>3, <1>8, <1>10 DEF Picks
  <2>2. seq \in All /\ IsInjective(seq) /\ ToSet(seq) = {list[i] : i \in T \ {k}} \cap P
    BY <1>10
  <2>3. /\ {list[i] : i \in T} = {list[i] : i \in T \ {k}} \cup {a}
        /\ a \notin {list[i] : i \in T \ {k}}
    BY <2>1 DEF IsInjective, S
  <2> HIDE DEF seq
  <2>4. CASE a \in P
    <3> DEFINE r == Append(seq, a)
    <3>1. h[T] = r
      BY <2>1, <2>4
    <3>2. /\ r \in All /\ Len(r) = Len(seq) + 1 /\ r[Len(seq) + 1] = a /\ Len(seq) \in Nat
          /\ DOMAIN r = 1 .. Len(seq) + 1 /\ DOMAIN seq = 1 .. Len(seq)
          /\ \A i \in 1 .. Len(seq) : r[i] = seq[i]
      BY <2>1, <2>2
    <3> HIDE DEF r, k, a
    <3>3. ToSet(r) = ToSet(seq) \cup {a}
      BY <3>2 DEF ToSet
    <3>4. a \notin ToSet(seq)
      BY <2>2, <2>3
    <3>5. IsInjective(r)
      <4> SUFFICES ASSUME NEW i \in 1 .. Len(seq) + 1, NEW j \in 1 .. Len(seq) + 1, r[i] = r[j] PROVE i = j
        BY <3>2 DEF IsInjective
      <4>1. \A l \in 1 .. Len(seq) : r[l] \in ToSet(seq) /\ r[l] # a
        BY <3>2, <3>4 DEF ToSet
      <4>2. CASE i \in 1 .. Len(seq) /\ j \in 1 .. Len(seq)
        BY <2>2, <3>2, <4>2 DEF IsInjective
      <4>3. CASE i = Len(seq) + 1
        BY <3>2, <4>1, <4>3
      <4>4. CASE j = Len(seq) + 1
        BY <3>2, <4>1, <4>4
      <4> QED BY <3>2, <4>2, <4>3, <4>4
    <3>6. ToSet(r) = {list[i] : i \in T} \cap P
      BY <2>2, <2>3, <2>4, <3>3
    <3> QED BY <3>1, <3>2, <3>5, <3>6
  <2>5. CASE a \notin P
    <3>1. h[T] = seq
      BY <2>1, <2>5
    <3>2. ToSet(seq) = {list[i] : i \in T} \cap P
      BY <2>2, <2>3, <2>5
    <3> HIDE DEF k, a
    <3> QED BY <2>2, <3>1, <3>2
  <2> QED BY <2>4, <2>5
<1>11. h[S] \in W[S]
  <2> HIDE DEF pick, W
  <2> QED BY <1>2, <1>3, <1>9, <1>10, FoldInduct
<1>12. ToSet(list) = {list[i] : i \in S}
  BY DEF ToSet, S
<1> QED BY <1>8, <1>11, <1>12
-----------------------------------------------------------------------------
(***************************************************************************)
(* The inductive invariant.                                                *)
(***************************************************************************)

MemoTypes ==
    /\ memo \in [Addr -> Memo \cup {Free}]
    /\ box \in [Nicks -> Seq(Addr)]
    /\ sent \in [Nicks -> SUBSET Addr]
    /\ cnt \in [Nicks -> Int]
    /\ misfiled \in Nat

NickTypes ==
    /\ forward \in [Nicks -> Nicks \cup {NoOne, Gone}]
    /\ nomemo \subseteq Nicks
    /\ blocks \in [Nicks -> SUBSET Nicks]
    /\ lost \in [Nicks -> 0 .. MaxBlocks]

\* A memo is meant for a nick that is registered, or was.
Known == \A a \in Memos : memo[a].to = Gone \/ memo[a].to \in reg

\* A nick that is not registered has sent nothing, and counts nothing.
Vacant == \A n \in Nicks \ reg : sent[n] = {} /\ cnt[n] = 0

BoxInv ==
    /\ reg \subseteq Nicks /\ MemoTypes
    /\ InOneBox /\ PlainAtHome /\ UnsendUnread /\ CountsMatch
    /\ Known /\ Vacant

\* A nick is forwarded to one that is registered, or was, and has no more than
\* MaxBlocks blocks, of nicks and of numbers that are no nick's.
NickInv ==
    /\ NickTypes
    /\ \A n \in Nicks : forward[n] \in Nicks => forward[n] \in reg
    /\ \A n \in Nicks : Cardinality(blocks[n]) + lost[n] <= MaxBlocks

IInv == BoxInv /\ NickInv /\ wild \in BOOLEAN

\* No memo looks like a free place.
LEMMA MemoNotFree ==
    \A m \in Memo : m # Free
BY MemoAssumption DEF Memo, Free

\* Where the memos are.
LEMMA MemosAt ==
    ASSUME BoxInv
    PROVE  /\ \A a \in Memos : a \in Addr /\ memo[a] \in Memo /\ \E n \in reg : a \in ToSet(box[n])
           /\ \A n \in Nicks : ToSet(box[n]) \subseteq Memos /\ sent[n] \subseteq Memos
           /\ \A n \in Nicks : \A a \in ToSet(box[n]) : Owner(a) = n /\ n \in reg
<1>1. \A a \in Memos : a \in Addr /\ memo[a] \in Memo /\ \E n \in Nicks : a \in ToSet(box[n])
  BY DEF BoxInv, MemoTypes, Memos, InOneBox
<1>2. \A n \in Nicks : ToSet(box[n]) \subseteq Memos
  BY DEF BoxInv, InOneBox
<1>3. \A n \in Nicks : sent[n] \subseteq Memos
  BY DEF BoxInv, UnsendUnread
<1>4. ASSUME NEW n \in Nicks, NEW a \in ToSet(box[n]) PROVE Owner(a) = n /\ n \in reg
  <2>1. \A m \in Nicks : a \in ToSet(box[m]) => m = n
    BY DEF BoxInv, InOneBox
  <2>2. Owner(a) = n
    BY <2>1 DEF Owner
  <2>3. box[n] # <<>>
    BY DEF ToSet
  <2> QED BY <2>2, <2>3 DEF BoxInv, InOneBox
<1> QED BY <1>1, <1>2, <1>3, <1>4

\* delMemo() for some memos, and the registrations of their owners freed after.
LEMMA RemoveHolds ==
    ASSUME BoxInv, NEW gone \in SUBSET Memos, NEW counted, NEW freed \in SUBSET reg,
           \A a \in gone : counted[a] \in reg,
           FromBox(gone, counted, freed), reg' = reg \ freed,
           \A n \in freed : sent[n] \subseteq gone /\ ToSet(box[n]) \subseteq gone
    PROVE  BoxInv'
<1>1. /\ reg \subseteq Nicks /\ MemoTypes /\ gone \subseteq Addr
      /\ \A a \in Memos : a \in Addr /\ memo[a] \in Memo
      /\ \A n \in Nicks : box[n] \in Seq(Addr) /\ IsInjective(box[n])
  BY MemosAt DEF BoxInv, MemoTypes, InOneBox
<1>2. \A S \in SUBSET gone : IsFiniteSet(S) /\ Cardinality(S) \in Nat
  BY <1>1, MemoAssumption, FS_Subset, FS_CardinalityType
<1>3. /\ \A a \in Addr : memo'[a] = IF a \in gone THEN Free ELSE
                              IF a \in Memos /\ memo[a].to \in freed
                              THEN [memo[a] EXCEPT !.to = Gone] ELSE memo[a]
      /\ memo' \in [Addr -> Memo \cup {Free}]
  <2>1. \A a \in Memos : [memo[a] EXCEPT !.to = Gone] \in Memo
    BY <1>1 DEF Memo
  <2>2. memo' = [a \in Addr |-> IF a \in gone THEN Free ELSE
                              IF a \in Memos /\ memo[a].to \in freed
                              THEN [memo[a] EXCEPT !.to = Gone] ELSE memo[a]]
    BY DEF FromBox
  <2> QED BY <1>1, <2>1, <2>2 DEF MemoTypes
<1>4. \A n \in Nicks : /\ box'[n] \in Seq(Addr) /\ IsInjective(box'[n])
                       /\ ToSet(box'[n]) = ToSet(box[n]) \ gone
  <2> SUFFICES ASSUME NEW n \in Nicks
               PROVE  /\ box'[n] \in Seq(Addr) /\ IsInjective(box'[n])
                      /\ ToSet(box'[n]) = ToSet(box[n]) \ gone
    OBVIOUS
  <2>1. box'[n] = Only(box[n], Addr \ gone)
    BY DEF FromBox
  <2>2. ToSet(box[n]) \subseteq Addr
    BY <1>1, MemosAt
  <2> QED BY <1>1, <2>1, <2>2, OnlyIs
<1>5. Memos' = Memos \ gone
  <2>1. \A a \in Memos : [memo[a] EXCEPT !.to = Gone] # Free
    BY <1>1, MemoNotFree DEF Memo
  <2> QED BY <1>3, <2>1 DEF Memos
<1>6. \A a \in Memos' : /\ a \in Memos \ gone /\ memo[a] \in Memo
                        /\ memo'[a].from = memo[a].from /\ memo'[a].unread = memo[a].unread
                        /\ memo'[a].del = memo[a].del /\ memo'[a].fwd = memo[a].fwd
                        /\ memo'[a].to = IF memo[a].to \in freed THEN Gone ELSE memo[a].to
  BY <1>1, <1>3, <1>5 DEF Memo
<1>7. \A n \in Nicks : sent'[n] = sent[n] \ gone
  BY DEF FromBox
<1>8. \A n \in Nicks : cnt'[n] = IF n \in freed THEN 0 ELSE cnt[n] - Cardinality({a \in gone : counted[a] = n})
  BY DEF FromBox
<1>9. MemoTypes'
  <2>1. sent' \in [Nicks -> SUBSET Addr] /\ box' \in [Nicks -> Seq(Addr)]
    BY <1>1, <1>4, <1>7 DEF FromBox, MemoTypes
  <2>2. cnt' \in [Nicks -> Int]
    <3>1. \A n \in Nicks : cnt[n] - Cardinality({a \in gone : counted[a] = n}) \in Int
      BY <1>1, <1>2 DEF MemoTypes
    <3> QED BY <3>1 DEF FromBox
  <2>3. misfiled' \in Nat
    <3>1. Cardinality({a \in gone : counted[a] # Owner(a)}) \in Nat
      BY <1>2
    <3> QED BY <1>1, <3>1 DEF FromBox, MemoTypes
  <2> QED BY <1>3, <2>1, <2>2, <2>3 DEF MemoTypes
<1>10. InOneBox'
  <2>1. \A n \in Nicks : box'[n] # <<>> => n \in reg'
    <3> SUFFICES ASSUME NEW n \in Nicks, box'[n] # <<>> PROVE n \in reg'
      OBVIOUS
    <3>1. box'[n][1] \in ToSet(box'[n])
      BY <1>4 DEF ToSet
    <3>2. n \in reg /\ n \notin freed
      BY <1>4, <3>1, MemosAt
    <3> QED BY <3>2
  <2>2. \A n, m \in Nicks : n # m => ToSet(box'[n]) \cap ToSet(box'[m]) = {}
    BY <1>4 DEF BoxInv, InOneBox
  <2>3. Memos' = UNION {ToSet(box'[n]) : n \in Nicks}
    <3>1. Memos = UNION {ToSet(box[n]) : n \in Nicks}
      BY DEF BoxInv, InOneBox
    <3> QED BY <1>4, <1>5, <3>1
  <2> QED BY <1>4, <2>1, <2>2, <2>3 DEF InOneBox
<1>11. PlainAtHome'
  <2> SUFFICES ASSUME NEW a \in Memos', ~memo'[a].fwd
               PROVE  memo'[a].to # Gone /\ a \in ToSet(box'[memo'[a].to])
    BY DEF PlainAtHome
  <2>1. ~memo[a].fwd /\ a \in Memos \ gone /\ memo[a] \in Memo
    BY <1>6
  <2>2. memo[a].to # Gone /\ a \in ToSet(box[memo[a].to])
    BY <2>1 DEF BoxInv, PlainAtHome
  <2>3. memo[a].to \in Nicks /\ memo[a].to \notin freed
    BY <2>1, <2>2 DEF Memo
  <2> QED BY <1>4, <1>6, <2>1, <2>2, <2>3
<1>12. UnsendUnread'
  <2> SUFFICES ASSUME NEW n \in Nicks
               PROVE  sent'[n] = {a \in Memos' : memo'[a].from = n /\ memo'[a].unread /\ ~memo'[a].del}
    BY DEF UnsendUnread
  <2>1. sent[n] = {a \in Memos : memo[a].from = n /\ memo[a].unread /\ ~memo[a].del}
    BY DEF BoxInv, UnsendUnread
  <2> QED BY <1>5, <1>6, <1>7, <2>1
<1>13. Known'
  BY <1>6 DEF BoxInv, Known
<1>14. Vacant'
  <2> SUFFICES ASSUME NEW n \in Nicks \ reg' PROVE sent'[n] = {} /\ cnt'[n] = 0
    BY DEF Vacant
  <2>1. CASE n \in freed
    BY <1>7, <1>8, <2>1
  <2>2. CASE n \notin freed
    <3>1. n \notin reg /\ sent[n] = {} /\ cnt[n] = 0
      BY <2>2 DEF BoxInv, Vacant
    <3>2. {a \in gone : counted[a] = n} = {}
      BY <3>1
    <3>3. Cardinality({a \in gone : counted[a] = n}) = 0
      BY <3>2, FS_EmptySet
    <3> QED BY <1>7, <1>8, <2>2, <3>1, <3>3
  <2> QED BY <2>1, <2>2
<1>15. CountsMatch'
  <2> SUFFICES ASSUME misfiled' = 0, NEW n \in reg' PROVE cnt'[n] = Len(box'[n])
    BY DEF CountsMatch
  <2> DEFINE wrong == {a \in gone : counted[a] # Owner(a)}
             mine == {a \in gone : counted[a] = n}
             B == ToSet(box[n])
  <2>1. misfiled' = misfiled + Cardinality(wrong)
    BY DEF FromBox
  <2>2. misfiled \in Nat /\ Cardinality(wrong) \in Nat /\ IsFiniteSet(wrong)
    BY <1>1, <1>2 DEF MemoTypes
  <2> HIDE DEF wrong
  <2>3. misfiled = 0 /\ Cardinality(wrong) = 0
    BY <2>1, <2>2
  <2>4. wrong = {}
    BY <2>2, <2>3, FS_EmptySet
  <2>5. n \in reg /\ n \notin freed /\ n \in Nicks
    BY <1>1
  <2>6. mine = B \cap gone
    <3>1. \A a \in gone : counted[a] = Owner(a)
      BY <2>4 DEF wrong
    <3>2. \A a \in gone : Owner(a) = n <=> a \in B
      BY <2>5, MemosAt, <1>1
    <3> QED BY <3>1, <3>2
  <2>7. cnt[n] = Len(box[n])
    BY <2>3, <2>5 DEF BoxInv, CountsMatch
  <2>8. IsFiniteSet(B) /\ Cardinality(B) = Len(box[n])
    BY <1>1, <2>5, LenIs
  <2>9. Len(box'[n]) = Cardinality(B \ gone)
    BY <1>4, <2>5, LenIs
  <2>10. Cardinality(B \ gone) = Cardinality(B) - Cardinality(B \cap gone)
    BY <2>8, FS_Difference
  <2>11. cnt'[n] = cnt[n] - Cardinality(mine)
    BY <1>8, <2>5
  <2> HIDE DEF mine, B
  <2> QED BY <2>6, <2>7, <2>8, <2>9, <2>10, <2>11
<1> QED BY <1>1, <1>9, <1>10, <1>11, <1>12, <1>13, <1>14, <1>15 DEF BoxInv

\* READ and DELETE of memos of one box.
LEMMA TouchHolds ==
    ASSUME BoxInv, NEW n \in Nicks, NEW read \in SUBSET ToSet(box[n]), NEW f \in {"unread", "del"},
           Touch(read, f), reg' = reg
    PROVE  BoxInv'
<1>1. MemoTypes /\ read \subseteq Memos /\ \A a \in Memos : a \in Addr /\ memo[a] \in Memo
  BY MemosAt DEF BoxInv
<1>2. \A a \in Addr : memo'[a] = IF a \in read THEN [memo[a] EXCEPT ![f] = (f = "del")] ELSE memo[a]
  BY DEF Touch
<1>3. \A a \in read : /\ memo'[a] \in Memo /\ memo'[a].to = memo[a].to /\ memo'[a].fwd = memo[a].fwd
                      /\ ~memo'[a].unread \/ memo'[a].del
  <2> SUFFICES ASSUME NEW a \in read
               PROVE  /\ memo'[a] \in Memo /\ memo'[a].to = memo[a].to /\ memo'[a].fwd = memo[a].fwd
                      /\ ~memo'[a].unread \/ memo'[a].del
    OBVIOUS
  <2>1. a \in Addr /\ memo[a] \in Memo
    BY <1>1
  <2>2. CASE f = "unread"
    <3>1. memo'[a] = [memo[a] EXCEPT !.unread = FALSE]
      BY <1>2, <2>1, <2>2
    <3> QED BY <2>1, <3>1 DEF Memo
  <2>3. CASE f = "del"
    <3>1. memo'[a] = [memo[a] EXCEPT !.del = TRUE]
      BY <1>2, <2>1, <2>3
    <3> QED BY <2>1, <3>1 DEF Memo
  <2> QED BY <2>2, <2>3
<1>4. Memos' = Memos
  BY <1>1, <1>2, <1>3, MemoNotFree DEF Memos
<1>5. \A a \in Memos : memo'[a].to = memo[a].to /\ memo'[a].fwd = memo[a].fwd
  BY <1>1, <1>2, <1>3
<1>6. UNCHANGED <<box, cnt, misfiled>> /\ sent' = [m \in Nicks |-> sent[m] \ read]
  BY DEF Touch
<1>7. MemoTypes'
  <2>1. memo' \in [Addr -> Memo \cup {Free}]
    BY <1>1, <1>3 DEF Touch, MemoTypes
  <2> QED BY <1>1, <1>6, <2>1 DEF MemoTypes
<1>8. UnsendUnread'
  <2> SUFFICES ASSUME NEW m \in Nicks
               PROVE  sent'[m] = {a \in Memos' : memo'[a].from = m /\ memo'[a].unread /\ ~memo'[a].del}
    BY DEF UnsendUnread
  <2>1. sent[m] = {a \in Memos : memo[a].from = m /\ memo[a].unread /\ ~memo[a].del}
    BY DEF BoxInv, UnsendUnread
  <2>2. \A a \in Memos \ read : memo'[a] = memo[a]
    BY <1>1, <1>2
  <2>3. sent'[m] = sent[m] \ read
    BY <1>6
  <2> QED BY <1>3, <1>4, <2>1, <2>2, <2>3
<1>9. InOneBox' /\ CountsMatch'
  BY <1>4, <1>6 DEF BoxInv, InOneBox, CountsMatch
<1>10. PlainAtHome' /\ Known'
  BY <1>4, <1>5, <1>6 DEF BoxInv, PlainAtHome, Known
<1>11. Vacant'
  <2> SUFFICES ASSUME NEW m \in Nicks \ reg' PROVE sent'[m] = {} /\ cnt'[m] = 0
    BY DEF Vacant
  <2>1. sent[m] = {} /\ cnt[m] = 0
    BY DEF BoxInv, Vacant
  <2> QED BY <1>6, <2>1
<1> QED BY <1>7, <1>8, <1>9, <1>10, <1>11 DEF BoxInv

\* A memo that nobody has read is put first into a box.
LEMMA SendHolds ==
    ASSUME BoxInv, NickInv, NEW s \in Nicks, NEW to \in Nicks, NEW override, Send(s, to, override), ~wild'
    PROVE  BoxInv'
<1> DEFINE dest == IF forward[to] = NoOne THEN to ELSE forward[to]
<1>1. /\ dest \in reg /\ dest \in Nicks /\ s \in reg /\ to \in reg /\ reg' = reg
      /\ forward[to] = NoOne => dest = to
  <2>1. s \in reg /\ to \in reg /\ reg' = reg
    BY DEF Send, nickVars
  <2>2. dest # Gone
    <3>1. CASE dest = Gone
      <4>1. wild'
        BY <3>1 DEF Send
      <4> QED BY <4>1
    <3> QED BY <3>1
  <2>3. forward[to] \in Nicks \cup {NoOne, Gone} /\ (forward[to] \in Nicks => forward[to] \in reg)
    BY DEF NickInv, NickTypes
  <2> QED BY <2>1, <2>2, <2>3
<1>2. PICK a \in Addr \ Memos :
         /\ memo' = [memo EXCEPT ![a] =
               [from |-> s, to |-> to, age |-> 0, unread |-> TRUE,
                del |-> FALSE, save |-> FALSE, fwd |-> forward[to] # NoOne]]
         /\ box' = [box EXCEPT ![dest] = <<a>> \o @]
         /\ cnt' = [cnt EXCEPT ![dest] = @ + 1]
         /\ sent' = [sent EXCEPT ![s] = @ \cup {a}]
         /\ UNCHANGED <<misfiled, wild>>
  <2>1. dest # Gone
    BY <1>1, MemoAssumption
  <2> QED BY <2>1 DEF Send
<1> HIDE DEF dest
<1>3. /\ MemoTypes /\ \A n \in Nicks : box[n] \in Seq(Addr) /\ IsInjective(box[n]) /\ sent[n] \in SUBSET Addr
      /\ \A b \in Memos : b \in Addr /\ memo[b] \in Memo
      /\ \A n \in Nicks : a \notin ToSet(box[n])
      /\ \A n \in Nicks : cnt[n] \in Int
  <2>1. MemoTypes
    BY DEF BoxInv
  <2>2. \A n \in Nicks : a \notin ToSet(box[n])
    BY MemosAt
  <2>3. \A n \in Nicks : IsInjective(box[n])
    BY DEF BoxInv, InOneBox
  <2>4. \A b \in Memos : b \in Addr /\ memo[b] \in Memo
    BY MemosAt
  <2> QED BY <2>1, <2>2, <2>3, <2>4 DEF MemoTypes
<1> DEFINE m == [from |-> s, to |-> to, age |-> 0, unread |-> TRUE,
                 del |-> FALSE, save |-> FALSE, fwd |-> forward[to] # NoOne]
<1>4. /\ m \in Memo /\ m.from = s /\ m.to = to /\ m.unread /\ ~m.del
      /\ m.fwd = (forward[to] # NoOne)
  <2>1. 0 \in 0 .. NickDrop
    BY MemoAssumption
  <2>2. (forward[to] # NoOne) \in BOOLEAN
    OBVIOUS
  <2> QED BY <2>1, <2>2 DEF Memo
<1>5. memo'[a] = m /\ \A b \in Addr : b # a => memo'[b] = memo[b]
  BY <1>2, <1>3 DEF MemoTypes
<1>6. memo' \in [Addr -> Memo \cup {Free}]
  BY <1>2, <1>3, <1>4 DEF MemoTypes
<1> HIDE DEF m
<1>7. Memos' = Memos \cup {a}
  BY <1>4, <1>5, MemoNotFree DEF Memos
<1> DEFINE seq == box[dest]
           r == <<a>> \o seq
<1>8. /\ r \in Seq(Addr) /\ Len(r) = Len(seq) + 1 /\ r[1] = a
      /\ \A i \in 1 .. Len(seq) : r[i + 1] = seq[i]
      /\ DOMAIN r = 1 .. Len(seq) + 1 /\ DOMAIN seq = 1 .. Len(seq) /\ Len(seq) \in Nat
  BY <1>1, <1>2, <1>3
<1>9. box'[dest] = r /\ \A n \in Nicks : n # dest => box'[n] = box[n]
  BY <1>1, <1>2, <1>3 DEF MemoTypes
<1>10. box' \in [Nicks -> Seq(Addr)]
  BY <1>1, <1>2, <1>3, <1>8 DEF MemoTypes
<1>11. IsInjective(seq) /\ a \notin ToSet(seq)
  BY <1>1, <1>3
<1> HIDE DEF seq, r
<1>12. \A i \in 2 .. Len(seq) + 1 : i - 1 \in 1 .. Len(seq) /\ r[i] = seq[i - 1]
  <2> SUFFICES ASSUME NEW i \in 2 .. Len(seq) + 1 PROVE i - 1 \in 1 .. Len(seq) /\ r[i] = seq[i - 1]
    OBVIOUS
  <2>1. i - 1 \in 1 .. Len(seq) /\ (i - 1) + 1 = i
    BY <1>8
  <2> QED BY <1>8, <2>1
<1>13. ToSet(r) = ToSet(seq) \cup {a}
  <2>1. ASSUME NEW i \in DOMAIN r PROVE r[i] \in ToSet(seq) \cup {a}
    <3>1. CASE i = 1
      BY <1>8, <3>1
    <3>2. CASE i # 1
      <4>1. i \in 2 .. Len(seq) + 1
        BY <1>8, <3>2
      <4>2. r[i] = seq[i - 1] /\ i - 1 \in DOMAIN seq
        BY <1>8, <1>12, <4>1
      <4> QED BY <4>2 DEF ToSet
    <3> QED BY <3>1, <3>2
  <2>2. \A i \in DOMAIN seq : i + 1 \in DOMAIN r /\ r[i + 1] = seq[i]
    BY <1>8
  <2>3. 1 \in DOMAIN r
    BY <1>8
  <2>4. ToSet(seq) \subseteq ToSet(r)
    BY <2>2 DEF ToSet
  <2>5. a \in ToSet(r)
    BY <1>8, <2>3 DEF ToSet
  <2>6. ToSet(r) \subseteq ToSet(seq) \cup {a}
    BY <2>1 DEF ToSet
  <2> QED BY <2>4, <2>5, <2>6
<1>14. IsInjective(r)
  <2> SUFFICES ASSUME NEW i \in 1 .. Len(seq) + 1, NEW j \in 1 .. Len(seq) + 1, r[i] = r[j] PROVE i = j
    BY <1>8 DEF IsInjective
  <2>1. \A l \in 1 .. Len(seq) : seq[l] # a
    BY <1>8, <1>11 DEF ToSet
  <2>2. CASE i = 1 /\ j = 1
    BY <2>2
  <2>3. CASE i = 1 /\ j # 1
    BY <1>8, <1>12, <2>1, <2>3
  <2>4. CASE i # 1 /\ j = 1
    BY <1>8, <1>12, <2>1, <2>4
  <2>5. CASE i # 1 /\ j # 1
    <3>1. i \in 2 .. Len(seq) + 1 /\ j \in 2 .. Len(seq) + 1
      BY <1>8, <2>5
    <3>2. seq[i - 1] = seq[j - 1] /\ i - 1 \in 1 .. Len(seq) /\ j - 1 \in 1 .. Len(seq)
      BY <1>12, <3>1
    <3>3. i - 1 = j - 1
      BY <1>8, <1>11, <3>2 DEF IsInjective
    <3> QED BY <3>1, <3>3
  <2> QED BY <2>2, <2>3, <2>4, <2>5
<1>15. /\ \A n \in Nicks : IsInjective(box'[n])
       /\ ToSet(box'[dest]) = ToSet(box[dest]) \cup {a}
       /\ \A n \in Nicks : n # dest => ToSet(box'[n]) = ToSet(box[n])
  BY <1>3, <1>9, <1>13, <1>14 DEF seq
<1>16. MemoTypes'
  <2>1. sent' \in [Nicks -> SUBSET Addr] /\ cnt' \in [Nicks -> Int] /\ misfiled' \in Nat
    BY <1>1, <1>2, <1>3 DEF MemoTypes
  <2> QED BY <1>6, <1>10, <2>1 DEF MemoTypes
<1>17. InOneBox'
  <2>1. \A n \in Nicks : box'[n] # <<>> => n \in reg'
    BY <1>1, <1>9 DEF BoxInv, InOneBox
  <2>2. \A n, k \in Nicks : n # k => ToSet(box'[n]) \cap ToSet(box'[k]) = {}
    <3>1. \A n, k \in Nicks : n # k => ToSet(box[n]) \cap ToSet(box[k]) = {}
      BY DEF BoxInv, InOneBox
    <3> SUFFICES ASSUME NEW n \in Nicks, NEW k \in Nicks, n # k
                 PROVE  ToSet(box'[n]) \cap ToSet(box'[k]) = {}
      OBVIOUS
    <3>2. ToSet(box[n]) \cap ToSet(box[k]) = {} /\ a \notin ToSet(box[n]) /\ a \notin ToSet(box[k])
      BY <1>3, <3>1
    <3>3. CASE n = dest
      BY <1>15, <3>2, <3>3
    <3>4. CASE k = dest
      BY <1>15, <3>2, <3>4
    <3> QED BY <1>15, <3>2, <3>3, <3>4
  <2>3. Memos' = UNION {ToSet(box'[n]) : n \in Nicks}
    <3>1. Memos = UNION {ToSet(box[n]) : n \in Nicks}
      BY DEF BoxInv, InOneBox
    <3>2. \A b \in Memos' : \E n \in Nicks : b \in ToSet(box'[n])
      BY <1>1, <1>7, <1>15, <3>1
    <3>3. \A n \in Nicks : ToSet(box'[n]) \subseteq Memos'
      BY <1>1, <1>7, <1>15, <3>1
    <3> QED BY <3>2, <3>3
  <2> QED BY <1>15, <2>1, <2>2, <2>3 DEF InOneBox
<1>18. PlainAtHome'
  <2> SUFFICES ASSUME NEW b \in Memos', ~memo'[b].fwd
               PROVE  memo'[b].to # Gone /\ b \in ToSet(box'[memo'[b].to])
    BY DEF PlainAtHome
  <2>1. CASE b = a
    <3>1. memo'[b].to = to /\ forward[to] = NoOne
      BY <1>4, <1>5, <2>1
    <3>2. dest = to /\ to # Gone
      BY <1>1, <3>1, MemoAssumption
    <3> QED BY <1>15, <2>1, <3>1, <3>2
  <2>2. CASE b # a
    <3>1. b \in Memos /\ memo'[b] = memo[b] /\ memo[b] \in Memo
      BY <1>3, <1>5, <1>7, <2>2
    <3>2. memo[b].to # Gone /\ b \in ToSet(box[memo[b].to])
      BY <3>1 DEF BoxInv, PlainAtHome
    <3>3. memo[b].to \in Nicks
      BY <3>1, <3>2 DEF Memo
    <3> QED BY <1>1, <1>15, <3>1, <3>2, <3>3
  <2> QED BY <2>1, <2>2
<1>19. UnsendUnread'
  <2> SUFFICES ASSUME NEW n \in Nicks
               PROVE  sent'[n] = {b \in Memos' : memo'[b].from = n /\ memo'[b].unread /\ ~memo'[b].del}
    BY DEF UnsendUnread
  <2>1. sent[n] = {b \in Memos : memo[b].from = n /\ memo[b].unread /\ ~memo[b].del}
    BY DEF BoxInv, UnsendUnread
  <2>2. \A b \in Memos : b # a /\ memo'[b] = memo[b]
    BY <1>3, <1>5
  <2>3. CASE n = s
    <3>1. sent'[n] = sent[n] \cup {a}
      BY <1>2, <1>3, <2>3 DEF MemoTypes
    <3> QED BY <1>4, <1>5, <1>7, <2>1, <2>2, <2>3, <3>1
  <2>4. CASE n # s
    <3>1. sent'[n] = sent[n]
      BY <1>2, <1>3, <2>4 DEF MemoTypes
    <3> QED BY <1>4, <1>5, <1>7, <2>1, <2>2, <2>4, <3>1
  <2> QED BY <2>3, <2>4
<1>20. Known'
  <2> SUFFICES ASSUME NEW b \in Memos' PROVE memo'[b].to = Gone \/ memo'[b].to \in reg'
    BY DEF Known
  <2>1. CASE b = a
    BY <1>1, <1>4, <1>5, <2>1
  <2>2. CASE b # a
    <3>1. b \in Memos /\ memo'[b] = memo[b]
      BY <1>3, <1>5, <1>7, <2>2
    <3> QED BY <1>1, <3>1 DEF BoxInv, Known
  <2> QED BY <2>1, <2>2
<1>21. Vacant'
  <2> SUFFICES ASSUME NEW n \in Nicks \ reg' PROVE sent'[n] = {} /\ cnt'[n] = 0
    BY DEF Vacant
  <2>1. sent[n] = {} /\ cnt[n] = 0 /\ n # s /\ n # dest
    BY <1>1 DEF BoxInv, Vacant
  <2> QED BY <1>1, <1>2, <1>3, <2>1 DEF MemoTypes
<1>22. CountsMatch'
  <2> SUFFICES ASSUME misfiled' = 0, NEW n \in reg' PROVE cnt'[n] = Len(box'[n])
    BY DEF CountsMatch
  <2>1. misfiled = 0 /\ n \in reg /\ n \in Nicks
    BY <1>1, <1>2 DEF BoxInv
  <2>2. cnt[n] = Len(box[n])
    BY <2>1 DEF BoxInv, CountsMatch
  <2>3. CASE n = dest
    <3>1. cnt'[n] = cnt[n] + 1
      BY <1>2, <1>3, <2>1, <2>3 DEF MemoTypes
    <3> QED BY <1>8, <1>9, <2>2, <2>3, <3>1 DEF seq
  <2>4. CASE n # dest
    BY <1>2, <1>3, <1>9, <2>1, <2>2, <2>4 DEF MemoTypes
  <2> QED BY <2>3, <2>4
<1> QED BY <1>1, <1>16, <1>17, <1>18, <1>19, <1>20, <1>21, <1>22 DEF BoxInv

\* The age of a memo and its flag "save" matter to none of that.
LEMMA MarkHolds ==
    ASSUME BoxInv, reg' = reg, UNCHANGED <<box, sent, cnt, misfiled>>,
           memo' \in [Addr -> Memo \cup {Free}],
           \A a \in Addr \ Memos : memo'[a] = Free,
           \A a \in Memos : /\ memo'[a] \in Memo
                            /\ memo'[a].from = memo[a].from /\ memo'[a].to = memo[a].to
                            /\ memo'[a].unread = memo[a].unread /\ memo'[a].del = memo[a].del
                            /\ memo'[a].fwd = memo[a].fwd
    PROVE  BoxInv'
<1>1. \A a \in Memos : a \in Addr
  BY DEF Memos
<1>2. Memos' = Memos
  BY <1>1, MemoNotFree DEF Memos
<1>3. MemoTypes'
  BY DEF BoxInv, MemoTypes
<1>4. InOneBox'
  BY <1>2 DEF BoxInv, InOneBox
<1>5. PlainAtHome' /\ Known'
  BY <1>2 DEF BoxInv, PlainAtHome, Known
<1>6. UnsendUnread'
  <2> SUFFICES ASSUME NEW n \in Nicks
               PROVE  sent'[n] = {a \in Memos' : memo'[a].from = n /\ memo'[a].unread /\ ~memo'[a].del}
    BY DEF UnsendUnread
  <2>1. sent[n] = {a \in Memos : memo[a].from = n /\ memo[a].unread /\ ~memo[a].del}
    BY DEF BoxInv, UnsendUnread
  <2> QED BY <1>2, <2>1
<1>7. CountsMatch' /\ Vacant'
  BY DEF BoxInv, CountsMatch, Vacant
<1> QED BY <1>3, <1>4, <1>5, <1>6, <1>7 DEF BoxInv

\* The clock, and "save".
LEMMA AgeHolds ==
    ASSUME BoxInv, Tick \/ SaveFlag, reg' = reg
    PROVE  BoxInv'
<1>1. MemoTypes /\ \A a \in Memos : a \in Addr /\ memo[a] \in Memo
  BY MemosAt DEF BoxInv
<1>2. CASE Tick
  <2>1. \A a \in Memos : memo[a].age < NickDrop =>
            [memo[a] EXCEPT !.age = @ + 1] \in Memo
    BY <1>1, MemoAssumption DEF Memo
  <2>2. memo' = [a \in Addr |-> IF a \in Memos /\ memo[a].age < NickDrop
                              THEN [memo[a] EXCEPT !.age = @ + 1] ELSE memo[a]]
    BY <1>2 DEF Tick
  <2>3. memo' \in [Addr -> Memo \cup {Free}]
    BY <1>1, <2>1, <2>2 DEF MemoTypes
  <2>4. \A a \in Addr \ Memos : memo'[a] = Free
    BY <2>2 DEF Memos
  <2>5. ASSUME NEW a \in Memos
        PROVE  /\ memo'[a] \in Memo
               /\ memo'[a].from = memo[a].from /\ memo'[a].to = memo[a].to
               /\ memo'[a].unread = memo[a].unread /\ memo'[a].del = memo[a].del
               /\ memo'[a].fwd = memo[a].fwd
    <3>1. memo[a] \in Memo /\ a \in Addr
      BY <1>1
    <3>2. CASE memo[a].age < NickDrop
      <4>1. memo'[a] = [memo[a] EXCEPT !.age = @ + 1]
        BY <2>2, <3>1, <3>2
      <4> QED BY <2>1, <3>1, <3>2, <4>1 DEF Memo
    <3>3. CASE ~(memo[a].age < NickDrop)
      BY <2>2, <3>1, <3>3
    <3> QED BY <3>2, <3>3
  <2>6. UNCHANGED <<box, sent, cnt, misfiled>>
    BY <1>2 DEF Tick
  <2> QED BY <2>3, <2>4, <2>5, <2>6, MarkHolds
<1>3. CASE SaveFlag
  <2>1. PICK n \in Nicks : \E a \in Indexed(n) : memo' = [memo EXCEPT ![a].save = TRUE]
    BY <1>3 DEF SaveFlag
  <2>2. PICK a \in Indexed(n) : memo' = [memo EXCEPT ![a].save = TRUE]
    BY <2>1
  <2>3. a \in Memos /\ a \in Addr /\ memo[a] \in Memo
    <3>1. a \in ToSet(box[n])
      BY <2>2 DEF Indexed, ToSet
    <3> QED BY <1>1, <3>1, MemosAt
  <2>4. memo' = [memo EXCEPT ![a] = [memo[a] EXCEPT !.save = TRUE]] /\ [memo[a] EXCEPT !.save = TRUE] \in Memo
    BY <2>2, <2>3 DEF Memo
  <2>5. memo' \in [Addr -> Memo \cup {Free}]
    BY <1>1, <2>3, <2>4 DEF MemoTypes
  <2>6. \A b \in Addr \ Memos : memo'[b] = Free
    BY <1>1, <2>3, <2>4 DEF Memos, MemoTypes
  <2>7. ASSUME NEW b \in Memos
        PROVE  /\ memo'[b] \in Memo
               /\ memo'[b].from = memo[b].from /\ memo'[b].to = memo[b].to
               /\ memo'[b].unread = memo[b].unread /\ memo'[b].del = memo[b].del
               /\ memo'[b].fwd = memo[b].fwd
    <3>1. CASE b = a
      <4>1. memo'[b] = [memo[b] EXCEPT !.save = TRUE]
        BY <1>1, <2>3, <2>4, <3>1 DEF MemoTypes
      <4> QED BY <2>3, <3>1, <4>1 DEF Memo
    <3>2. CASE b # a
      BY <1>1, <2>3, <2>4, <3>2 DEF MemoTypes
    <3> QED BY <3>1, <3>2
  <2>8. UNCHANGED <<box, sent, cnt, misfiled>>
    BY <1>3 DEF SaveFlag
  <2> QED BY <2>5, <2>6, <2>7, <2>8, MarkHolds
<1> QED BY <1>2, <1>3

\* What READ, DELETE, CLEAN and UNSEND do.
LEMMA CommandsHold ==
    ASSUME BoxInv, ~wild', reg' = reg, Read \/ Delete \/ Clean \/ Unsend
    PROVE  BoxInv'
<1>1. \A n \in Nicks : Indexed(n) \subseteq ToSet(box[n])
  BY DEF Indexed, ToSet
<1>2. CASE Read
  <2>1. PICK n \in Nicks : \E read \in {ToSet(box[n])} \cup {{a} : a \in Indexed(n)} :
                              Touch(read, "unread")
    BY <1>2 DEF Read
  <2>2. PICK read \in {ToSet(box[n])} \cup {{a} : a \in Indexed(n)} : Touch(read, "unread")
    BY <2>1
  <2>3. read \in SUBSET ToSet(box[n])
    BY <1>1, <2>2
  <2> QED BY <2>2, <2>3, TouchHolds
<1>3. CASE Delete
  <2>1. PICK n \in Nicks : \E gone \in {ToSet(box[n]), {a \in ToSet(box[n]) : ~memo[a].unread}}
                                    \cup {{a} : a \in Indexed(n)} : Touch(gone, "del")
    BY <1>3 DEF Delete
  <2>2. PICK gone \in {ToSet(box[n]), {a \in ToSet(box[n]) : ~memo[a].unread}}
                     \cup {{a} : a \in Indexed(n)} : Touch(gone, "del")
    BY <2>1
  <2>3. gone \in SUBSET ToSet(box[n])
    BY <1>1, <2>2
  <2> QED BY <2>2, <2>3, TouchHolds
<1>4. CASE Clean
  <2>1. PICK n \in Nicks : LET gone == {a \in ToSet(box[n]) : memo[a].del} IN
           gone # {} /\ FromBox(gone, [a \in gone |-> n], {})
    BY <1>4 DEF Clean
  <2> DEFINE gone == {a \in ToSet(box[n]) : memo[a].del}
             counted == [a \in gone |-> n]
  <2>2. gone # {} /\ FromBox(gone, counted, {})
    BY <2>1
  <2>3. gone \in SUBSET Memos /\ \A a \in gone : counted[a] \in reg
    BY <2>2, MemosAt
  <2> HIDE DEF gone, counted
  <2>4. reg' = reg \ {} /\ {} \in SUBSET reg
    OBVIOUS
  <2> QED BY <2>2, <2>3, <2>4, RemoveHolds
<1>5. CASE Unsend
  <2>1. PICK n \in Nicks : \E gone \in {sent[n]} \cup {{a} : a \in sent[n]} :
           IF \E a \in gone : memo[a].to = Gone THEN wild' = TRUE /\ UNCHANGED memoVars
           ELSE FromBox(gone, [a \in gone |-> memo[a].to], {}) /\ UNCHANGED wild
    BY <1>5 DEF Unsend
  <2>2. PICK gone \in {sent[n]} \cup {{a} : a \in sent[n]} :
           IF \E a \in gone : memo[a].to = Gone THEN wild' = TRUE /\ UNCHANGED memoVars
           ELSE FromBox(gone, [a \in gone |-> memo[a].to], {}) /\ UNCHANGED wild
    BY <2>1
  <2> DEFINE counted == [a \in gone |-> memo[a].to]
  <2>3. ~(\E a \in gone : memo[a].to = Gone) /\ FromBox(gone, counted, {})
    BY <2>2
  <2>4. gone \in SUBSET Memos
    BY <2>2, MemosAt
  <2>5. \A a \in gone : counted[a] \in reg
    BY <2>3, <2>4 DEF BoxInv, Known
  <2> HIDE DEF counted
  <2>6. reg' = reg \ {} /\ {} \in SUBSET reg
    OBVIOUS
  <2> QED BY <2>3, <2>4, <2>5, <2>6, RemoveHolds
<1> QED BY <1>2, <1>3, <1>4, <1>5

\* A nick that goes takes the memos in its box with it, and those it sent that
\* nobody has read.
LEMMA DropHolds ==
    ASSUME BoxInv, ~wild', Drop
    PROVE  BoxInv'
<1>1. PICK n \in reg :
        IF \E a \in sent[n] : memo[a].to = Gone
        THEN wild' = TRUE /\ UNCHANGED <<memoVars, nickVars>>
        ELSE DelRegNick(n) /\ reg' = reg \ {n}
  BY DEF Drop
<1>2. ~(\E a \in sent[n] : memo[a].to = Gone) /\ DelRegNick(n) /\ reg' = reg \ {n}
  BY <1>1
<1> DEFINE gone == sent[n] \cup ToSet(box[n])
           counted == [a \in gone |-> IF a \in sent[n] THEN memo[a].to ELSE n]
<1>3. FromBox(gone, counted, {n}) /\ n \in Nicks
  BY <1>2 DEF DelRegNick, BoxInv
<1>4. gone \in SUBSET Memos /\ {n} \in SUBSET reg
  BY <1>3, MemosAt
<1>5. \A a \in gone : counted[a] \in reg
  BY <1>2, <1>4 DEF BoxInv, Known
<1>6. \A m \in {n} : sent[m] \subseteq gone /\ ToSet(box[m]) \subseteq gone
  OBVIOUS
<1> HIDE DEF gone, counted
<1> QED BY <1>2, <1>3, <1>4, <1>5, <1>6, RemoveHolds

\* A nick starts with an empty box.
LEMMA RegisterHolds ==
    ASSUME BoxInv, Register
    PROVE  BoxInv'
<1>1. PICK n \in Nicks \ reg : reg' = reg \cup {n}
  BY DEF Register
<1>2. UNCHANGED memoVars
  BY DEF Register
<1>3. box[n] = <<>> /\ cnt[n] = 0
  BY <1>1 DEF BoxInv, InOneBox, Vacant
<1>4. Memos' = Memos /\ UNCHANGED <<memo, box, sent, cnt, misfiled>>
  BY <1>2 DEF Memos, memoVars
<1>5. CountsMatch'
  BY <1>1, <1>3, <1>4 DEF BoxInv, CountsMatch
<1>6. InOneBox'
  BY <1>1, <1>4 DEF BoxInv, InOneBox
<1>7. PlainAtHome'
  BY <1>4 DEF BoxInv, PlainAtHome
<1>8. UnsendUnread'
  BY <1>4 DEF BoxInv, UnsendUnread
<1>9. Known' /\ Vacant' /\ MemoTypes' /\ reg' \subseteq Nicks
  BY <1>1, <1>4 DEF BoxInv, Known, Vacant, MemoTypes
<1> QED BY <1>5, <1>6, <1>7, <1>8, <1>9 DEF BoxInv

\* What is set for a nick: where its memos go, whose memos it takes.
LEMMA NickHolds ==
    ASSUME IInv, Next
    PROVE  NickInv'
<1>1. /\ NickTypes /\ reg \subseteq Nicks
      /\ \A n \in Nicks : forward[n] \in Nicks => forward[n] \in reg
      /\ \A n \in Nicks : Cardinality(blocks[n]) + lost[n] <= MaxBlocks
  BY DEF IInv, NickInv, BoxInv
<1>2. /\ \A S \in SUBSET Nicks : IsFiniteSet(S) /\ Cardinality(S) \in Nat
      /\ NoOne \notin Nicks /\ Gone \notin Nicks /\ MaxBlocks \in Nat
  BY MemoAssumption, FS_Subset, FS_CardinalityType
<1>3. \A n \in Nicks : blocks[n] \in SUBSET Nicks /\ lost[n] \in 0 .. MaxBlocks
  BY <1>1 DEF NickTypes
<1>4. CASE UNCHANGED <<reg, forward, nomemo, blocks, lost>>
  BY <1>1, <1>4 DEF NickInv, NickTypes
<1>5. CASE Forward
  <2>1. UNCHANGED <<reg, nomemo, blocks, lost>>
    BY <1>5 DEF Forward
  <2>2. PICK n \in reg : \E to \in reg \cup {NoOne} : forward' = [forward EXCEPT ![n] = to]
    BY <1>5 DEF Forward
  <2>3. PICK to \in reg \cup {NoOne} : forward' = [forward EXCEPT ![n] = to]
    BY <2>2
  <2>4. forward' \in [Nicks -> Nicks \cup {NoOne, Gone}]
    BY <1>1, <2>3 DEF NickTypes
  <2>5. \A m \in Nicks : forward'[m] \in Nicks => forward'[m] \in reg'
    BY <1>1, <1>2, <2>1, <2>3 DEF NickTypes
  <2> QED BY <1>1, <2>1, <2>4, <2>5 DEF NickInv, NickTypes
<1>6. CASE Nomemo
  <2>1. UNCHANGED <<reg, forward, blocks, lost>> /\ nomemo' \subseteq Nicks
    BY <1>1, <1>6 DEF Nomemo, NickTypes
  <2> QED BY <1>1, <2>1 DEF NickInv, NickTypes
<1>7. CASE Mblock
  <2>1. UNCHANGED <<reg, forward, nomemo, lost>>
    BY <1>7 DEF Mblock
  <2>2. PICK n \in reg : \E m \in reg :
          \/ /\ Cardinality(blocks[n]) + lost[n] < MaxBlocks
             /\ blocks' = [blocks EXCEPT ![n] = @ \cup {m}]
          \/ blocks' = [blocks EXCEPT ![n] = @ \ {m}]
    BY <1>7 DEF Mblock
  <2>3. PICK m \in reg :
          \/ /\ Cardinality(blocks[n]) + lost[n] < MaxBlocks
             /\ blocks' = [blocks EXCEPT ![n] = @ \cup {m}]
          \/ blocks' = [blocks EXCEPT ![n] = @ \ {m}]
    BY <2>2
  <2>4. n \in Nicks /\ m \in Nicks /\ IsFiniteSet(blocks[n]) /\ Cardinality(blocks[n]) \in Nat
    BY <1>1, <1>2, <1>3
  <2>5. blocks' \in [Nicks -> SUBSET Nicks]
    BY <1>1, <2>3, <2>4 DEF NickTypes
  <2>6. \A k \in Nicks : k # n => blocks'[k] = blocks[k]
    BY <1>1, <2>3 DEF NickTypes
  <2>7. Cardinality(blocks'[n]) + lost[n] <= MaxBlocks
    <3>1. CASE Cardinality(blocks[n]) + lost[n] < MaxBlocks /\ blocks'[n] = blocks[n] \cup {m}
      <4>1. Cardinality(blocks'[n]) \in Nat /\ Cardinality(blocks'[n]) <= Cardinality(blocks[n]) + 1
        <5>1. CASE m \in blocks[n]
          <6>1. blocks'[n] = blocks[n]
            BY <3>1, <5>1
          <6> QED BY <2>4, <6>1
        <5>2. CASE m \notin blocks[n]
          <6>1. Cardinality(blocks[n] \cup {m}) = Cardinality(blocks[n]) + 1
            BY <2>4, <5>2, FS_AddElement
          <6> QED BY <2>4, <3>1, <6>1
        <5> QED BY <5>1, <5>2
      <4> QED BY <1>2, <1>3, <2>4, <3>1, <4>1
    <3>2. CASE blocks'[n] = blocks[n] \ {m}
      <4>1. Cardinality(blocks'[n]) \in Nat /\ Cardinality(blocks'[n]) <= Cardinality(blocks[n])
        <5>1. CASE m \in blocks[n]
          <6>1. Cardinality(blocks'[n]) \in Nat /\ Cardinality(blocks[n] \ {m}) = Cardinality(blocks[n]) - 1
            BY <1>2, <1>3, <2>4, <3>2, <5>1, FS_RemoveElement
          <6> QED BY <2>4, <3>2, <6>1
        <5>2. CASE m \notin blocks[n]
          <6>1. blocks'[n] = blocks[n]
            BY <1>3, <2>4, <3>2, <5>2
          <6> QED BY <2>4, <6>1
        <5> QED BY <5>1, <5>2
      <4> QED BY <1>1, <1>2, <1>3, <2>4, <4>1
    <3> QED BY <1>1, <2>3, <2>4, <3>1, <3>2 DEF NickTypes
  <2> QED BY <1>1, <2>1, <2>5, <2>6, <2>7 DEF NickInv, NickTypes
<1>8. CASE Register
  BY <1>1, <1>8 DEF Register, NickInv, NickTypes
<1>9. CASE Drop
  <2>1. CASE UNCHANGED <<memoVars, nickVars>>
    BY <1>4, <2>1 DEF nickVars
  <2>2. CASE ~UNCHANGED <<memoVars, nickVars>>
    <3>1. PICK n \in reg :
             /\ reg' = reg \ {n}
             /\ nomemo' = nomemo \ {n}
             /\ forward' = [m \in Nicks |-> IF m = n THEN NoOne
                                           ELSE IF forward[m] = n THEN Gone ELSE forward[m]]
             /\ blocks' = [m \in Nicks |-> IF m = n THEN {} ELSE blocks[m] \ {n}]
             /\ lost' = [m \in Nicks |-> IF m = n THEN 0 ELSE
                                         IF n \in blocks[m] THEN lost[m] + 1 ELSE lost[m]]
      BY <1>9, <2>2 DEF Drop
    <3>2. forward' \in [Nicks -> Nicks \cup {NoOne, Gone}] /\ nomemo' \subseteq Nicks
      BY <1>1, <3>1 DEF NickTypes
    <3>3. \A m \in Nicks : forward'[m] \in Nicks => forward'[m] \in reg'
      BY <1>1, <1>2, <3>1
    <3>4. blocks' \in [Nicks -> SUBSET Nicks]
      BY <1>3, <3>1
    <3>5. ASSUME NEW m \in Nicks
          PROVE  lost'[m] \in 0 .. MaxBlocks /\ Cardinality(blocks'[m]) + lost'[m] <= MaxBlocks
      <4>1. CASE m = n
        <5>1. blocks'[m] = {} /\ lost'[m] = 0
          BY <3>1, <4>1
        <5> QED BY <1>2, <5>1, FS_EmptySet
      <4>2. CASE m # n
        <5>1. IsFiniteSet(blocks[m]) /\ Cardinality(blocks[m]) \in Nat
          BY <1>2, <1>3
        <5>2. CASE n \in blocks[m]
          <6>1. blocks'[m] = blocks[m] \ {n} /\ lost'[m] = lost[m] + 1
            BY <3>1, <4>2, <5>2
          <6>2. Cardinality(blocks'[m]) = Cardinality(blocks[m]) - 1 /\ Cardinality(blocks'[m]) \in Nat
            BY <1>2, <1>3, <5>1, <5>2, <6>1, FS_RemoveElement
          <6> QED BY <1>1, <1>2, <1>3, <5>1, <6>1, <6>2
        <5>3. CASE n \notin blocks[m]
          <6>1. blocks'[m] = blocks[m] /\ lost'[m] = lost[m]
            BY <1>3, <3>1, <4>2, <5>3
          <6> QED BY <1>1, <1>3, <6>1
        <5> QED BY <5>2, <5>3
      <4> QED BY <4>1, <4>2
    <3>6. lost' \in [Nicks -> 0 .. MaxBlocks]
      BY <3>1, <3>5
    <3> QED BY <3>2, <3>3, <3>4, <3>5, <3>6 DEF NickInv, NickTypes
  <2> QED BY <2>1, <2>2
<1>10. CASE Restart
  <2>1. UNCHANGED <<reg, forward, nomemo, blocks>>
    BY <1>10 DEF Restart
  <2>2. lost' = lost \/ lost' = [n \in Nicks |-> 0]
    BY <1>10 DEF Restart
  <2>3. CASE lost' = lost
    BY <1>4, <2>1, <2>3
  <2>4. CASE lost' = [n \in Nicks |-> 0]
    <3>1. \A n \in Nicks : lost'[n] = 0 /\ Cardinality(blocks[n]) \in Nat
      BY <1>2, <1>3, <2>4
    <3>2. \A n \in Nicks : Cardinality(blocks'[n]) + lost'[n] <= MaxBlocks
      BY <1>1, <1>2, <1>3, <2>1, <3>1
    <3>3. lost' \in [Nicks -> 0 .. MaxBlocks]
      BY <1>2, <2>4
    <3> QED BY <1>1, <2>1, <3>2, <3>3 DEF NickInv, NickTypes
  <2> QED BY <2>2, <2>3, <2>4
<1>11. Tick \/ SendMemo \/ Read \/ Delete \/ SaveFlag \/ Clean \/ Unsend => UNCHANGED nickVars
  BY DEF Tick, SendMemo, Send, Read, Delete, SaveFlag, Clean, Unsend
<1> QED BY <1>4, <1>5, <1>6, <1>7, <1>8, <1>9, <1>10, <1>11 DEF Next, Commands, Nickserv, nickVars
-----------------------------------------------------------------------------
(***************************************************************************)
(* A restart.                                                              *)
(***************************************************************************)

\* The places that saveMemoData() comes to are told by a function on them.
LEMMA VisitedIs ==
    ASSUME NEW list \in Seq(Addr)
    PROVE  /\ Visited(list) \in [1 .. Len(list) -> BOOLEAN]
           /\ \A i \in 1 .. Len(list) :
                 Visited(list)[i] <=>
                   \/ i = 1
                   \/ i > 1 /\ Visited(list)[i - 1] /\ ~Expired(list[i - 1])
                   \/ i > 2 /\ Visited(list)[i - 2] /\ Expired(list[i - 2])
<1> DEFINE Step(f, i) == \/ i = 1
                         \/ i > 1 /\ f[i - 1] /\ ~Expired(list[i - 1])
                         \/ i > 2 /\ f[i - 2] /\ Expired(list[i - 2])
           Sol(n) == {f \in [1 .. n -> BOOLEAN] : \A i \in 1 .. n : f[i] <=> Step(f, i)}
           Bad == {n \in Nat : Sol(n) = {}}
<1>1. Bad = {}
  <2>1. SUFFICES ASSUME Bad # {} PROVE FALSE
    OBVIOUS
  <2>2. PICK n \in Bad : \A m \in Bad : n <= m
    <3>1. Bad \in SUBSET Nat
      OBVIOUS
    <3> HIDE DEF Bad
    <3> QED BY <2>1, <3>1, NatMin
  <2>3. n # 0
    <3>1. SUFFICES ASSUME n = 0 PROVE FALSE
      OBVIOUS
    <3>2. 1 .. 0 = {}
      OBVIOUS
    <3>3. [i \in 1 .. 0 |-> TRUE] \in Sol(0)
      <4> HIDE DEF Step
      <4> QED BY <3>2
    <3>4. Sol(0) = {}
      BY <3>1
    <3> QED BY <3>3, <3>4
  <2>4. n - 1 \in Nat /\ n - 1 \notin Bad /\ n \in Nat
    <3>1. n \in Nat
      OBVIOUS
    <3>2. n - 1 \in Nat /\ ~ (n <= n - 1)
      BY <2>3, <3>1
    <3> HIDE DEF Bad
    <3> QED BY <2>2, <3>1, <3>2
  <2>5. PICK g : g \in Sol(n - 1)
    BY <2>4
  <2>6. g \in [1 .. n - 1 -> BOOLEAN] /\ \A i \in 1 .. n - 1 : g[i] <=> Step(g, i)
    BY <2>5
  <2> HIDE DEF Sol, Bad
  <2> DEFINE last == Step(g, n)
             f == [i \in 1 .. n |-> IF i = n THEN last ELSE g[i]]
  <2>7. last \in BOOLEAN
    OBVIOUS
  <2>8. \A i \in 1 .. n : i # n => i \in 1 .. n - 1
    BY <2>4
  <2>9. f \in [1 .. n -> BOOLEAN]
    <3> HIDE DEF last
    <3> QED BY <2>6, <2>7, <2>8
  <2>10. \A i \in 1 .. n - 1 : i \in 1 .. n /\ i # n /\ f[i] = g[i]
    <3>1. \A i \in 1 .. n - 1 : i \in 1 .. n /\ i # n
      BY <2>4
    <3> HIDE DEF last
    <3> QED BY <3>1
  <2>11. n \in 1 .. n /\ f[n] = last
    <3>1. n \in 1 .. n
      BY <2>3, <2>4
    <3> HIDE DEF last
    <3> QED BY <3>1
  <2> HIDE DEF f
  <2>12. ASSUME NEW i \in 1 .. n PROVE Step(f, i) <=> Step(g, i)
    <3>1. i > 1 => i - 1 \in 1 .. n - 1
      BY <2>4
    <3>2. i > 2 => i - 2 \in 1 .. n - 1
      BY <2>4
    <3> QED BY <2>10, <3>1, <3>2
  <2>13. ASSUME NEW i \in 1 .. n PROVE f[i] <=> Step(f, i)
    <3>1. CASE i = n
      <4>1. f[n] <=> Step(g, n)
        BY <2>11
      <4>2. Step(f, n) <=> Step(g, n)
        BY <2>11, <2>12
      <4> HIDE DEF Step
      <4> QED BY <3>1, <4>1, <4>2
    <3>2. CASE i # n
      <4>1. i \in 1 .. n - 1
        BY <2>8, <3>2
      <4>2. f[i] = g[i]
        BY <2>10, <4>1
      <4>3. g[i] <=> Step(g, i)
        BY <2>6, <4>1
      <4> HIDE DEF Step
      <4> QED BY <2>12, <4>2, <4>3
    <3> QED BY <3>1, <3>2
  <2>14. f \in Sol(n)
    <3> HIDE DEF Step
    <3> QED BY <2>9, <2>13 DEF Sol
  <2> QED BY <2>14 DEF Bad
<1>2. PICK g : g \in Sol(Len(list))
  BY <1>1
<1> DEFINE Eq(f) == f = [i \in 1 .. Len(list) |-> Step(f, i)]
<1>3. Eq(g)
  <2>1. g \in [1 .. Len(list) -> BOOLEAN]
    BY <1>2
  <2>2. \A i \in 1 .. Len(list) : g[i] \in BOOLEAN
    BY <2>1
  <2>3. \A i \in 1 .. Len(list) : g[i] <=> Step(g, i)
    BY <1>2
  <2>4. \A i \in 1 .. Len(list) : g[i] = Step(g, i)
    BY <2>2, <2>3, Zenon
  <2> HIDE DEF Step
  <2> QED BY <2>1, <2>4
<1> DEFINE v == Visited(list)
<1>4. Eq(v)
  <2>1. v = CHOOSE f : Eq(f)
    BY DEF Visited
  <2> HIDE DEF Eq, v
  <2> QED BY <1>3, <2>1
<1>5. \A i \in 1 .. Len(list) : v[i] = Step(v, i)
  <2> HIDE DEF v, Step
  <2> QED BY <1>4
<1>6. v \in [1 .. Len(list) -> BOOLEAN]
  <2>1. \A i \in 1 .. Len(list) : Step(v, i) \in BOOLEAN
    OBVIOUS
  <2> HIDE DEF v, Step
  <2> QED BY <1>4, <2>1
<1> HIDE DEF v
<1>7. \A i \in 1 .. Len(list) : v[i] <=> Step(v, i)
  BY <1>5
<1> QED BY <1>6, <1>7 DEF v

\* A place it does not come to is the one behind an expired memo it came to.
LEMMA SkippedIs ==
    ASSUME NEW list \in Seq(Addr), NEW i \in 1 .. Len(list), ~Visited(list)[i]
    PROVE  i > 1 /\ Visited(list)[i - 1] /\ Expired(list[i - 1])
<1> DEFINE v == Visited(list)
           Bad == {j \in Nat : /\ j \in 1 .. Len(list) /\ ~v[j]
                               /\ ~(j > 1 /\ v[j - 1] /\ Expired(list[j - 1]))}
<1>1. \A j \in 1 .. Len(list) :
         v[j] <=> \/ j = 1
                  \/ j > 1 /\ v[j - 1] /\ ~Expired(list[j - 1])
                  \/ j > 2 /\ v[j - 2] /\ Expired(list[j - 2])
  BY VisitedIs
<1> HIDE DEF v
<1>2. Bad = {}
  <2>1. SUFFICES ASSUME Bad # {} PROVE FALSE
    OBVIOUS
  <2>2. PICK j \in Bad : \A k \in Bad : j <= k
    <3>1. Bad \in SUBSET Nat
      OBVIOUS
    <3> HIDE DEF Bad
    <3> QED BY <2>1, <3>1, NatMin
  <2>3. /\ j \in 1 .. Len(list) /\ ~v[j] /\ ~(j > 1 /\ v[j - 1] /\ Expired(list[j - 1]))
        /\ j \in Nat /\ j > 1
    BY <1>1
  <2>4. ~v[j - 1]
    BY <1>1, <2>3
  <2>5. j - 1 \in 1 .. Len(list) /\ j - 1 \in Nat /\ ~(j <= j - 1) /\ (j - 1) - 1 = j - 2
    BY <2>3
  <2>6. j - 1 \notin Bad
    <3> HIDE DEF Bad
    <3> QED BY <2>2, <2>5
  <2>7. j - 1 > 1 /\ v[(j - 1) - 1] /\ Expired(list[(j - 1) - 1])
    BY <2>4, <2>5, <2>6
  <2>8. j > 2 /\ v[j - 2] /\ Expired(list[j - 2])
    BY <2>3, <2>5, <2>7
  <2> QED BY <1>1, <2>3, <2>8
<1>3. i \in Nat /\ i \notin Bad
  BY <1>2
<1>4. ~v[i]
  BY DEF v
<1> QED BY <1>3, <1>4 DEF v

\* What a box is loaded as.
LEMMA LoadedIs ==
    ASSUME BoxInv, NEW n \in Nicks
    PROVE  /\ Loaded(n) \in Seq(Addr) /\ IsInjective(Loaded(n))
           /\ ToSet(Loaded(n)) \subseteq ToSet(box[n])
           /\ \A i \in DOMAIN box[n] :
                 /\ box[n][i] \in ToSet(Loaded(n)) => ~Expired(box[n][i])
                 /\ box[n][i] \notin ToSet(Loaded(n)) =>
                       Expired(box[n][i]) \/ (i > 1 /\ Expired(box[n][i - 1]))
<1> DEFINE list == box[n]
           v == Visited(list)
           written == {list[i] : i \in {j \in DOMAIN list : v[j] /\ ~Expired(list[j])}}
           fresh == {a \in written : memo[a].save \/ memo[a].age < NickDrop}
<1>1. Loaded(n) = Only(Reverse(list), fresh)
  BY DEF Loaded
<1>2. list \in Seq(Addr) /\ IsInjective(list)
  BY DEF BoxInv, MemoTypes, InOneBox
<1>3. DOMAIN list = 1 .. Len(list) /\ \A i \in DOMAIN list : list[i] \in ToSet(list)
  BY <1>2 DEF ToSet
<1>4. \A i \in 1 .. Len(list) : ~v[i] => i > 1 /\ v[i - 1] /\ Expired(list[i - 1])
  BY <1>2, SkippedIs
<1>5. \A a \in ToSet(list) : memo[a] \in Memo
  BY MemosAt
<1> HIDE DEF list, v
<1>6. Reverse(list) \in Seq(Addr) /\ IsInjective(Reverse(list)) /\ ToSet(Reverse(list)) = ToSet(list)
  BY <1>2, ReverseIs
<1>7. /\ Loaded(n) \in Seq(Addr) /\ IsInjective(Loaded(n))
      /\ ToSet(Loaded(n)) = ToSet(list) \cap fresh
  <2> HIDE DEF fresh
  <2> QED BY <1>1, <1>6, OnlyIs
<1>8. ASSUME NEW i \in DOMAIN list
      PROVE  /\ list[i] \in ToSet(Loaded(n)) => ~Expired(list[i])
             /\ list[i] \notin ToSet(Loaded(n)) => Expired(list[i]) \/ (i > 1 /\ Expired(list[i - 1]))
  <2>1. ASSUME list[i] \in ToSet(Loaded(n)) PROVE ~Expired(list[i])
    <3>1. list[i] \in written
      BY <1>7, <2>1
    <3>2. PICK j \in DOMAIN list : list[j] = list[i] /\ ~Expired(list[j])
      BY <3>1
    <3> QED BY <3>2
  <2>2. ASSUME list[i] \notin ToSet(Loaded(n)), ~Expired(list[i])
        PROVE  i > 1 /\ Expired(list[i - 1])
    <3>1. memo[list[i]] \in Memo
      BY <1>3, <1>5
    <3>2. memo[list[i]].save \/ memo[list[i]].age < NickDrop
      BY <2>2, <3>1, MemoAssumption DEF Expired, Memo
    <3>3. list[i] \notin written
      BY <1>3, <1>7, <2>2, <3>2
    <3>4. ~v[i]
      BY <2>2, <3>3
    <3> QED BY <1>3, <1>4, <3>4
  <2> QED BY <2>1, <2>2
<1> QED BY <1>3, <1>7, <1>8 DEF list

\* What is loaded is a state the commands may go on from.
LEMMA RestartHolds ==
    ASSUME BoxInv, Restart, ~wild'
    PROVE  BoxInv'
<1> DEFINE kept == UNION {ToSet(Loaded(n)) : n \in Nicks}
<1>1. ~(\E n \in Nicks : forward[n] = Gone)
  <2>1. SUFFICES ASSUME \E n \in Nicks : forward[n] = Gone PROVE wild'
    OBVIOUS
  <2> QED BY <2>1 DEF Restart
<1>2. /\ box' = [n \in Nicks |-> Loaded(n)]
      /\ memo' = [a \in Addr |-> IF a \in kept THEN [memo[a] EXCEPT !.to = Owner(a)] ELSE Free]
      /\ cnt' = [n \in Nicks |-> Len(Loaded(n))]
      /\ sent' = [n \in Nicks |-> {a \in kept : memo[a].from = n /\ n \in reg /\ memo[a].unread}]
      /\ misfiled' = 0 /\ reg' = reg
  BY <1>1 DEF Restart
<1>3. \A n \in Nicks : /\ Loaded(n) \in Seq(Addr) /\ IsInjective(Loaded(n))
                       /\ ToSet(Loaded(n)) \subseteq ToSet(box[n])
                       /\ \A a \in ToSet(Loaded(n)) : ~Expired(a)
  <2> SUFFICES ASSUME NEW n \in Nicks
               PROVE  /\ Loaded(n) \in Seq(Addr) /\ IsInjective(Loaded(n))
                      /\ ToSet(Loaded(n)) \subseteq ToSet(box[n])
                      /\ \A a \in ToSet(Loaded(n)) : ~Expired(a)
    OBVIOUS
  <2>1. ToSet(Loaded(n)) \subseteq ToSet(box[n])
    BY LoadedIs
  <2>2. \A a \in ToSet(Loaded(n)) : ~Expired(a)
    <3> SUFFICES ASSUME NEW a \in ToSet(Loaded(n)) PROVE ~Expired(a)
      OBVIOUS
    <3>1. PICK i \in DOMAIN box[n] : a = box[n][i]
      BY <2>1 DEF ToSet
    <3> QED BY <3>1, LoadedIs
  <2> QED BY <2>1, <2>2, LoadedIs
<1>4. \A a \in kept : \E n \in Nicks : a \in ToSet(Loaded(n))
  OBVIOUS
<1>5. \A n \in Nicks : ToSet(Loaded(n)) \subseteq kept
  OBVIOUS
<1> HIDE DEF kept
<1>6. /\ kept \subseteq Memos /\ \A a \in kept : a \in Addr /\ memo[a] \in Memo /\ ~Expired(a)
      /\ \A n \in Nicks : \A a \in ToSet(Loaded(n)) : Owner(a) = n /\ n \in reg
  BY <1>3, <1>4, MemosAt
<1>7. \A a \in kept : Owner(a) \in reg /\ Owner(a) \in Nicks /\ a \in ToSet(Loaded(Owner(a)))
  BY <1>4, <1>6
<1>8. \A a \in kept : /\ memo'[a] = [memo[a] EXCEPT !.to = Owner(a)] /\ memo'[a] \in Memo
                      /\ memo'[a].to = Owner(a) /\ memo'[a].from = memo[a].from
                      /\ memo'[a].unread = memo[a].unread /\ memo'[a].del = memo[a].del
  BY <1>2, <1>6, <1>7 DEF Memo
<1>9. \A a \in Addr \ kept : memo'[a] = Free
  BY <1>2
<1>10. Memos' = kept
  BY <1>6, <1>8, <1>9, MemoNotFree DEF Memos
<1>11. \A n \in Nicks : box'[n] = Loaded(n) /\ cnt'[n] = Len(Loaded(n))
  BY <1>2
<1>12. MemoTypes'
  <2>1. memo' \in [Addr -> Memo \cup {Free}]
    BY <1>2, <1>8
  <2>2. box' \in [Nicks -> Seq(Addr)] /\ cnt' \in [Nicks -> Int]
    BY <1>2, <1>3
  <2>3. sent' \in [Nicks -> SUBSET Addr]
    BY <1>2, <1>6
  <2> QED BY <1>2, <2>1, <2>2, <2>3 DEF MemoTypes
<1>13. InOneBox'
  <2>1. \A n \in Nicks : box'[n] # <<>> => n \in reg'
    <3> SUFFICES ASSUME NEW n \in Nicks, Loaded(n) # <<>> PROVE n \in reg
      BY <1>2, <1>11
    <3>1. Loaded(n)[1] \in ToSet(Loaded(n))
      BY <1>3 DEF ToSet
    <3> QED BY <1>6, <3>1
  <2>2. \A n, m \in Nicks : n # m => ToSet(box'[n]) \cap ToSet(box'[m]) = {}
    BY <1>6, <1>11
  <2>3. Memos' = UNION {ToSet(box'[n]) : n \in Nicks}
    BY <1>10, <1>11 DEF kept
  <2> QED BY <1>3, <1>11, <2>1, <2>2, <2>3 DEF InOneBox
<1>14. PlainAtHome'
  <2> SUFFICES ASSUME NEW a \in kept PROVE memo'[a].to # Gone /\ a \in ToSet(box'[memo'[a].to])
    BY <1>10 DEF PlainAtHome
  <2>1. PICK n \in Nicks : n = Owner(a)
    BY <1>7
  <2>2. memo'[a].to = n /\ n # Gone /\ a \in ToSet(Loaded(n))
    BY <1>7, <1>8, <2>1, MemoAssumption
  <2>3. box'[n] = Loaded(n)
    BY <1>11
  <2> QED BY <2>2, <2>3
<1>15. UnsendUnread'
  <2> SUFFICES ASSUME NEW n \in Nicks
               PROVE  sent'[n] = {a \in Memos' : memo'[a].from = n /\ memo'[a].unread /\ ~memo'[a].del}
    BY DEF UnsendUnread
  <2>1. \A a \in kept : ~memo[a].del
    BY <1>6 DEF Expired
  <2>2. sent'[n] = {a \in kept : memo[a].from = n /\ n \in reg /\ memo[a].unread}
    BY <1>2
  <2>3. \A a \in kept : memo[a].from = n /\ memo[a].unread => n \in reg
    <3> SUFFICES ASSUME NEW a \in kept, memo[a].from = n, memo[a].unread, n \notin reg PROVE FALSE
      OBVIOUS
    <3>1. a \in sent[n]
      BY <1>6, <2>1 DEF BoxInv, UnsendUnread
    <3> QED BY <3>1 DEF BoxInv, Vacant
  <2> QED BY <1>8, <1>10, <2>1, <2>2, <2>3
<1>16. Known'
  <2> SUFFICES ASSUME NEW a \in kept PROVE memo'[a].to \in reg'
    BY <1>10 DEF Known
  <2>1. memo'[a].to = Owner(a) /\ Owner(a) \in reg
    BY <1>7, <1>8
  <2> QED BY <1>2, <2>1
<1>17. Vacant'
  <2> SUFFICES ASSUME NEW n \in Nicks \ reg PROVE sent'[n] = {} /\ cnt'[n] = 0
    BY <1>2 DEF Vacant
  <2>1. sent'[n] = {}
    BY <1>2
  <2>2. Loaded(n) = <<>>
    <3>1. SUFFICES ASSUME Loaded(n) # <<>> PROVE FALSE
      OBVIOUS
    <3>2. Loaded(n)[1] \in ToSet(Loaded(n))
      BY <1>3, <3>1 DEF ToSet
    <3> QED BY <1>6, <3>2
  <2> QED BY <1>11, <2>1, <2>2
<1>18. CountsMatch'
  BY <1>2, <1>11 DEF BoxInv, CountsMatch
<1> QED BY <1>2, <1>12, <1>13, <1>14, <1>15, <1>16, <1>17, <1>18 DEF BoxInv
-----------------------------------------------------------------------------
(***************************************************************************)
(* The theorems.                                                           *)
(***************************************************************************)

\* A registration that was freed is used, or the memos are left in order.
LEMMA StepHolds ==
    ASSUME IInv, Next, ~wild'
    PROVE  BoxInv'
<1>1. BoxInv /\ NickInv
  BY DEF IInv
<1>2. Tick \/ SendMemo \/ Read \/ Delete \/ SaveFlag \/ Clean \/ Forward \/ Nomemo \/ Mblock \/ Unsend
        \/ Restart => reg' = reg
  BY DEF Tick, SendMemo, Send, Read, Delete, SaveFlag, Clean, Forward, Nomemo, Mblock, Unsend, Restart,
         nickVars
<1>3. CASE Tick \/ SaveFlag
  BY <1>1, <1>2, <1>3, AgeHolds
<1>4. CASE SendMemo
  <2>1. PICK s \in Nicks, to \in Nicks, override \in BOOLEAN : Send(s, to, override)
    BY <1>4 DEF SendMemo
  <2> QED BY <1>1, <2>1, SendHolds
<1>5. CASE Read \/ Delete \/ Clean \/ Unsend
  BY <1>1, <1>2, <1>5, CommandsHold
<1>6. CASE Forward \/ Nomemo \/ Mblock
  <2>1. UNCHANGED <<reg, memo, box, sent, cnt, misfiled>>
    BY <1>6 DEF Forward, Nomemo, Mblock, memoVars
  <2>2. Memos' = Memos
    BY <2>1 DEF Memos
  <2>3. MemoTypes' /\ InOneBox' /\ PlainAtHome'
    BY <1>1, <2>1, <2>2 DEF BoxInv, MemoTypes, InOneBox, PlainAtHome
  <2>4. UnsendUnread' /\ CountsMatch' /\ Known' /\ Vacant'
    BY <1>1, <2>1, <2>2 DEF BoxInv, UnsendUnread, CountsMatch, Known, Vacant
  <2> QED BY <1>1, <2>1, <2>3, <2>4 DEF BoxInv
<1>7. CASE Drop
  BY <1>1, <1>7, DropHolds
<1>8. CASE Register
  BY <1>1, <1>8, RegisterHolds
<1>9. CASE Restart
  BY <1>1, <1>9, RestartHolds
<1> QED BY <1>3, <1>4, <1>5, <1>6, <1>7, <1>8, <1>9 DEF Next, Commands, Nickserv

\* When one is used the model goes no further, and has changed nothing else.
LEMMA WildIsLast ==
    ASSUME IInv, Next, wild'
    PROVE  UNCHANGED <<memo, box, sent, cnt, misfiled, reg>>
<1>1. ~wild
  BY DEF Next
<1>2. CASE Unsend
  <2>1. PICK n \in Nicks : \E gone \in {sent[n]} \cup {{a} : a \in sent[n]} :
           IF \E a \in gone : memo[a].to = Gone THEN wild' = TRUE /\ UNCHANGED memoVars
           ELSE FromBox(gone, [a \in gone |-> memo[a].to], {}) /\ UNCHANGED wild
    BY <1>2 DEF Unsend
  <2>2. UNCHANGED memoVars
    BY <1>1, <2>1
  <2> QED BY <1>2, <2>2 DEF Unsend, memoVars, nickVars
<1>3. CASE Drop
  BY <1>1, <1>3 DEF Drop, memoVars, nickVars
<1>4. CASE Restart
  BY <1>1, <1>4 DEF Restart, memoVars
<1>5. CASE SendMemo
  <2>1. PICK s \in Nicks, to \in Nicks, override \in BOOLEAN : Send(s, to, override)
    BY <1>5 DEF SendMemo
  <2> QED BY <1>1, <2>1 DEF Send, memoVars, nickVars
<1>6. Tick \/ Read \/ Delete \/ SaveFlag \/ Clean \/ Forward \/ Nomemo \/ Mblock \/ Register
        => UNCHANGED wild
  BY DEF Tick, Read, Delete, SaveFlag, Clean, Forward, Nomemo, Mblock, Register
<1> QED BY <1>1, <1>2, <1>3, <1>4, <1>5, <1>6 DEF Next, Commands, Nickserv

\* The nicks of the databases are loaded, without memos.
LEMMA InitHolds ==
    Init => IInv
<1> SUFFICES ASSUME Init PROVE IInv
  OBVIOUS
<1>1. Memos = {}
  BY DEF Init, Memos
<1>2. \A n \in Nicks : box[n] = <<>> /\ sent[n] = {} /\ cnt[n] = 0 /\ blocks[n] = {} /\ lost[n] = 0
                       /\ forward[n] = NoOne
  BY DEF Init
<1>3. IsInjective(<<>>) /\ ToSet(<<>>) = {} /\ Len(<<>>) = 0
  BY DEF IsInjective, ToSet
<1>4. MemoTypes
  BY DEF Init, MemoTypes
<1>5. InOneBox
  BY <1>1, <1>2, <1>3 DEF InOneBox
<1>6. PlainAtHome /\ UnsendUnread /\ Known
  BY <1>1, <1>2 DEF PlainAtHome, UnsendUnread, Known
<1>7. CountsMatch /\ Vacant /\ reg = Nicks
  BY <1>2, <1>3 DEF Init, CountsMatch, Vacant
<1>8. NickInv
  <2>1. NickTypes
    BY MemoAssumption DEF Init, NickTypes
  <2>2. \A n \in Nicks : Cardinality(blocks[n]) + lost[n] <= MaxBlocks
    <3>1. Cardinality({}) = 0
      BY FS_EmptySet
    <3>2. MaxBlocks \in Nat
      BY MemoAssumption
    <3> SUFFICES ASSUME NEW n \in Nicks PROVE Cardinality(blocks[n]) + lost[n] <= MaxBlocks
      OBVIOUS
    <3>3. blocks[n] = {} /\ lost[n] = 0
      BY <1>2
    <3>4. Cardinality(blocks[n]) + lost[n] = 0
      BY <3>1, <3>3
    <3> QED BY <3>2, <3>4
  <2> QED BY <1>2, <2>1, <2>2, MemoAssumption DEF NickInv
<1>9. wild \in BOOLEAN
  BY DEF Init
<1> QED BY <1>4, <1>5, <1>6, <1>7, <1>8, <1>9 DEF IInv, BoxInv

\* The invariant holds of every state.
THEOREM Invariance ==
    Spec => []IInv
<1>1. IInv /\ [Next]_vars => IInv'
  <2> SUFFICES ASSUME IInv, [Next]_vars PROVE IInv'
    OBVIOUS
  <2>1. CASE Next
    <3>1. NickInv'
      BY <2>1, NickHolds
    <3>2. BoxInv'
      <4>1. CASE wild'
        <5>1. UNCHANGED <<memo, box, sent, cnt, misfiled, reg>>
          BY <2>1, <4>1, WildIsLast
        <5>2. Memos' = Memos
          BY <5>1 DEF Memos
        <5>3. MemoTypes' /\ InOneBox' /\ PlainAtHome'
          BY <5>1, <5>2 DEF IInv, BoxInv, MemoTypes, InOneBox, PlainAtHome
        <5>4. UnsendUnread' /\ CountsMatch' /\ Known' /\ Vacant'
          BY <5>1, <5>2 DEF IInv, BoxInv, UnsendUnread, CountsMatch, Known, Vacant
        <5> QED BY <5>1, <5>3, <5>4 DEF IInv, BoxInv
      <4>2. CASE ~wild'
        BY <2>1, <4>2, StepHolds
      <4> QED BY <4>1, <4>2
    <3>3. wild' \in BOOLEAN
      <4>1. wild' = wild \/ wild' = TRUE
        <5>1. Unsend \/ Drop \/ Restart \/ SendMemo => wild' = wild \/ wild' = TRUE
          BY DEF Unsend, Drop, Restart, SendMemo, Send
        <5>2. Tick \/ Read \/ Delete \/ SaveFlag \/ Clean \/ Forward \/ Nomemo \/ Mblock \/ Register
                => wild' = wild
          BY DEF Tick, Read, Delete, SaveFlag, Clean, Forward, Nomemo, Mblock, Register
        <5> QED BY <2>1, <5>1, <5>2 DEF Next, Commands, Nickserv
      <4> QED BY <4>1 DEF IInv
    <3> QED BY <3>1, <3>2, <3>3 DEF IInv
  <2>2. CASE UNCHANGED vars
    <3>1. UNCHANGED <<reg, memo, box, sent, cnt, forward, nomemo, blocks, lost, misfiled, wild>>
      BY <2>2 DEF vars
    <3>2. Memos' = Memos
      BY <3>1 DEF Memos
    <3>3. MemoTypes' /\ InOneBox' /\ PlainAtHome'
      BY <3>1, <3>2 DEF IInv, BoxInv, MemoTypes, InOneBox, PlainAtHome
    <3>4. UnsendUnread' /\ CountsMatch' /\ Known' /\ Vacant'
      BY <3>1, <3>2 DEF IInv, BoxInv, UnsendUnread, CountsMatch, Known, Vacant
    <3>5. NickInv'
      BY <3>1 DEF IInv, NickInv, NickTypes
    <3> QED BY <3>1, <3>3, <3>4, <3>5 DEF IInv, BoxInv
  <2> QED BY <2>1, <2>2
<1> QED BY <1>1, InitHolds, PTL DEF Spec

\* Every variable keeps its type.
THEOREM TypeCorrect ==
    Spec => []TypeOK
<1>1. IInv => TypeOK
  BY DEF IInv, BoxInv, NickInv, MemoTypes, NickTypes, TypeOK
<1> QED BY <1>1, Invariance, PTL

\* Every memo is in exactly one box, once, and its owner is registered: no way to
\* delete, drop, expire or load a nick or a memo leaves one in two lists or in none.
THEOREM MemosInBoxes ==
    Spec => []InOneBox
<1>1. IInv => InOneBox
  BY DEF IInv, BoxInv
<1> QED BY <1>1, Invariance, PTL

\* A memo that was not forwarded is in the box of the nick it was sent to, which is
\* registered: unsending it touches no registration that was freed.
THEOREM PlainDelivered ==
    Spec => []PlainAtHome
<1>1. IInv => PlainAtHome
  BY DEF IInv, BoxInv
<1> QED BY <1>1, Invariance, PTL

\* The list of sent memos of a nick is of the memos it sent that nobody has read or
\* deleted, all of them: UNSEND takes back no memo that was read.
THEOREM SendersList ==
    Spec => []UnsendUnread
<1>1. IInv => UnsendUnread
  BY DEF IInv, BoxInv
<1> QED BY <1>1, Invariance, PTL

\* memocnt counts the memos of the box until delMemo() was given the box of another.
THEOREM CountsTrue ==
    Spec => []CountsMatch
<1>1. IInv => CountsMatch
  BY DEF IInv, BoxInv
<1> QED BY <1>1, Invariance, PTL

RestartStep ==
    Restart /\ ~wild' => \A n \in Nicks : \A i \in DOMAIN box[n] :
        LET a == box[n][i] IN
        /\ a \in Memos' => a \in ToSet(box'[n]) /\ ~Expired(a)
        /\ a \notin Memos' => Expired(a) \/ (i > 1 /\ Expired(box[n][i - 1]))

\* A restart brings back no memo that has run out, and loses of the others only one
\* that follows such a memo in its box, although saveMemoData() skips that one unseen.
THEOREM RestartSafe ==
    Spec => RestartKeeps
<1>1. IInv /\ [Next]_vars => [RestartStep]_vars
  <2> SUFFICES ASSUME IInv, Restart, ~wild', NEW n \in Nicks, NEW i \in DOMAIN box[n]
               PROVE  LET a == box[n][i] IN
                      /\ a \in Memos' => a \in ToSet(box'[n]) /\ ~Expired(a)
                      /\ a \notin Memos' => Expired(a) \/ (i > 1 /\ Expired(box[n][i - 1]))
    BY DEF RestartStep
  <2> DEFINE a == box[n][i]
  <2>1. BoxInv /\ BoxInv'
    BY RestartHolds DEF IInv
  <2>2. ~(\E m \in Nicks : forward[m] = Gone)
    <3>1. SUFFICES ASSUME \E m \in Nicks : forward[m] = Gone PROVE wild'
      OBVIOUS
    <3> QED BY <3>1 DEF Restart
  <2>3. \A m \in Nicks : box'[m] = Loaded(m)
    BY <2>2 DEF Restart
  <2>4. \A m \in Nicks : ToSet(Loaded(m)) \subseteq Memos' /\ ToSet(Loaded(m)) \subseteq ToSet(box[m])
    <3> SUFFICES ASSUME NEW m \in Nicks
                 PROVE  ToSet(Loaded(m)) \subseteq Memos' /\ ToSet(Loaded(m)) \subseteq ToSet(box[m])
      OBVIOUS
    <3>1. ToSet(box'[m]) \subseteq Memos'
      BY <2>1 DEF BoxInv, InOneBox
    <3>2. ToSet(Loaded(m)) \subseteq ToSet(box[m])
      BY <2>1, LoadedIs
    <3> QED BY <2>3, <3>1, <3>2
  <2>5. a \in ToSet(box[n])
    BY DEF ToSet
  <2>6. ASSUME a \in Memos' PROVE a \in ToSet(Loaded(n))
    <3>1. PICK m \in Nicks : a \in ToSet(Loaded(m))
      BY <2>1, <2>3, <2>6 DEF BoxInv, InOneBox
    <3>2. m = n
      BY <2>1, <2>4, <2>5, <3>1 DEF BoxInv, InOneBox
    <3> QED BY <3>1, <3>2
  <2>7. /\ a \in ToSet(Loaded(n)) => ~Expired(a)
        /\ a \notin ToSet(Loaded(n)) => Expired(a) \/ (i > 1 /\ Expired(box[n][i - 1]))
    BY <2>1, LoadedIs
  <2>8. box'[n] = Loaded(n)
    BY <2>3
  <2> QED BY <2>4, <2>6, <2>7, <2>8
<1>2. Spec => [][RestartStep]_vars
  BY <1>1, Invariance, PTL DEF Spec
<1> QED BY <1>2 DEF RestartKeeps, RestartStep

LimitStep ==
    SendMemo /\ misfiled = 0 => \A n \in Nicks :
        Len(box[n]) >= BoxMax => \A a \in ToSet(box'[n]) \ ToSet(box[n]) : memo'[a].from \in Opers

\* A box that is full takes a memo from an operator with OVERRIDE only, as long as
\* memocnt has counted right.
THEOREM LimitKept ==
    Spec => WithinLimit
<1>1. IInv /\ [Next]_vars => [LimitStep]_vars
  <2> SUFFICES ASSUME IInv, SendMemo, misfiled = 0, NEW n \in Nicks, Len(box[n]) >= BoxMax,
                      NEW b \in ToSet(box'[n]) \ ToSet(box[n])
               PROVE  memo'[b].from \in Opers
    BY DEF LimitStep
  <2>1. PICK s \in Nicks, to \in Nicks, override \in BOOLEAN :
           (override => s \in Opers) /\ Send(s, to, override)
    BY DEF SendMemo
  <2> DEFINE dest == IF forward[to] = NoOne THEN to ELSE forward[to]
  <2>2. dest # Gone
    <3>1. SUFFICES ASSUME dest = Gone PROVE FALSE
      OBVIOUS
    <3>2. UNCHANGED memoVars
      BY <2>1, <3>1 DEF Send
    <3> QED BY <3>2 DEF memoVars
  <2>3. PICK a \in Addr \ Memos :
         /\ Accepts(s, to, dest, override)
         /\ memo' = [memo EXCEPT ![a] =
               [from |-> s, to |-> to, age |-> 0, unread |-> TRUE,
                del |-> FALSE, save |-> FALSE, fwd |-> forward[to] # NoOne]]
         /\ box' = [box EXCEPT ![dest] = <<a>> \o @]
    BY <2>1, <2>2 DEF Send
  <2>4. BoxInv /\ MemoTypes /\ \A m \in Nicks : box[m] \in Seq(Addr)
    BY DEF IInv, BoxInv, MemoTypes
  <2>5. dest \in reg /\ dest \in Nicks
    <3>1. forward[to] \in Nicks \cup {NoOne, Gone} /\ (forward[to] \in Nicks => forward[to] \in reg)
      BY DEF IInv, NickInv, NickTypes
    <3>2. to \in reg
      BY <2>1 DEF Send
    <3> QED BY <2>2, <2>4, <3>1, <3>2 DEF BoxInv
  <2> HIDE DEF dest
  <2>6. n = dest
    BY <2>3, <2>4 DEF MemoTypes
  <2>7. cnt[dest] = Len(box[dest]) /\ BoxMax \in Nat
    BY <2>4, <2>5, MemoAssumption DEF BoxInv, CountsMatch
  <2>8. override
    BY <2>3, <2>4, <2>5, <2>6, <2>7 DEF Accepts
  <2>9. b = a
    <3>1. box'[dest] = <<a>> \o box[dest]
      BY <2>3, <2>4, <2>5 DEF MemoTypes
    <3> DEFINE seq == box[dest]
               r == <<a>> \o seq
    <3>2. /\ r[1] = a /\ DOMAIN r = 1 .. Len(seq) + 1 /\ DOMAIN seq = 1 .. Len(seq) /\ Len(seq) \in Nat
          /\ \A i \in 1 .. Len(seq) : r[i + 1] = seq[i]
      BY <2>3, <2>4, <2>5
    <3> HIDE DEF seq, r
    <3>3. PICK i \in 1 .. Len(seq) + 1 : b = r[i]
      BY <2>6, <3>1, <3>2 DEF ToSet, seq, r
    <3>4. CASE i = 1
      BY <3>2, <3>3, <3>4
    <3>5. CASE i # 1
      <4>1. i - 1 \in 1 .. Len(seq) /\ (i - 1) + 1 = i
        BY <3>2, <3>5
      <4>2. b = seq[i - 1] /\ i - 1 \in DOMAIN seq
        BY <3>2, <3>3, <4>1
      <4>3. b \in ToSet(seq)
        BY <4>2 DEF ToSet
      <4> QED BY <2>6, <4>3 DEF seq
    <3> QED BY <3>4, <3>5
  <2>10. memo'[a].from = s
    BY <2>3, <2>4 DEF MemoTypes
  <2> QED BY <2>1, <2>8, <2>9, <2>10
<1>2. Spec => [][LimitStep]_vars
  BY <1>1, Invariance, PTL DEF Spec
<1> QED BY <1>2 DEF WithinLimit, LimitStep
-----------------------------------------------------------------------------
(***************************************************************************)
(* Channel. The worlds its handlers work on are in order (InOrder):        *)
(* members are known, bans are listed once, the flag that keeps a member   *)
(* quiet follows the bans, and the two lists of invitations agree. Every   *)
(* operator named for a function of the code keeps a world in order, and   *)
(* so does every event of a user and every line that is received.          *)
(***************************************************************************)

ChannelWorlds == [chan : [Servers -> [Chans -> Channel]], invited : [Users -> Seq(Chans)],
                  known : [Servers -> SUBSET Users], ts8 : [Servers -> SUBSET Users],
                  q : [Pairs -> Seq(Lines)], mixed : SUBSET (Users \X Chans)]

\* The bans that match.
Hitting(k, u) == {b \in Range(k.bans) : u \in Hits[b]}

\* Who is kept quiet is so by a ban; and who is matched by such bans only is,
\* unless X.
Hushed(s, k, X) == \A u \in DOMAIN k.member :
    /\ "bquiet" \in k.member[u] => Hitting(k, u) \cap Quiets # {}
    /\ MyClient(s, u) /\ Hitting(k, u) \cap Quiets # {} /\ u \notin X =>
         "bquiet" \in k.member[u] /\ Hitting(k, u) \subseteq Quiets

\* What is said of a channel at s that knows the users K.
Roomy(s, k, K, X) == /\ DOMAIN k.member \subseteq K /\ k.on \cap k.off = {} /\ IsInjective(k.bans)
                     /\ Hushed(s, k, X)

Mixed(w, c) == {u \in Users : <<u, c>> \in w.mixed}

\* The two lists of invitations agree, and no guest is gone.
Invitations(w) ==
    /\ \A s \in Servers : \A c \in Chans : \A u \in Users :
          /\ u \in w.chan[s][c].invites <=> Home[u] = s /\ c \in Range(w.invited[u])
          /\ u \in w.chan[s][c].invites => u \in w.known[s]
    /\ \A u \in Users : IsInjective(w.invited[u])

InOrder(w) ==
    /\ w \in ChannelWorlds /\ Invitations(w)
    /\ \A s \in Servers : /\ w.ts8[s] \subseteq w.known[s]
                          /\ \A c \in Chans : Roomy(s, w.chan[s][c], w.known[s], Mixed(w, c))

\* The world with the channel k, with other lines on the way.
PutAt(w, s, c, k) == [w EXCEPT !.chan = [w.chan EXCEPT ![s] = [w.chan[s] EXCEPT ![c] = k]]]
Sending(w, lines) == [w EXCEPT !.q = lines]

\* One channel of one server changes.
LEMMA PutAtIs ==
    ASSUME NEW w \in ChannelWorlds, NEW s \in Servers, NEW c \in Chans, NEW k \in Channel, NEW v, v = PutAt(w, s, c, k)
    PROVE  /\ v \in ChannelWorlds /\ v.chan[s][c] = k
           /\ \A t \in Servers, d \in Chans : t # s \/ d # c => v.chan[t][d] = w.chan[t][d]
           /\ v.invited = w.invited /\ v.known = w.known /\ v.ts8 = w.ts8 /\ v.q = w.q /\ v.mixed = w.mixed
<1> DEFINE row == [w.chan[s] EXCEPT ![c] = k]
           chans == [w.chan EXCEPT ![s] = row]
<1>1. w.chan \in [Servers -> [Chans -> Channel]]
  BY DEF ChannelWorlds
<1>2. w.chan[s] \in [Chans -> Channel]
  BY <1>1
<1>3. row \in [Chans -> Channel] /\ row[c] = k /\ \A d \in Chans : d # c => row[d] = w.chan[s][d]
  BY <1>2
<1> HIDE DEF row
<1>4. chans \in [Servers -> [Chans -> Channel]] /\ chans[s] = row /\ \A t \in Servers : t # s => chans[t] = w.chan[t]
  BY <1>1, <1>3
<1>5. v = [w EXCEPT !.chan = chans]
  BY DEF PutAt, row, chans
<1> HIDE DEF chans
<1>6. v \in ChannelWorlds /\ v.chan = chans /\ v.invited = w.invited /\ v.known = w.known /\ v.ts8 = w.ts8
      /\ v.q = w.q /\ v.mixed = w.mixed
  BY <1>4, <1>5 DEF ChannelWorlds
<1> QED BY <1>3, <1>4, <1>6

\* A channel that changes and stays in order, with the same invitations.
LEMMA EditHolds ==
    ASSUME NEW w, InOrder(w), NEW s \in Servers, NEW c \in Chans, NEW k \in Channel,
           Roomy(s, k, w.known[s], Mixed(w, c)), k.invites = w.chan[s][c].invites
    PROVE  InOrder(PutAt(w, s, c, k))
<1> DEFINE v == PutAt(w, s, c, k)
<1>1. w \in ChannelWorlds
  BY DEF InOrder
<1>2. /\ v \in ChannelWorlds /\ v.chan[s][c] = k
      /\ \A t \in Servers, d \in Chans : t # s \/ d # c => v.chan[t][d] = w.chan[t][d]
      /\ v.invited = w.invited /\ v.known = w.known /\ v.ts8 = w.ts8 /\ v.q = w.q /\ v.mixed = w.mixed
  BY <1>1, PutAtIs
<1> HIDE DEF v
<1>3. \A d : Mixed(v, d) = Mixed(w, d)
  BY <1>2 DEF Mixed
<1>4. \A t \in Servers, d \in Chans : v.chan[t][d].invites = w.chan[t][d].invites
  BY <1>2
<1>5. Invitations(v)
  BY <1>2, <1>4 DEF InOrder, Invitations
<1>6. ASSUME NEW t \in Servers, NEW d \in Chans PROVE Roomy(t, v.chan[t][d], v.known[t], Mixed(v, d))
  BY <1>2, <1>3, <1>6 DEF InOrder
<1> QED BY <1>2, <1>5, <1>6 DEF InOrder, v

\* Lines that are sent change nothing else.
LEMMA SendingHolds ==
    ASSUME NEW w \in ChannelWorlds, NEW lines \in [Pairs -> Seq(Lines)], NEW v, v = Sending(w, lines)
    PROVE  /\ v \in ChannelWorlds /\ v.q = lines
           /\ v.chan = w.chan /\ v.invited = w.invited /\ v.known = w.known /\ v.ts8 = w.ts8 /\ v.mixed = w.mixed
           /\ InOrder(w) => InOrder(v)
<1>1. /\ v \in ChannelWorlds /\ v.q = lines
      /\ v.chan = w.chan /\ v.invited = w.invited /\ v.known = w.known /\ v.ts8 = w.ts8 /\ v.mixed = w.mixed
  BY DEF Sending, ChannelWorlds
<1>2. \A d : Mixed(v, d) = Mixed(w, d)
  BY <1>1 DEF Mixed
<1>3. InOrder(w) => InOrder(v)
  BY <1>1, <1>2 DEF InOrder, Invitations
<1> QED BY <1>1, <1>3

\* What sendto_one() and sendto_match_servs() leave.
Sent(w, v) == /\ v \in ChannelWorlds /\ (InOrder(w) => InOrder(v))
              /\ v.chan = w.chan /\ v.invited = w.invited /\ v.known = w.known /\ v.ts8 = w.ts8 /\ v.mixed = w.mixed

LEMMA SentOne ==
    ASSUME NEW w \in ChannelWorlds, NEW s, NEW n, NEW ms \in Seq(Lines)
    PROVE  Sent(w, sendto_one(w, s, n, ms))
<1> DEFINE p == <<s, n>>
           lines == [w.q EXCEPT ![p] = w.q[p] \o ms]
<1>1. w.q \in [Pairs -> Seq(Lines)]
  BY DEF ChannelWorlds
<1>2. lines \in [Pairs -> Seq(Lines)]
  <2> HIDE DEF p
  <2>1. \A x \in Pairs : lines[x] = IF x = p THEN w.q[p] \o ms ELSE w.q[x]
    BY <1>1
  <2>2. DOMAIN lines = Pairs /\ lines = [x \in Pairs |-> lines[x]]
    BY <1>1
  <2> HIDE DEF lines
  <2>3. ASSUME NEW x \in Pairs PROVE lines[x] \in Seq(Lines)
    <3>1. w.q[x] \in Seq(Lines)
      BY <1>1
    <3>2. w.q[x] \o ms \in Seq(Lines)
      BY <3>1
    <3> QED BY <2>1, <3>1, <3>2
  <2> QED BY <2>2, <2>3
<1>3. sendto_one(w, s, n, ms) = Sending(w, lines)
  BY DEF sendto_one, Sending
<1> HIDE DEF lines
<1> QED BY <1>2, <1>3, SendingHolds DEF Sent

LEMMA SentServs ==
    ASSUME NEW w \in ChannelWorlds, NEW s, NEW but, NEW m \in Lines
    PROVE  Sent(w, sendto_match_servs(w, s, but, m))
<1> DEFINE lines == [p \in Pairs |-> IF p[1] = s /\ p[2] # but /\ {s, p[2]} \in up THEN Append(w.q[p], m) ELSE w.q[p]]
<1>1. w.q \in [Pairs -> Seq(Lines)]
  BY DEF ChannelWorlds
<1>2. lines \in [Pairs -> Seq(Lines)]
  <2>1. ASSUME NEW p \in Pairs PROVE Append(w.q[p], m) \in Seq(Lines) /\ w.q[p] \in Seq(Lines)
    <3>1. w.q[p] \in Seq(Lines)
      BY <1>1
    <3> QED BY <3>1
  <2> QED BY <2>1
<1>3. sendto_match_servs(w, s, but, m) = Sending(w, lines)
  BY DEF sendto_match_servs, Sending
<1> HIDE DEF lines
<1> QED BY <1>2, <1>3, SendingHolds DEF Sent

LEMMA ShortIs ==
    ASSUME NEW S, NEW list \in Seq(S), IsInjective(list), NEW a
    PROVE  /\ Without(list, a) \in Seq(S) /\ IsInjective(Without(list, a))
           /\ Range(Without(list, a)) = Range(list) \ {a}
<1> DEFINE I == {i \in 1 .. Len(list) : list[i] = a}
           k == IF I # {} THEN Min(I) ELSE 0
<1>1. Without(list, a) = IF k = 0 THEN list ELSE RemoveAt(list, k)
  BY DEF Without, SelectInSeq
<1>2. I \in SUBSET (1 .. Len(list)) /\ \A i \in I : list[i] = a
  OBVIOUS
<1>3. DOMAIN list = 1 .. Len(list) /\ ToSet(list) = Range(list) /\ \A r : Range(r) = ToSet(r)
  BY DEF ToSet, Range
<1>4. I = {} <=> a \notin Range(list)
  BY <1>3 DEF Range
<1> HIDE DEF I
<1>5. k \in 0 .. Len(list) /\ (k # 0 <=> I # {}) /\ (k # 0 => k \in I)
  <2> HIDE DEF k
  <2> QED BY <1>2, PlaceIs DEF k
<1> HIDE DEF k
<1>6. CASE k = 0
  BY <1>1, <1>4, <1>5, <1>6
<1>7. CASE k # 0
  <2>1. Without(list, a) = RemoveAt(list, k) /\ k \in 1 .. Len(list) /\ list[k] = a /\ k \in DOMAIN list
    BY <1>1, <1>2, <1>3, <1>5, <1>7
  <2>2. /\ RemoveAt(list, k) \in Seq(S) /\ IsInjective(RemoveAt(list, k))
        /\ ToSet(RemoveAt(list, k)) = ToSet(list) \ {list[k]}
    BY <2>1, Removed
  <2> QED BY <1>3, <2>1, <2>2
<1> QED BY <1>6, <1>7

\* Who is quiet is so by a ban, and with bans of that kind only it is so.
LEMMA QuietIs ==
    ASSUME NEW bans \in Seq(Bans), NEW u
    PROVE  /\ "quiet" \in is_banned(bans, u) => \E b \in Range(bans) \cap Quiets : u \in Hits[b]
           /\ (\E b \in Range(bans) : u \in Hits[b]) /\ (\A b \in Range(bans) : u \in Hits[b] => b \in Quiets)
                => "quiet" \in is_banned(bans, u)
<1> DEFINE I == {i \in 1 .. Len(bans) : u \in Hits[bans[i]]}
           k == IF I # {} THEN Min(I) ELSE 0
<1>1. "quiet" \in is_banned(bans, u) <=> k # 0 /\ bans[k] \in Quiets
  BY DEF is_banned, SelectInSeq
<1>2. I \in SUBSET (1 .. Len(bans)) /\ \A i \in I : u \in Hits[bans[i]]
  OBVIOUS
<1>3. DOMAIN bans = 1 .. Len(bans) /\ Range(bans) = {bans[i] : i \in 1 .. Len(bans)}
  BY DEF Range
<1>4. I # {} <=> \E b \in Range(bans) : u \in Hits[b]
  BY <1>3
<1> HIDE DEF I
<1>5. k \in 0 .. Len(bans) /\ (k # 0 <=> I # {}) /\ (k # 0 => k \in I)
  <2> HIDE DEF k
  <2> QED BY <1>2, PlaceIs DEF k
<1> HIDE DEF k
<1> QED BY <1>1, <1>2, <1>3, <1>4, <1>5

\* What check_bquiet() makes of the channel k, whose bans match both ways the users Both.
Hushing(s, k, us) == [k EXCEPT !.member = [u \in DOMAIN k.member |->
    IF u \in us /\ MyClient(s, u) /\ "quiet" \in is_banned(k.bans, u) THEN k.member[u] \cup {"bquiet"}
    ELSE k.member[u]]]
Both(k) == {u \in Users : \E b \in Range(k.bans) \cap Quiets, d \in Range(k.bans) \ Quiets : u \in Hits[b] \cap Hits[d]}

LEMMA MemberMap ==
    ASSUME NEW D \in SUBSET Users, NEW m, \A u \in D : m[u] \in SUBSET Status
    PROVE  [u \in D |-> m[u]] \in Members
<1>1. [u \in D |-> m[u]] \in [D -> SUBSET Status]
  OBVIOUS
<1> QED BY <1>1 DEF Members

LEMMA MemberIs ==
    ASSUME NEW m \in Members
    PROVE  DOMAIN m \in SUBSET Users /\ (\A u \in DOMAIN m : m[u] \in SUBSET Status)
           /\ m = [u \in DOMAIN m |-> m[u]]
  BY DEF Members

\* h is k with the flag for those of us whom a ban keeps quiet.
Quieted(s, k, us, h) ==
    /\ h \in Channel /\ DOMAIN h.member = DOMAIN k.member /\ h.bans = k.bans /\ h.invites = k.invites
    /\ h.on = k.on /\ h.off = k.off /\ h.ts = k.ts
    /\ \A u \in DOMAIN k.member : h.member[u] =
         IF u \in us /\ MyClient(s, u) /\ "quiet" \in is_banned(k.bans, u) THEN k.member[u] \cup {"bquiet"}
         ELSE k.member[u]

LEMMA HushingIs ==
    ASSUME NEW s, NEW k \in Channel, NEW us
    PROVE  Quieted(s, k, us, Hushing(s, k, us))
<1> DEFINE D == DOMAIN k.member
           f(u) == IF u \in us /\ MyClient(s, u) /\ "quiet" \in is_banned(k.bans, u)
                   THEN k.member[u] \cup {"bquiet"} ELSE k.member[u]
           m == [u \in D |-> f(u)]
           h == Hushing(s, k, us)
<1>1. k.member \in Members
  BY DEF Channel
<1>2. D \in SUBSET Users /\ \A u \in D : f(u) \in SUBSET Status
  BY <1>1, MemberIs DEF Status
<1>3. \A u \in D : m[u] = f(u)
  OBVIOUS
<1> HIDE DEF f
<1>4. m \in [D -> SUBSET Status]
  BY <1>2
<1>5. m \in Members /\ DOMAIN m = D
  BY <1>2, <1>4 DEF Members
<1>6. h = [k EXCEPT !.member = m]
  BY DEF Hushing, f
<1> HIDE DEF m, D, h
<1>7. /\ h \in Channel /\ h.member = m /\ h.bans = k.bans /\ h.invites = k.invites
      /\ h.on = k.on /\ h.off = k.off /\ h.ts = k.ts
  BY <1>5, <1>6 DEF Channel
<1>8. Quieted(s, k, us, h)
  BY <1>3, <1>5, <1>7 DEF D, f, Quieted
<1> QED BY <1>8 DEF h

\* The world with other members noted.
Noting(w, m) == [w EXCEPT !.mixed = m]

LEMMA NotingIs ==
    ASSUME NEW w \in ChannelWorlds, NEW m \in SUBSET (Users \X Chans), NEW v, v = Noting(w, m)
    PROVE  /\ v \in ChannelWorlds /\ v.mixed = m
           /\ v.chan = w.chan /\ v.invited = w.invited /\ v.known = w.known /\ v.ts8 = w.ts8 /\ v.q = w.q
  BY DEF Noting, ChannelWorlds

\* Of us, the own members of s.
Own(s, us) == {u \in us : MyClient(s, u)}
Marks(w, s, c, k, us) == (w.mixed \ (Own(s, us) \X {c})) \cup ((Own(s, us) \cap Both(k)) \X {c})

LEMMA CheckIs ==
    ASSUME NEW w \in ChannelWorlds, NEW s \in Servers, NEW c \in Chans, NEW us
    PROVE  /\ check_bquiet(w, s, c, us) =
                Noting(PutAt(w, s, c, Hushing(s, w.chan[s][c], us)),
                         Marks(w, s, c, w.chan[s][c], us))
           /\ Marks(w, s, c, w.chan[s][c], us) \in SUBSET (Users \X Chans)
<1> DEFINE k == w.chan[s][c]
           m == Marks(w, s, c, k, us)
<1>1. w.mixed \in SUBSET (Users \X Chans) /\ k \in Channel
  BY DEF ChannelWorlds
<1>2. m \in SUBSET (Users \X Chans)
  BY <1>1 DEF Both, Marks
<1>3. check_bquiet(w, s, c, us) = Noting(PutAt(w, s, c, Hushing(s, k, us)), m)
  <2> DEFINE own == {u \in us : MyClient(s, u)}
             both == {u \in own : \E b \in Range(k.bans) \cap Quiets, d \in Range(k.bans) \ Quiets : u \in Hits[b] \cap Hits[d]}
             hush == [u \in DOMAIN k.member |->
                        IF u \in own /\ "quiet" \in is_banned(k.bans, u) THEN k.member[u] \cup {"bquiet"} ELSE k.member[u]]
             marks == (w.mixed \ (own \X {c})) \cup (both \X {c})
  <2>1. check_bquiet(w, s, c, us) = [w EXCEPT !.mixed = marks, !.chan[s][c].member = hush]
    BY DEF check_bquiet
  <2>2. marks = m
    <3>1. own = Own(s, us) /\ both = Own(s, us) \cap Both(k)
      BY DEF Own, Both, MyClient
    <3> HIDE DEF own, both, k
    <3> QED BY <3>1 DEF Marks
  <2>3. Hushing(s, k, us) = [k EXCEPT !.member = hush]
    <3>1. hush = [u \in DOMAIN k.member |->
            IF u \in us /\ MyClient(s, u) /\ "quiet" \in is_banned(k.bans, u) THEN k.member[u] \cup {"bquiet"}
            ELSE k.member[u]]
      <4> HIDE DEF k
      <4> QED OBVIOUS
    <3> HIDE DEF hush
    <3> QED BY <3>1 DEF Hushing
  <2> HIDE DEF hush, marks, m
  <2> QED BY <2>1, <2>2, <2>3 DEF Noting, PutAt
<1> QED BY <1>2, <1>3

\* What check_bquiet() leaves of a world whose channel k changed, and may be short
\* of the flag of us.
Checks(w, s, c, k, us, v) ==
    /\ InOrder(v) /\ v.chan[s][c] = Hushing(s, k, us)
    /\ \A t \in Servers, d \in Chans : t # s \/ d # c => v.chan[t][d] = w.chan[t][d]
    /\ v.invited = w.invited /\ v.known = w.known /\ v.ts8 = w.ts8 /\ v.q = w.q

LEMMA CheckHolds ==
    ASSUME NEW w, InOrder(w), NEW s \in Servers, NEW c \in Chans, NEW k \in Channel, NEW us,
           Roomy(s, k, w.known[s], Mixed(w, c) \cup us), k.invites = w.chan[s][c].invites
    PROVE  Checks(w, s, c, k, us, check_bquiet(PutAt(w, s, c, k), s, c, us))
<1> DEFINE u1 == PutAt(w, s, c, k)
           h == Hushing(s, k, us)
           u2 == PutAt(u1, s, c, h)
           m == Marks(w, s, c, k, us)
           v == check_bquiet(u1, s, c, us)
<1>1. w \in ChannelWorlds
  BY DEF InOrder
<1>2. /\ u1 \in ChannelWorlds /\ u1.chan[s][c] = k
      /\ \A t \in Servers, d \in Chans : t # s \/ d # c => u1.chan[t][d] = w.chan[t][d]
      /\ u1.invited = w.invited /\ u1.known = w.known /\ u1.ts8 = w.ts8 /\ u1.q = w.q /\ u1.mixed = w.mixed
  BY <1>1, PutAtIs
<1>3. v = check_bquiet(u1, s, c, us)
  OBVIOUS
<1> HIDE DEF u1, v
<1>4. v = Noting(u2, m) /\ m \in SUBSET (Users \X Chans)
  <2>1. v = Noting(PutAt(u1, s, c, Hushing(s, u1.chan[s][c], us)),
                   Marks(u1, s, c, u1.chan[s][c], us))
        /\ Marks(u1, s, c, u1.chan[s][c], us) \in SUBSET (Users \X Chans)
    BY <1>2, <1>3, CheckIs
  <2> QED BY <1>2, <2>1 DEF Marks
<1>10. h = Hushing(s, k, us)
  OBVIOUS
<1> HIDE DEF h
<1>5. /\ h \in Channel /\ DOMAIN h.member = DOMAIN k.member /\ h.bans = k.bans /\ h.invites = k.invites
      /\ h.on = k.on /\ h.off = k.off
      /\ \A u \in DOMAIN k.member : h.member[u] =
           IF u \in us /\ MyClient(s, u) /\ "quiet" \in is_banned(k.bans, u) THEN k.member[u] \cup {"bquiet"}
           ELSE k.member[u]
  <2>1. Quieted(s, k, us, h)
    BY <1>10, HushingIs
  <2> QED BY <2>1 DEF Quieted
<1>6. /\ u2 \in ChannelWorlds /\ u2.chan[s][c] = h
      /\ \A t \in Servers, d \in Chans : t # s \/ d # c => u2.chan[t][d] = w.chan[t][d]
      /\ u2.invited = w.invited /\ u2.known = w.known /\ u2.ts8 = w.ts8 /\ u2.q = w.q /\ u2.mixed = w.mixed
  BY <1>2, <1>5, PutAtIs
<1> HIDE DEF u2
<1>7. /\ v \in ChannelWorlds /\ v.chan[s][c] = h /\ v.mixed = m
      /\ \A t \in Servers, d \in Chans : t # s \/ d # c => v.chan[t][d] = w.chan[t][d]
      /\ v.invited = w.invited /\ v.known = w.known /\ v.ts8 = w.ts8 /\ v.q = w.q
  BY <1>4, <1>6, NotingIs
<1>8. /\ Mixed(v, c) = (Mixed(w, c) \ Own(s, us)) \cup (Own(s, us) \cap Both(k))
      /\ \A d \in Chans : d # c => Mixed(v, d) = Mixed(w, d)
  <2>1. \A u, d : <<u, d>> \in m <=> \/ <<u, d>> \in w.mixed /\ ~(u \in Own(s, us) /\ d = c)
                                     \/ u \in Own(s, us) \cap Both(k) /\ d = c
    BY DEF Marks
  <2> HIDE DEF m
  <2> QED BY <1>7, <2>1 DEF Mixed, Both
<1> HIDE DEF m
<1>9. Roomy(s, h, w.known[s], Mixed(v, c))
  <2>1. Hitting(h, 0) = Hitting(h, 0) /\ \A u : Hitting(h, u) = Hitting(k, u)
    BY <1>5 DEF Hitting
  <2>2. k.bans \in Seq(Bans) /\ Range(k.bans) \subseteq Bans
    <3>1. k.bans \in Seq(Bans)
      BY DEF Channel
    <3> QED BY <3>1 DEF Range
  <2>3. \A u : /\ "quiet" \in is_banned(k.bans, u) => Hitting(k, u) \cap Quiets # {}
               /\ Hitting(k, u) # {} /\ Hitting(k, u) \subseteq Quiets => "quiet" \in is_banned(k.bans, u)
    BY <2>2, QuietIs DEF Hitting
  <2>4. ASSUME NEW u \in DOMAIN h.member, "bquiet" \in h.member[u]
        PROVE  Hitting(h, u) \cap Quiets # {}
    <3>1. u \in DOMAIN k.member
      BY <1>5, <2>4
    <3>2. "bquiet" \in k.member[u] \/ "quiet" \in is_banned(k.bans, u)
      BY <1>5, <2>4, <3>1
    <3> QED BY <2>1, <2>3, <3>1, <3>2 DEF Roomy, Hushed
  <2>5. ASSUME NEW u \in DOMAIN h.member, MyClient(s, u), Hitting(h, u) \cap Quiets # {}, u \notin Mixed(v, c)
        PROVE  "bquiet" \in h.member[u] /\ Hitting(h, u) \subseteq Quiets
    <3>1. u \in DOMAIN k.member /\ u \in Users
      BY <1>5, <2>5 DEF MyClient
    <3>2. CASE u \in us
      <4>1. u \notin Both(k)
        BY <1>8, <2>5, <3>2 DEF Own
      <4>2. Hitting(k, u) \subseteq Quiets
        BY <2>1, <2>5, <3>1, <4>1 DEF Both, Hitting
      <4>3. "quiet" \in is_banned(k.bans, u)
        BY <2>1, <2>3, <2>5, <4>2
      <4> QED BY <1>5, <2>1, <2>5, <3>1, <3>2, <4>2, <4>3
    <3>3. CASE u \notin us
      <4>1. u \notin Mixed(w, c) \cup us
        BY <1>8, <2>5, <3>3 DEF Own
      <4>2. "bquiet" \in k.member[u] /\ Hitting(k, u) \subseteq Quiets
        BY <2>1, <2>5, <3>1, <4>1 DEF Roomy, Hushed
      <4> QED BY <1>5, <2>1, <3>1, <3>3, <4>2
    <3> QED BY <3>2, <3>3
  <2>6. Hushed(s, h, Mixed(v, c))
    BY <2>4, <2>5 DEF Hushed
  <2> QED BY <1>5, <2>6 DEF Roomy
<1>11. Invitations(v)
  <2>1. \A t \in Servers, d \in Chans : v.chan[t][d].invites = w.chan[t][d].invites
    BY <1>5, <1>7
  <2> QED BY <1>7, <2>1 DEF InOrder, Invitations
<1>12. ASSUME NEW t \in Servers, NEW d \in Chans PROVE Roomy(t, v.chan[t][d], v.known[t], Mixed(v, d))
  <2>1. CASE t = s /\ d = c
    BY <1>7, <1>9, <2>1
  <2>2. CASE t # s \/ d # c
    <3>1. Roomy(t, w.chan[t][d], w.known[t], Mixed(w, d))
      BY DEF InOrder
    <3>2. \A u : MyClient(t, u) /\ u \in Mixed(w, d) => u \in Mixed(v, d)
      BY <1>8, <2>2 DEF Own, MyClient
    <3>4. Hushed(t, w.chan[t][d], Mixed(v, d))
      BY <3>1, <3>2 DEF Roomy, Hushed
    <3> QED BY <1>7, <2>2, <3>1, <3>4 DEF Roomy
  <2> QED BY <2>1, <2>2
<1>13. InOrder(v)
  BY <1>7, <1>11, <1>12 DEF InOrder
<1>14. Checks(w, s, c, k, us, v)
  BY <1>7, <1>10, <1>13 DEF Checks
<1> QED BY <1>14 DEF v, u1

\* The world with the channel k and the lists of invitations inv.
PutBoth(w, s, c, k, inv) == [PutAt(w, s, c, k) EXCEPT !.invited = inv]

\* Only the channel c of s may have changed, and invitations.
Beside(w, v, s, c) ==
    /\ \A t \in Servers, d \in Chans : t # s \/ d # c => v.chan[t][d] = w.chan[t][d]
    /\ v.known = w.known /\ v.ts8 = w.ts8 /\ v.q = w.q /\ v.mixed = w.mixed

\* The guests of k and the lists inv match.
Matching(w, s, c, k, inv) == \A u \in Users :
    /\ u \in k.invites <=> Home[u] = s /\ c \in Range(inv[u])
    /\ u \in k.invites => u \in w.known[s]
    /\ IsInjective(inv[u])
    /\ \A d \in Chans : d # c \/ Home[u] # s => (d \in Range(inv[u]) <=> d \in Range(w.invited[u]))

Puts(w, s, c, k, inv, v) == InOrder(v) /\ v.chan[s][c] = k /\ v.invited = inv /\ Beside(w, v, s, c)

LEMMA PutBothHolds ==
    ASSUME NEW w, InOrder(w), NEW s \in Servers, NEW c \in Chans, NEW k \in Channel,
           NEW inv \in [Users -> Seq(Chans)], Roomy(s, k, w.known[s], Mixed(w, c)),
           Matching(w, s, c, k, inv)
    PROVE  Puts(w, s, c, k, inv, PutBoth(w, s, c, k, inv))
<1> DEFINE u1 == PutAt(w, s, c, k)
           v == PutBoth(w, s, c, k, inv)
<1>1. w \in ChannelWorlds
  BY DEF InOrder
<1>2. /\ u1 \in ChannelWorlds /\ u1.chan[s][c] = k
      /\ \A t \in Servers, d \in Chans : t # s \/ d # c => u1.chan[t][d] = w.chan[t][d]
      /\ u1.invited = w.invited /\ u1.known = w.known /\ u1.ts8 = w.ts8 /\ u1.q = w.q /\ u1.mixed = w.mixed
  BY <1>1, PutAtIs
<1>3. v = [u1 EXCEPT !.invited = inv]
  BY DEF PutBoth
<1> HIDE DEF u1, v
<1>4. /\ v \in ChannelWorlds /\ v.chan = u1.chan /\ v.invited = inv /\ v.known = w.known /\ v.ts8 = w.ts8
      /\ v.q = w.q /\ v.mixed = w.mixed
  BY <1>2, <1>3 DEF ChannelWorlds
<1>5. Beside(w, v, s, c) /\ v.chan[s][c] = k
  BY <1>2, <1>4 DEF Beside
<1>6. \A d : Mixed(v, d) = Mixed(w, d)
  BY <1>4 DEF Mixed
<1>7. ASSUME NEW t \in Servers, NEW d \in Chans PROVE Roomy(t, v.chan[t][d], v.known[t], Mixed(v, d))
  <2>1. CASE t = s /\ d = c
    BY <1>4, <1>5, <1>6, <2>1
  <2>2. CASE t # s \/ d # c
    <3>1. v.chan[t][d] = w.chan[t][d]
      BY <1>5, <2>2 DEF Beside
    <3> QED BY <1>4, <1>6, <3>1 DEF InOrder
  <2> QED BY <2>1, <2>2
<1>8. Invitations(v)
  <2>1. ASSUME NEW t \in Servers, NEW d \in Chans, NEW u \in Users
        PROVE  /\ u \in v.chan[t][d].invites <=> Home[u] = t /\ d \in Range(v.invited[u])
               /\ u \in v.chan[t][d].invites => u \in v.known[t]
    <3>1. CASE t = s /\ d = c
      BY <1>4, <1>5, <3>1 DEF Matching
    <3>2. CASE t # s \/ d # c
      <4>1. v.chan[t][d] = w.chan[t][d]
        BY <1>5, <3>2 DEF Beside
      <4>2. /\ u \in w.chan[t][d].invites <=> Home[u] = t /\ d \in Range(w.invited[u])
            /\ u \in w.chan[t][d].invites => u \in w.known[t]
        BY DEF InOrder, Invitations
      <4>3. Home[u] = t => (d \in Range(inv[u]) <=> d \in Range(w.invited[u]))
        BY <3>2 DEF Matching
      <4> QED BY <1>4, <4>1, <4>2, <4>3
    <3> QED BY <3>1, <3>2
  <2> QED BY <1>4, <2>1 DEF Invitations, Matching
<1>9. InOrder(v)
  BY <1>4, <1>7, <1>8 DEF InOrder
<1> QED BY <1>4, <1>5, <1>9 DEF Puts, v

\* What is in a world.
LEMMA WorldHas ==
    ASSUME NEW w, InOrder(w), NEW s \in Servers, NEW c \in Chans
    PROVE  /\ w.chan[s][c] \in Channel /\ w \in ChannelWorlds /\ w.known[s] \subseteq Users
           /\ Roomy(s, w.chan[s][c], w.known[s], Mixed(w, c))
           /\ \A u \in Users : /\ w.invited[u] \in Seq(Chans) /\ IsInjective(w.invited[u])
                               /\ u \in w.chan[s][c].invites <=> Home[u] = s /\ c \in Range(w.invited[u])
                               /\ u \in w.chan[s][c].invites => u \in w.known[s]
  BY DEF InOrder, ChannelWorlds, Invitations

\* Another list of guests is no matter of the members.
WithGuests(k, G) == [k EXCEPT !.invites = G]
Alike(s, k, g) == /\ g \in Channel /\ g.member = k.member /\ g.bans = k.bans
                  /\ \A K, X : Roomy(s, k, K, X) => Roomy(s, g, K, X)

LEMMA GuestsOnly ==
    ASSUME NEW s, NEW k \in Channel, NEW G \in SUBSET Users
    PROVE  Alike(s, k, WithGuests(k, G)) /\ WithGuests(k, G).invites = G
<1> DEFINE g == WithGuests(k, G)
<1>1. g \in Channel /\ g.invites = G /\ g.member = k.member /\ g.bans = k.bans /\ g.on = k.on /\ g.off = k.off
  BY DEF Channel, WithGuests
<1> HIDE DEF g
<1>2. \A u : Hitting(g, u) = Hitting(k, u)
  BY <1>1 DEF Hitting
<1>3. \A K, X : Roomy(s, k, K, X) => Roomy(s, g, K, X)
  BY <1>1, <1>2 DEF Roomy, Hushed
<1> QED BY <1>1, <1>3 DEF g, Alike

Uninvites(w, s, c, u, v) ==
    /\ InOrder(v) /\ Beside(w, v, s, c)
    /\ v.chan[s][c] = [w.chan[s][c] EXCEPT !.invites = @ \ {u}]
    /\ v.invited = [w.invited EXCEPT ![u] = Without(@, c)]

LEMMA DelInvite ==
    ASSUME NEW w, InOrder(w), NEW s \in Servers, NEW c \in Chans, NEW u \in Users, Home[u] = s
    PROVE  Uninvites(w, s, c, u, del_invite(w, s, c, u))
<1> DEFINE v == del_invite(w, s, c, u)
           k == w.chan[s][c]
           g == WithGuests(k, k.invites \ {u})
           inv == [w.invited EXCEPT ![u] = Without(w.invited[u], c)]
<1>1. v = PutBoth(w, s, c, g, inv)
  BY DEF del_invite, PutBoth, PutAt, WithGuests
<1>2. k \in Channel /\ Roomy(s, k, w.known[s], Mixed(w, c))
  BY WorldHas
<1>3. k.invites \ {u} \in SUBSET Users
  BY <1>2 DEF Channel
<1>4. g \in Channel /\ g.invites = k.invites \ {u} /\ Roomy(s, g, w.known[s], Mixed(w, c))
  <2> HIDE DEF k
  <2> QED BY <1>2, <1>3, GuestsOnly DEF Alike
<1>5. \A x \in Users : /\ w.invited[x] \in Seq(Chans) /\ IsInjective(w.invited[x])
                       /\ x \in k.invites <=> Home[x] = s /\ c \in Range(w.invited[x])
                       /\ x \in k.invites => x \in w.known[s]
  BY WorldHas
<1>6. w.invited \in [Users -> Seq(Chans)]
  BY DEF InOrder, ChannelWorlds
<1>7. /\ Without(w.invited[u], c) \in Seq(Chans) /\ IsInjective(Without(w.invited[u], c))
      /\ Range(Without(w.invited[u], c)) = Range(w.invited[u]) \ {c}
  BY <1>5, ShortIs
<1>8. inv \in [Users -> Seq(Chans)] /\ \A x \in Users : inv[x] = IF x = u THEN Without(w.invited[u], c) ELSE w.invited[x]
  BY <1>6, <1>7
<1>9. v = PutBoth(w, s, c, g, inv) /\ g = [w.chan[s][c] EXCEPT !.invites = @ \ {u}]
      /\ inv = [w.invited EXCEPT ![u] = Without(@, c)]
  BY <1>1 DEF WithGuests
<1> HIDE DEF inv, g, k, v
<1>10. Matching(w, s, c, g, inv)
  BY <1>4, <1>5, <1>7, <1>8 DEF Matching
<1>11. InOrder(v) /\ v.chan[s][c] = g /\ v.invited = inv /\ Beside(w, v, s, c)
  BY <1>4, <1>8, <1>9, <1>10, PutBothHolds DEF Puts
<1> QED BY <1>9, <1>11 DEF Uninvites, v

LEMMA UninviteIs ==
    ASSUME NEW w, InOrder(w), NEW s \in Servers, NEW c \in Chans
    PROVE  /\ InOrder(Uninvite(w, s, c)) /\ Beside(w, Uninvite(w, s, c), s, c)
           /\ Uninvite(w, s, c).chan[s][c] = [w.chan[s][c] EXCEPT !.invites = {}]
<1> DEFINE v == Uninvite(w, s, c)
           k == w.chan[s][c]
           g == WithGuests(k, {})
           inv == [u \in Users |-> IF u \in k.invites THEN Without(w.invited[u], c) ELSE w.invited[u]]
<1>1. v = PutBoth(w, s, c, g, inv)
  BY DEF Uninvite, PutBoth, PutAt, WithGuests
<1>2. k \in Channel /\ Roomy(s, k, w.known[s], Mixed(w, c))
  BY WorldHas
<1>4. g \in Channel /\ g.invites = {} /\ Roomy(s, g, w.known[s], Mixed(w, c))
  <2>1. {} \in SUBSET Users
    OBVIOUS
  <2> HIDE DEF k
  <2> QED BY <1>2, <2>1, GuestsOnly DEF Alike
<1>5. \A x \in Users : /\ w.invited[x] \in Seq(Chans) /\ IsInjective(w.invited[x])
                       /\ x \in k.invites <=> Home[x] = s /\ c \in Range(w.invited[x])
                       /\ x \in k.invites => x \in w.known[s]
  BY WorldHas
<1>7. \A x \in Users : /\ Without(w.invited[x], c) \in Seq(Chans) /\ IsInjective(Without(w.invited[x], c))
                       /\ Range(Without(w.invited[x], c)) = Range(w.invited[x]) \ {c}
  BY <1>5, ShortIs
<1>8. inv \in [Users -> Seq(Chans)] /\ \A x \in Users : inv[x] = IF x \in k.invites THEN Without(w.invited[x], c) ELSE w.invited[x]
  BY <1>5, <1>7
<1>9. v = PutBoth(w, s, c, g, inv) /\ g = [w.chan[s][c] EXCEPT !.invites = {}]
  BY <1>1 DEF WithGuests
<1> HIDE DEF inv, g, k, v
<1>10. Matching(w, s, c, g, inv)
  BY <1>4, <1>5, <1>7, <1>8 DEF Matching
<1>11. InOrder(v) /\ v.chan[s][c] = g /\ v.invited = inv /\ Beside(w, v, s, c)
  BY <1>4, <1>8, <1>9, <1>10, PutBothHolds DEF Puts
<1> QED BY <1>9, <1>11 DEF v

\* A name without a channel.
LEMMA NoChanIs ==
    /\ NoChan \in Channel /\ NoChan.invites = {} /\ DOMAIN NoChan.member = {}
    /\ \A s, K, X : Roomy(s, NoChan, K, X)
<1>1. NoChan.member \in [{} -> SUBSET Status] /\ DOMAIN NoChan.member = {}
  BY DEF NoChan
<1>2. NoChan.member \in Members
  BY <1>1 DEF Members
<1>3. NoChan.bans = <<>> /\ NoChan.on = {} /\ NoChan.off = {} /\ NoChan.invites = {}
  BY DEF NoChan
<1>4. 0 \in 0 .. MaxTime
  BY ChannelAssumption
<1>5. NoChan \in Channel
  <2> DEFINE m == NoChan.member
  <2>0. m \in Members
    BY <1>2
  <2>1. NoChan = [member |-> m, ts |-> 0, modes |-> {}, key |-> "", limit |-> 0, bans |-> <<>>,
                  invites |-> {}, topic |-> "", ttime |-> 0, on |-> {}, off |-> {}]
    BY DEF NoChan
  <2> HIDE DEF m
  <2>2. <<>> \in Seq(Bans)
    OBVIOUS
  <2>3. 0 \in Nat /\ {} \in SUBSET Flags /\ {} \in SUBSET Users
    OBVIOUS
  <2>5. "" \in Keys \cup {""} /\ "" \in Texts \cup {""}
    OBVIOUS
  <2>4. [member |-> m, ts |-> 0, modes |-> {}, key |-> "", limit |-> 0, bans |-> <<>>,
         invites |-> {}, topic |-> "", ttime |-> 0, on |-> {}, off |-> {}] \in Channel
    BY <1>4, <2>0, <2>2, <2>3, <2>5, Zenon DEF Channel
  <2> QED BY <2>1, <2>4
<1>6. IsInjective(NoChan.bans)
  BY <1>3 DEF IsInjective
<1>7. ASSUME NEW s, NEW K, NEW X PROVE Roomy(s, NoChan, K, X)
  BY <1>1, <1>3, <1>6 DEF Roomy, Hushed
<1> QED BY <1>1, <1>3, <1>5, <1>7

LEMMA BesideOn ==
    ASSUME NEW w, NEW v, NEW x, NEW s, NEW c, Beside(w, v, s, c), Beside(v, x, s, c)
    PROVE  Beside(w, x, s, c)
  BY DEF Beside

\* One channel that changes and stays in order, with the same guests.
LEMMA EditIs ==
    ASSUME NEW w, InOrder(w), NEW s \in Servers, NEW c \in Chans, NEW k \in Channel,
           Roomy(s, k, w.known[s], Mixed(w, c)), k.invites = w.chan[s][c].invites
    PROVE  Puts(w, s, c, k, w.invited, PutAt(w, s, c, k))
<1>1. InOrder(PutAt(w, s, c, k))
  BY EditHolds
<1>2. w \in ChannelWorlds
  BY DEF InOrder
<1> QED BY <1>1, <1>2, PutAtIs DEF Beside, Puts

\* The members gone leave the channel.
Loses(w, s, c, gone, v) ==
    InOrder(v) /\ Beside(w, v, s, c) /\ DOMAIN v.chan[s][c].member = DOMAIN w.chan[s][c].member \ gone

LEMMA SubIs ==
    ASSUME NEW w, InOrder(w), NEW s \in Servers, NEW c \in Chans
    PROVE  Loses(w, s, c, {}, sub1_from_channel(w, s, c))
<1> DEFINE v == sub1_from_channel(w, s, c)
<1>1. CASE DOMAIN w.chan[s][c].member # {}
  BY <1>1 DEF sub1_from_channel, Beside, Loses
<1>2. CASE DOMAIN w.chan[s][c].member = {}
  <2> DEFINE x == Uninvite(w, s, c)
  <2>1. v = PutAt(x, s, c, NoChan)
    BY <1>2 DEF sub1_from_channel, PutAt
  <2>3. InOrder(x) /\ Beside(w, x, s, c) /\ x.chan[s][c] = [w.chan[s][c] EXCEPT !.invites = {}]
    BY UninviteIs
  <2> HIDE DEF x, v
  <2>4. x.chan[s][c].invites = {}
    <3>1. w.chan[s][c] \in Channel
      BY WorldHas
    <3> QED BY <2>3, <3>1 DEF Channel
  <2>5. InOrder(v) /\ Beside(x, v, s, c) /\ v.chan[s][c] = NoChan
    <3>1. NoChan \in Channel /\ Roomy(s, NoChan, x.known[s], Mixed(x, c)) /\ NoChan.invites = x.chan[s][c].invites
      BY <2>4, NoChanIs
    <3>2. Puts(x, s, c, NoChan, x.invited, v)
      BY <2>1, <2>3, <3>1, EditIs
    <3> QED BY <3>2 DEF Puts
  <2>6. Beside(w, v, s, c)
    BY <2>3, <2>5, BesideOn
  <2>7. Loses(w, s, c, {}, v)
    BY <1>2, <2>5, <2>6, NoChanIs DEF Loses
  <2> QED BY <2>7 DEF v
<1> QED BY <1>1, <1>2

\* Members who go take nothing along.
Fewer(k, D) == [k EXCEPT !.member = Restrict(@, D)]

LEMMA FewerHold ==
    ASSUME NEW s, NEW k \in Channel, NEW K, NEW X, Roomy(s, k, K, X), NEW D, D \subseteq DOMAIN k.member
    PROVE  LET g == Fewer(k, D) IN g \in Channel /\ Roomy(s, g, K, X) /\ DOMAIN g.member = D /\ g.invites = k.invites
<1> DEFINE g == Fewer(k, D)
<1>1. DOMAIN k.member \in SUBSET Users /\ \A u \in DOMAIN k.member : k.member[u] \in SUBSET Status
  BY MemberIs DEF Channel
<1> DEFINE m == [u \in D |-> k.member[u]]
<1>2. m \in Members /\ DOMAIN m = D /\ \A u \in D : m[u] = k.member[u]
  BY <1>1, MemberMap
<1>3. g = [k EXCEPT !.member = m]
  BY DEF Restrict, Fewer
<1> HIDE DEF m, g
<1>4. g \in Channel /\ g.member = m /\ g.bans = k.bans /\ g.on = k.on /\ g.off = k.off /\ g.invites = k.invites
  BY <1>2, <1>3 DEF Channel
<1>5. \A u : Hitting(g, u) = Hitting(k, u)
  BY <1>4 DEF Hitting
<1>6. Hushed(s, g, X)
  BY <1>2, <1>4, <1>5 DEF Roomy, Hushed
<1> QED BY <1>2, <1>4, <1>6 DEF Roomy, g

LEMMA LeaveOne ==
    ASSUME NEW w, InOrder(w), NEW s \in Servers, NEW c \in Chans, NEW u
    PROVE  Loses(w, s, c, {u}, remove_user_from_channel(w, s, c, u))
<1> DEFINE v == remove_user_from_channel(w, s, c, u)
           k == w.chan[s][c]
           D == DOMAIN k.member \ {u}
           g == Fewer(k, D)
           x == PutAt(w, s, c, g)
<1>1. v = sub1_from_channel(x, s, c)
  BY DEF remove_user_from_channel, PutAt, Fewer
<1>2. k \in Channel /\ Roomy(s, k, w.known[s], Mixed(w, c)) /\ w \in ChannelWorlds
  BY WorldHas
<1>3. g \in Channel /\ Roomy(s, g, w.known[s], Mixed(w, c)) /\ DOMAIN g.member = D /\ g.invites = k.invites
  <2>1. D \subseteq DOMAIN k.member
    OBVIOUS
  <2> HIDE DEF k, D
  <2> QED BY <1>2, <2>1, FewerHold
<1>4. InOrder(x) /\ Beside(w, x, s, c) /\ x.chan[s][c] = g
  <2> HIDE DEF g
  <2> QED BY <1>3, EditIs DEF Puts
<1> HIDE DEF g, x, v
<1>5. InOrder(v) /\ Beside(x, v, s, c) /\ DOMAIN v.chan[s][c].member = DOMAIN x.chan[s][c].member
  BY <1>1, <1>4, SubIs DEF Loses
<1>6. Beside(w, v, s, c)
  BY <1>4, <1>5, BesideOn
<1> QED BY <1>3, <1>4, <1>5, <1>6 DEF Loses, v

\* What someone who left all channels of s leaves.
LeftAll(w, v, s, u) == /\ v.known = w.known /\ v.ts8 = w.ts8
                    /\ \A c \in Chans : u \notin DOMAIN v.chan[s][c].member

LEMMA LeaveAllIs ==
    ASSUME NEW w, InOrder(w), NEW s \in Servers, NEW who
    PROVE  InOrder(LeaveAll(w, s, who)) /\ LeftAll(w, LeaveAll(w, s, who), s, who)
<1> DEFINE S == Joined(w, s, who)
           A == {v \in ChannelWorlds : InOrder(v) /\ v.known = w.known /\ v.ts8 = w.ts8}
           b == w
           step(c, v) == remove_user_from_channel(v, s, c, who)
           Out(v, T) == \A c \in Chans : c \notin S \ T => who \notin DOMAIN v.chan[s][c].member
           W == [T \in SUBSET S |-> {v \in A : Out(v, T)}]
           G == [x \in S \X A |-> step(x[1], x[2])]
           pick == [T \in SUBSET S |-> CHOOSE x \in T : TRUE]
<1>1. IsFiniteSet(S) /\ S \subseteq Chans
  <2>1. S \subseteq Chans
    BY DEF Joined
  <2> HIDE DEF S
  <2> QED BY <2>1, ChannelAssumption, FS_Subset
<1>2. b \in A /\ Out(b, {})
  <2>1. b \in A
    BY DEF InOrder
  <2>2. Out(b, {})
    BY DEF Joined, IsMember
  <2> QED BY <2>1, <2>2
<1>3. ASSUME NEW T \in SUBSET S, T # {}, NEW c \in T, NEW v \in A, Out(v, T \ {c})
      PROVE  step(c, v) \in A /\ Out(step(c, v), T)
  <2> DEFINE x == step(c, v)
  <2>1. InOrder(v) /\ c \in Chans /\ x = remove_user_from_channel(v, s, c, who) /\ v.known = w.known /\ v.ts8 = w.ts8
    BY <1>1, <1>3
  <2> HIDE DEF x
  <2>2. InOrder(x) /\ Beside(v, x, s, c) /\ DOMAIN x.chan[s][c].member = DOMAIN v.chan[s][c].member \ {who}
    BY <2>1, LeaveOne DEF Loses
  <2>3. x \in A
    BY <2>1, <2>2 DEF InOrder, Beside
  <2>4. ASSUME NEW d \in Chans, d \notin S \ T PROVE who \notin DOMAIN x.chan[s][d].member
    <3>1. CASE d = c
      BY <2>2, <3>1
    <3>2. CASE d # c
      <4>1. x.chan[s][d] = v.chan[s][d]
        BY <2>2, <3>2 DEF Beside
      <4>2. d \notin S \ (T \ {c})
        BY <2>4, <3>2
      <4> QED BY <1>3, <4>1, <4>2
    <3> QED BY <3>1, <3>2
  <2> HIDE DEF A, S
  <2> QED BY <2>3, <2>4 DEF x
<1>4. \A T \in SUBSET S : T # {} => pick[T] \in T
  OBVIOUS
<1>5. \A T \in SUBSET S : pick[T] = CHOOSE x \in T : TRUE
  BY DEF pick
<1> HIDE DEF pick
<1>6. StepsKeep(S, pick, A, W, G)
  <2>1. ASSUME NEW T \in SUBSET S, T # {}, NEW v \in W[T \ {pick[T]}]
        PROVE  G[<<pick[T], v>>] \in W[T]
    <3>1. T \ {pick[T]} \in SUBSET S /\ pick[T] \in T /\ pick[T] \in S
      BY <1>4, <2>1
    <3>2. v \in A /\ Out(v, T \ {pick[T]}) /\ W[T] = {x \in A : Out(x, T)}
      BY <2>1, <3>1
    <3> HIDE DEF step, S, A, Out
    <3>3. G[<<pick[T], v>>] = step(pick[T], v)
      BY <3>1, <3>2
    <3> HIDE DEF G, W
    <3> QED BY <1>3, <2>1, <3>1, <3>2, <3>3
  <2>2. \A T \in SUBSET S : W[T] \subseteq A
    OBVIOUS
  <2> HIDE DEF G, W, S, A, Out
  <2> QED BY <2>1, <2>2 DEF StepsKeep
<1>7. b \in W[{}]
  <2> HIDE DEF A, S, Out, b
  <2> QED BY <1>2
<1> HIDE DEF G, step, A, Out
<1>8. PICK g \in [SUBSET S -> A] : Folds(g, S, pick, b, G) /\ \A T \in SUBSET S : g[T] \in W[T]
  <2>1. Picks(pick, S)
    BY <1>4 DEF Picks
  <2> HIDE DEF W, S, b
  <2> QED BY <1>1, <1>6, <1>7, <2>1, FoldStays
<1>9. ASSUME NEW T \in SUBSET S, T # {}
      PROVE  g[T] = step(pick[T], g[T \ {pick[T]}])
  <2> HIDE DEF b, S
  <2>1. g[T \ {pick[T]}] \in A /\ pick[T] \in S
    BY <1>4, <1>8, <1>9
  <2>2. g[T] = G[<<pick[T], g[T \ {pick[T]}]>>]
    BY <1>8, <1>9 DEF Folds
  <2> QED BY <2>1, <2>2 DEF G
<1>10. g[{}] = b
  BY <1>8 DEF Folds
<1>11. g = [T \in SUBSET S |-> IF T = {} THEN b ELSE step(CHOOSE x \in T : TRUE, g[T \ {CHOOSE x \in T : TRUE}])]
  <2>1. \A T \in SUBSET S : g[T] = IF T = {} THEN b ELSE step(pick[T], g[T \ {pick[T]}])
    BY <1>9, <1>10
  <2>2. ASSUME NEW T \in SUBSET S
        PROVE  g[T] = IF T = {} THEN b ELSE step(CHOOSE x \in T : TRUE, g[T \ {CHOOSE x \in T : TRUE}])
    BY <1>5, <2>1
  <2>3. DOMAIN g = SUBSET S /\ g = [T \in SUBSET S |-> g[T]]
    BY <1>8
  <2> QED BY <2>2, <2>3, Zenon
<1>12. PICK h : /\ h = [T \in SUBSET S |-> IF T = {} THEN b ELSE step(CHOOSE x \in T : TRUE, h[T \ {CHOOSE x \in T : TRUE}])]
                /\ LeaveAll(w, s, who) = h[S]
  BY <1>11 DEF LeaveAll, FoldSet, MapThenFoldSet, step
<1>13. h[S] = g[S]
  <2>1. g[{}] = h[{}]
    BY <1>10, <1>12
  <2>2. \A T \in SUBSET S : T # {} /\ g[T \ {pick[T]}] = h[T \ {pick[T]}] => g[T] = h[T]
    <3>1. \A T \in SUBSET S : h[T] = IF T = {} THEN b ELSE step(pick[T], h[T \ {pick[T]}])
      BY <1>5, <1>12
    <3> QED BY <1>9, <3>1
  <2>3. Picks(pick, S)
    BY <1>4 DEF Picks
  <2> HIDE DEF S
  <2> QED BY <1>1, <2>1, <2>2, <2>3, SameFold
<1>14. LeaveAll(w, s, who) \in W[S]
  <2>1. LeaveAll(w, s, who) = g[S] /\ S \in SUBSET S
    BY <1>12, <1>13
  <2> HIDE DEF W, S
  <2> QED BY <1>8, <2>1
<1>15. LeaveAll(w, s, who) \in A /\ Out(LeaveAll(w, s, who), S)
  <2>1. S \in SUBSET S
    OBVIOUS
  <2> HIDE DEF S
  <2> QED BY <1>14, <2>1
<1> QED BY <1>15 DEF A, Out, LeftAll

\* Someone without channels forgets all invitations.
Forgets(w, s, u, v) ==
    /\ InOrder(v) /\ v.known = w.known /\ v.ts8 = w.ts8
    /\ \A c \in Chans : v.chan[s][c].member = w.chan[s][c].member /\ u \notin v.chan[s][c].invites

LEMMA ForgetIs ==
    ASSUME NEW w, InOrder(w), NEW s \in Servers, NEW u \in Users, Home[u] = s
    PROVE  Forgets(w, s, u, Forget(w, s, u))
<1> DEFINE v == Forget(w, s, u)
           Less(c) == WithGuests(w.chan[s][c], w.chan[s][c].invites \ {u})
           row == [c \in Chans |-> IF c \in Range(w.invited[u]) THEN Less(c) ELSE w.chan[s][c]]
           inv == [w.invited EXCEPT ![u] = <<>>]
<1>1. /\ w \in ChannelWorlds /\ w.chan \in [Servers -> [Chans -> Channel]] /\ w.invited \in [Users -> Seq(Chans)]
      /\ w.invited[u] \in Seq(Chans)
  BY DEF InOrder, ChannelWorlds
<1>2. v = [[w EXCEPT !.chan = [w.chan EXCEPT ![s] = row]] EXCEPT !.invited = inv]
  <2>1. [c \in Chans |-> IF c \in Range(w.invited[u]) THEN [w.chan[s][c] EXCEPT !.invites = @ \ {u}] ELSE w.chan[s][c]] = row
    BY DEF WithGuests
  <2>2. v = [[w EXCEPT !.chan = [w.chan EXCEPT ![s] =
                [c \in Chans |-> IF c \in Range(w.invited[u]) THEN [w.chan[s][c] EXCEPT !.invites = @ \ {u}] ELSE w.chan[s][c]]]]
             EXCEPT !.invited = inv]
    BY DEF Forget
  <2> HIDE DEF row, inv, v
  <2> QED BY <2>1, <2>2
<1>3. ASSUME NEW c \in Chans
      PROVE  /\ row[c] \in Channel /\ row[c].member = w.chan[s][c].member
             /\ row[c].invites = w.chan[s][c].invites \ {u}
             /\ Roomy(s, row[c], w.known[s], Mixed(w, c))
  <2>1. /\ w.chan[s][c] \in Channel /\ Roomy(s, w.chan[s][c], w.known[s], Mixed(w, c))
        /\ u \in w.chan[s][c].invites <=> c \in Range(w.invited[u])
    BY WorldHas
  <2>2. w.chan[s][c].invites \ {u} \in SUBSET Users
    BY <2>1 DEF Channel
  <2>3. /\ Less(c) \in Channel /\ Less(c).invites = w.chan[s][c].invites \ {u} /\ Less(c).member = w.chan[s][c].member
        /\ Roomy(s, Less(c), w.known[s], Mixed(w, c))
    BY <2>1, <2>2, GuestsOnly DEF Alike
  <2>4. row[c] = IF c \in Range(w.invited[u]) THEN Less(c) ELSE w.chan[s][c]
    OBVIOUS
  <2> HIDE DEF row, Less
  <2> QED BY <2>1, <2>3, <2>4
<1>4. row \in [Chans -> Channel]
  <2>1. row = [c \in Chans |-> row[c]]
    OBVIOUS
  <2> HIDE DEF row
  <2> QED BY <1>3, <2>1
<1>5. inv \in [Users -> Seq(Chans)] /\ inv[u] = <<>> /\ \A x \in Users : x # u => inv[x] = w.invited[x]
  BY <1>1
<1> HIDE DEF row, inv, v
<1>6. /\ v \in ChannelWorlds /\ v.invited = inv /\ v.known = w.known /\ v.ts8 = w.ts8 /\ v.mixed = w.mixed
      /\ v.chan[s] = row /\ \A t \in Servers : t # s => v.chan[t] = w.chan[t]
  <2>1. /\ [w.chan EXCEPT ![s] = row] \in [Servers -> [Chans -> Channel]] /\ [w.chan EXCEPT ![s] = row][s] = row
        /\ \A t \in Servers : t # s => [w.chan EXCEPT ![s] = row][t] = w.chan[t]
    BY <1>1, <1>4
  <2> DEFINE chans == [w.chan EXCEPT ![s] = row]
  <2>2. v = [[w EXCEPT !.chan = chans] EXCEPT !.invited = inv]
    BY <1>2
  <2>3. chans \in [Servers -> [Chans -> Channel]] /\ chans[s] = row /\ \A t \in Servers : t # s => chans[t] = w.chan[t]
    BY <2>1
  <2> HIDE DEF chans
  <2> QED BY <1>1, <1>5, <2>2, <2>3 DEF ChannelWorlds
<1>7. \A d : Mixed(v, d) = Mixed(w, d)
  BY <1>6 DEF Mixed
<1>8. ASSUME NEW t \in Servers, NEW d \in Chans PROVE Roomy(t, v.chan[t][d], v.known[t], Mixed(v, d))
  <2>1. CASE t = s
    BY <1>3, <1>6, <1>7, <2>1
  <2>2. CASE t # s
    BY <1>6, <1>7, <2>2 DEF InOrder
  <2> QED BY <2>1, <2>2
<1>9. Invitations(v)
  <2>1. ASSUME NEW t \in Servers, NEW d \in Chans, NEW x \in Users
        PROVE  /\ x \in v.chan[t][d].invites <=> Home[x] = t /\ d \in Range(v.invited[x])
               /\ x \in v.chan[t][d].invites => x \in v.known[t]
    <3>1. /\ x \in w.chan[t][d].invites <=> Home[x] = t /\ d \in Range(w.invited[x])
          /\ x \in w.chan[t][d].invites => x \in w.known[t]
      BY WorldHas
    <3>2. x \in v.chan[t][d].invites <=> x \in w.chan[t][d].invites /\ x # u
      <4>1. CASE t = s
        BY <1>3, <1>6, <4>1
      <4>2. CASE t # s
        BY <1>6, <3>1, <4>2
      <4> QED BY <4>1, <4>2
    <3>3. Range(v.invited[u]) = {} /\ \A y \in Users : y # u => v.invited[y] = w.invited[y]
      BY <1>5, <1>6 DEF Range
    <3> QED BY <1>6, <3>1, <3>2, <3>3
  <2>2. ASSUME NEW x \in Users PROVE IsInjective(v.invited[x])
    <3>1. CASE x = u
      BY <1>5, <1>6, <3>1 DEF IsInjective
    <3>2. CASE x # u
      BY <1>5, <1>6, <3>2, WorldHas DEF InOrder, Invitations
    <3> QED BY <3>1, <3>2
  <2> QED BY <2>1, <2>2 DEF Invitations
<1>10. InOrder(v)
  BY <1>6, <1>8, <1>9 DEF InOrder
<1> QED BY <1>3, <1>6, <1>10 DEF Forgets, v

\* The server knows one user less, who has nothing left here.
Dropped(w, s, u) == [w EXCEPT !.known[s] = @ \ {u}, !.ts8[s] = @ \ {u}]

LEMMA DroppedHolds ==
    ASSUME NEW w, InOrder(w), NEW s \in Servers, NEW u, 
           \A c \in Chans : u \notin DOMAIN w.chan[s][c].member /\ u \notin w.chan[s][c].invites
    PROVE  InOrder(Dropped(w, s, u))
<1> DEFINE kn == [w.known EXCEPT ![s] = w.known[s] \ {u}]
           t8 == [w.ts8 EXCEPT ![s] = w.ts8[s] \ {u}]
           v == Dropped(w, s, u)
<1>1. w \in ChannelWorlds /\ w.known \in [Servers -> SUBSET Users] /\ w.ts8 \in [Servers -> SUBSET Users]
  BY DEF InOrder, ChannelWorlds
<1>2. /\ kn \in [Servers -> SUBSET Users] /\ t8 \in [Servers -> SUBSET Users]
      /\ kn[s] = w.known[s] \ {u} /\ t8[s] = w.ts8[s] \ {u}
      /\ \A t \in Servers : t # s => kn[t] = w.known[t] /\ t8[t] = w.ts8[t]
  BY <1>1
<1>3. v = [[w EXCEPT !.known = kn] EXCEPT !.ts8 = t8]
  BY DEF Dropped
<1> HIDE DEF kn, t8, v
<1>4. v \in ChannelWorlds /\ v.known = kn /\ v.ts8 = t8 /\ v.chan = w.chan /\ v.invited = w.invited /\ v.mixed = w.mixed
  BY <1>1, <1>2, <1>3 DEF ChannelWorlds
<1>5. \A d : Mixed(v, d) = Mixed(w, d)
  BY <1>4 DEF Mixed
<1>6. ASSUME NEW t \in Servers, NEW d \in Chans PROVE Roomy(t, v.chan[t][d], v.known[t], Mixed(v, d))
  <2>1. Roomy(t, w.chan[t][d], w.known[t], Mixed(w, d))
    BY DEF InOrder
  <2>2. DOMAIN w.chan[t][d].member \subseteq kn[t]
    BY <1>2, <2>1 DEF Roomy
  <2> QED BY <1>4, <1>5, <2>1, <2>2 DEF Roomy
<1>7. Invitations(v)
  <2>1. ASSUME NEW t \in Servers, NEW d \in Chans, NEW x \in Users, x \in w.chan[t][d].invites
        PROVE  x \in v.known[t]
    BY <1>2, <1>4, <2>1, WorldHas
  <2> QED BY <1>4, <2>1 DEF InOrder, Invitations
<1>8. \A t \in Servers : v.ts8[t] \subseteq v.known[t]
  BY <1>2, <1>4 DEF InOrder
<1>9. InOrder(v)
  BY <1>4, <1>6, <1>7, <1>8 DEF InOrder
<1> QED BY <1>9 DEF v

\* exit_one_client(): a user who is gone.
LEMMA ExitIs ==
    ASSUME NEW w, InOrder(w), NEW s \in Servers, NEW but, NEW u \in Users
    PROVE  InOrder(exit_one_client(w, s, but, u))
<1> DEFINE told == sendto_match_servs(w, s, but, Line("QUIT", u, ""))
           out == LeaveAll(told, s, u)
           free == IF MyClient(s, u) THEN Forget(out, s, u) ELSE out
<1>1. exit_one_client(w, s, but, u) = Dropped(free, s, u)
  BY DEF exit_one_client, Dropped
<1>2. InOrder(told)
  <2>1. Line("QUIT", u, "") \in Lines
    BY DEF Line, Lines
  <2> QED BY <2>1, SentServs DEF InOrder, Sent
<1> HIDE DEF told
<1>3. InOrder(out) /\ \A c \in Chans : u \notin DOMAIN out.chan[s][c].member
  BY <1>2, LeaveAllIs DEF LeftAll
<1> HIDE DEF out
<1>4. InOrder(free) /\ \A c \in Chans : u \notin DOMAIN free.chan[s][c].member /\ u \notin free.chan[s][c].invites
  <2>1. CASE MyClient(s, u)
    <3>1. Home[u] = s /\ free = Forget(out, s, u)
      BY <2>1 DEF MyClient
    <3> HIDE DEF free
    <3> QED BY <1>3, <3>1, ForgetIs DEF Forgets
  <2>2. CASE ~MyClient(s, u)
    <3>1. Home[u] # s /\ free = out
      BY <2>2 DEF MyClient
    <3> HIDE DEF free
    <3> QED BY <1>3, <3>1, WorldHas
  <2> QED BY <2>1, <2>2
<1> HIDE DEF free
<1> QED BY <1>1, <1>4, DroppedHolds

\* A channel that changes neither its members, nor bans, nor guests.
LEMMA PlainEdit ==
    ASSUME NEW w, InOrder(w), NEW s \in Servers, NEW c \in Chans, NEW g \in Channel,
           g.member = w.chan[s][c].member, g.bans = w.chan[s][c].bans, g.invites = w.chan[s][c].invites,
           g.on \cap g.off = {}
    PROVE  Puts(w, s, c, g, w.invited, PutAt(w, s, c, g))
<1> DEFINE k == w.chan[s][c]
<1>1. Roomy(s, k, w.known[s], Mixed(w, c))
  BY WorldHas
<1>2. \A u : Hitting(g, u) = Hitting(k, u)
  BY DEF Hitting
<1>3. Roomy(s, g, w.known[s], Mixed(w, c))
  BY <1>1, <1>2 DEF Roomy, Hushed
<1> QED BY <1>3, EditIs

\* The channel takes a time.
Timed(k, t) == [k EXCEPT !.ts = t]

LEMMA TimedIs ==
    ASSUME NEW w, InOrder(w), NEW s \in Servers, NEW c \in Chans, NEW t \in 0 .. MaxTime
    PROVE  /\ Puts(w, s, c, Timed(w.chan[s][c], t), w.invited, PutAt(w, s, c, Timed(w.chan[s][c], t)))
           /\ Timed(w.chan[s][c], t).member = w.chan[s][c].member
<1> DEFINE k == w.chan[s][c]
           g == Timed(k, t)
<1>1. k \in Channel /\ k.on \cap k.off = {}
  BY WorldHas DEF Roomy
<1> HIDE DEF k
<1>2. g \in Channel /\ g.member = k.member /\ g.bans = k.bans /\ g.invites = k.invites /\ g.on = k.on /\ g.off = k.off
  BY <1>1 DEF Channel, Timed
<1> HIDE DEF g
<1>3. Puts(w, s, c, g, w.invited, PutAt(w, s, c, g))
  BY <1>1, <1>2, PlainEdit DEF k
<1> QED BY <1>2, <1>3 DEF k, g

\* A channel with one member more.
LEMMA EnteredIs ==
    ASSUME NEW w, InOrder(w), NEW s \in Servers, NEW c \in Chans, NEW u \in w.known[s],
           NEW flags \in SUBSET Status, "bquiet" \notin flags, NEW t \in 0 .. MaxTime
    PROVE  LET g == Entered(w.chan[s][c], u, flags, t)
           IN /\ g \in Channel /\ g.invites = w.chan[s][c].invites
              /\ Roomy(s, g, w.known[s], Mixed(w, c) \cup {u})
<1> DEFINE k == w.chan[s][c]
           D == DOMAIN k.member \cup {u}
           m == [v \in D |-> IF v = u THEN flags ELSE k.member[v]]
           g == Entered(k, u, flags, t)
<1>1. k \in Channel /\ Roomy(s, k, w.known[s], Mixed(w, c)) /\ w.known[s] \subseteq Users
  BY WorldHas
<1>2. DOMAIN k.member \in SUBSET Users /\ \A v \in DOMAIN k.member : k.member[v] \in SUBSET Status
  BY <1>1, MemberIs DEF Channel
<1>3. D \in SUBSET Users /\ D \subseteq w.known[s]
  BY <1>1, <1>2 DEF Roomy
<1>4. m \in Members /\ DOMAIN m = D /\ \A v \in D : m[v] = IF v = u THEN flags ELSE k.member[v]
  <2> DEFINE f(v) == IF v = u THEN flags ELSE k.member[v]
  <2>1. \A v \in D : f(v) \in SUBSET Status
    BY <1>2
  <2>2. [v \in D |-> f(v)] \in [D -> SUBSET Status]
    BY <2>1
  <2> QED BY <1>3, <2>2 DEF Members
<1>5. g = [[k EXCEPT !.member = m] EXCEPT !.ts = t]
  BY DEF Entered
<1> HIDE DEF m, g
<1>6. g \in Channel /\ g.member = m /\ g.bans = k.bans /\ g.invites = k.invites /\ g.on = k.on /\ g.off = k.off
  BY <1>1, <1>4, <1>5 DEF Channel
<1>7. \A v : Hitting(g, v) = Hitting(k, v)
  BY <1>6 DEF Hitting
<1>8. Hushed(s, g, Mixed(w, c) \cup {u})
  BY <1>1, <1>4, <1>6, <1>7 DEF Roomy, Hushed
<1>9. Roomy(s, g, w.known[s], Mixed(w, c) \cup {u})
  BY <1>1, <1>3, <1>4, <1>6, <1>8 DEF Roomy
<1> QED BY <1>6, <1>9 DEF g

\* The lines that are sent.
LEMMA LineTypes ==
    /\ \A u \in Users : Line("NICK", u, "") \in Lines /\ Line("QUIT", u, "") \in Lines /\ Line("JOIN 0", u, "") \in Lines
    /\ \A u \in Users, c \in Chans : Line("JOIN", u, c) \in Lines /\ Line("PART", u, c) \in Lines
    /\ \A x \in Users \cup {Services}, c \in Chans, u \in Users : KickLine(x, c, u) \in Lines
    /\ \A x \in Users \cup Servers \cup {Services}, c \in Chans, cs \in Seq(Changes), ts \in NoTime .. MaxTime :
          ModeLine(x, c, cs, ts) \in Lines
    /\ \A x \in Users \cup Servers, c \in Chans, text \in Texts \cup {""}, ts \in 0 .. MaxTime :
          TopicLine(x, c, text, ts) \in Lines
<1>1. /\ \A u \in Users : Line("NICK", u, "") \in Lines /\ Line("QUIT", u, "") \in Lines /\ Line("JOIN 0", u, "") \in Lines
      /\ \A u \in Users, c \in Chans : Line("JOIN", u, c) \in Lines /\ Line("PART", u, c) \in Lines
  BY DEF Line, Lines
<1>2. \A x \in Users \cup {Services}, c \in Chans, u \in Users : KickLine(x, c, u) \in Lines
  BY DEF KickLine, Lines
<1>3. \A x \in Users \cup Servers \cup {Services}, c \in Chans, cs \in Seq(Changes), ts \in NoTime .. MaxTime :
          ModeLine(x, c, cs, ts) \in Lines
  BY DEF ModeLine, Lines
<1>4. \A x \in Users \cup Servers, c \in Chans, text \in Texts \cup {""}, ts \in 0 .. MaxTime :
          TopicLine(x, c, text, ts) \in Lines
  BY DEF TopicLine, Lines
<1> QED BY <1>1, <1>2, <1>3, <1>4

\* Changes of a line.
LEMMA ChangeTypes ==
    /\ \A a \in BOOLEAN, m \in {"o", "v"}, u \in Users : Change(a, m, u) \in Args
    /\ \A a \in BOOLEAN, b \in Bans : Change(a, "b", b) \in Args
    /\ \A a \in BOOLEAN, k \in Keys \cup {""} : Change(a, "k", k) \in Args
    /\ \A a \in BOOLEAN, l \in Nat : Change(a, "l", l) \in Args
    /\ \A a \in BOOLEAN, f \in Flags : Change(a, f, "") \in Changes
    /\ Args \subseteq Changes
<1>1. \A a \in BOOLEAN, m \in {"o", "v"}, u \in Users : Change(a, m, u) \in Args
  BY DEF Change, Args
<1>2. \A a \in BOOLEAN, b \in Bans : Change(a, "b", b) \in Args
  BY DEF Change, Args
<1>3. \A a \in BOOLEAN, k \in Keys \cup {""} : Change(a, "k", k) \in Args
  BY DEF Change, Args
<1>4. \A a \in BOOLEAN, l \in Nat : Change(a, "l", l) \in Args
  BY DEF Change, Args
<1>5. \A a \in BOOLEAN, f \in Flags : Change(a, f, "") \in Changes
  BY DEF Change, Changes
<1> QED BY <1>1, <1>2, <1>3, <1>4, <1>5 DEF Changes

\* A world that keeps order still does with a line sent.
LEMMA Passed ==
    ASSUME NEW w, InOrder(w), NEW s, NEW but, NEW m \in Lines
    PROVE  /\ InOrder(sendto_match_servs(w, s, but, m))
           /\ Sent(w, sendto_match_servs(w, s, but, m))
  BY SentServs DEF InOrder, Sent

LEMMA JoinHolds ==
    ASSUME NEW w, InOrder(w), NEW s \in Servers, NEW n, NEW u \in w.known[s], NEW c \in Chans, NEW key,
           now \in 1 .. MaxTime
    PROVE  InOrder(m_join(w, s, n, u, c, key))
<1> DEFINE k == w.chan[s][c]
           mine == MyClient(s, u)
           new == ~Exists(w, s, c)
           flags == (IF mine /\ new THEN {"o"} ELSE {"deopped"}) \cup (IF u \in w.ts8[s] THEN {"servopok"} ELSE {})
           t == IF new /\ mine THEN now ELSE k.ts
           g == Entered(k, u, flags, t)
           in == [w EXCEPT !.chan[s][c] = Entered(@, u, flags, IF new /\ mine THEN now ELSE @.ts)]
           checked == check_bquiet(in, s, c, {u})
           heard == sendto_match_servs(checked, s, n, Line("JOIN", u, c))
           stamped == [heard EXCEPT !.chan[s][c].ts = now]
           timed == IF heard.chan[s][c].ts # 0 THEN heard
                    ELSE sendto_match_servs(stamped, s, n, ModeLine(s, c, <<>>, now))
           free == del_invite(timed, s, c, u)
           opened == sendto_match_servs(free, s, n, ModeLine(s, c, <<Change(TRUE, "o", u)>>, free.chan[s][c].ts))
<1>1. /\ m_join(w, s, n, u, c, key) \in {w, heard, free, opened}
      /\ m_join(w, s, n, u, c, key) \in {free, opened} => mine \/ m_join(w, s, n, u, c, key) \in {w, heard}
  <2> DEFINE full == Cardinality(Joined(w, s, u)) >= MaxChannels[u]
             stay == IsMember(w, s, c, u) \/ (mine /\ (full \/ ~can_join(w, s, c, u, key)))
  <2>3. m_join(w, s, n, u, c, key) = IF stay THEN w ELSE IF ~mine THEN heard ELSE IF ~new THEN free ELSE opened
    BY DEF m_join
  <2> HIDE DEF heard, free, opened, stay, new, mine
  <2> QED BY <2>3
<1>11. in = PutAt(w, s, c, g)
  BY DEF PutAt
<1>12. stamped = PutAt(heard, s, c, Timed(heard.chan[s][c], now))
  <2> HIDE DEF heard
  <2> QED BY DEF PutAt, Timed
<1>2. k \in Channel /\ w.known[s] \subseteq Users
  BY WorldHas
<1>3. flags \in SUBSET Status /\ "bquiet" \notin flags /\ t \in 0 .. MaxTime
  <2>1. k.ts \in 0 .. MaxTime
    BY <1>2 DEF Channel
  <2> HIDE DEF k
  <2> QED BY <2>1 DEF Status
<1>4. g \in Channel /\ g.invites = k.invites /\ Roomy(s, g, w.known[s], Mixed(w, c) \cup {u})
  <2> HIDE DEF flags, t
  <2> QED BY <1>3, EnteredIs
<1> HIDE DEF g, in
<1>5. InOrder(checked)
  BY <1>4, <1>11, CheckHolds DEF Checks
<1> HIDE DEF in, checked
<1>6. InOrder(heard)
  BY <1>2, <1>5, LineTypes, Passed
<1> HIDE DEF heard
<1>7. now \in 0 .. MaxTime /\ now \in NoTime .. MaxTime /\ <<>> \in Seq(Changes)
  BY DEF NoTime
<1>8. InOrder(stamped)
  BY <1>6, <1>7, <1>12, TimedIs DEF Puts
<1> HIDE DEF stamped
<1>9. InOrder(timed)
  BY <1>6, <1>7, <1>8, LineTypes, Passed
<1> HIDE DEF timed
<1>10. ASSUME mine PROVE InOrder(free) /\ InOrder(opened)
  <2>1. u \in Users /\ Home[u] = s
    BY <1>10 DEF MyClient
  <2>2. InOrder(free)
    BY <1>9, <2>1, DelInvite DEF Uninvites
  <2> HIDE DEF free
  <2>3. free.chan[s][c].ts \in NoTime .. MaxTime
    <3>1. free.chan[s][c] \in Channel
      BY <2>2, WorldHas
    <3> DEFINE k1 == free.chan[s][c]
    <3> HIDE DEF k1
    <3>2. k1.ts \in 0 .. MaxTime
      BY <3>1 DEF Channel, k1
    <3>3. \A t1 \in 0 .. MaxTime : t1 \in NoTime .. MaxTime
      BY ChannelAssumption DEF NoTime
    <3> QED BY <3>2, <3>3 DEF k1
  <2>4. <<Change(TRUE, "o", u)>> \in Seq(Changes)
    <3>1. Change(TRUE, "o", u) \in Changes
      BY <2>1, ChangeTypes
    <3> DEFINE d == Change(TRUE, "o", u)
    <3> HIDE DEF d
    <3>2. d \in Changes
      BY <3>1 DEF d
    <3>3. <<d>> \in Seq(Changes)
      BY <3>2
    <3> QED BY <3>3 DEF d
  <2>5. InOrder(opened)
    BY <2>2, <2>3, <2>4, LineTypes, Passed
  <2> QED BY <2>2, <2>5 DEF free
<1> HIDE DEF free, opened
<1> QED BY <1>1, <1>6, <1>10

\* The sequence of a finite set.
LEMMA SetToSeqIs ==
    ASSUME NEW S, IsFiniteSet(S), NEW T, S \subseteq T
    PROVE  SetToSeq(S) \in Seq(T)
<1> DEFINE n == Cardinality(S)
<1>1. n \in Nat /\ ExistsBijection(1 .. n, S)
  BY FS_CardinalityType
<1>2. \E f \in [1 .. n -> S] : IsInjective(f)
  BY <1>1 DEF ExistsBijection, Bijection, Injection
<1>3. SetToSeq(S) \in [1 .. n -> S]
  BY <1>2 DEF SetToSeq
<1> HIDE DEF n
<1>4. SetToSeq(S) \in Seq(S)
  BY <1>1, <1>3
<1> QED BY <1>4

\* What f maps from a finite set.
LEMMA ImageFinite ==
    ASSUME NEW S, IsFiniteSet(S), NEW f
    PROVE  IsFiniteSet({f[x] : x \in S})
<1> DEFINE T == {f[x] : x \in S}
           g == [x \in S |-> f[x]]
<1>1. g \in Surjection(S, T)
  BY DEF Surjection
<1> HIDE DEF g, T
<1>2. IsFiniteSet(T)
  BY <1>1, FS_Surjection
<1> QED BY <1>2 DEF T

\* Who speaks is known by its own word.
LEMMA SpokeHolds ==
    ASSUME NEW w, InOrder(w), NEW s \in Servers, NEW x
    PROVE  /\ InOrder(Spoke(w, s, x))
           /\ Spoke(w, s, x).chan = w.chan /\ Spoke(w, s, x).invited = w.invited
           /\ Spoke(w, s, x).known = w.known /\ Spoke(w, s, x).mixed = w.mixed
<1> DEFINE t8 == [w.ts8 EXCEPT ![s] = w.ts8[s] \ {x}]
           v == Spoke(w, s, x)
<1>1. w \in ChannelWorlds /\ w.known \in [Servers -> SUBSET Users] /\ w.ts8 \in [Servers -> SUBSET Users]
  BY DEF InOrder, ChannelWorlds
<1>2. t8 \in [Servers -> SUBSET Users] /\ \A t \in Servers : t8[t] \subseteq w.ts8[t]
  BY <1>1
<1>3. v = [w EXCEPT !.ts8 = t8]
  BY DEF Spoke
<1> HIDE DEF t8, v
<1>4. v \in ChannelWorlds /\ v.known = w.known /\ v.ts8 = t8 /\ v.chan = w.chan /\ v.invited = w.invited /\ v.mixed = w.mixed
  BY <1>1, <1>2, <1>3 DEF ChannelWorlds
<1>5. \A d : Mixed(v, d) = Mixed(w, d)
  BY <1>4 DEF Mixed
<1>6. Invitations(v)
  BY <1>4 DEF InOrder, Invitations
<1>7. \A t \in Servers : v.ts8[t] \subseteq v.known[t]
  BY <1>2, <1>4 DEF InOrder
<1>8. ASSUME NEW t \in Servers, NEW d \in Chans PROVE Roomy(t, v.chan[t][d], v.known[t], Mixed(v, d))
  BY <1>4, <1>5 DEF InOrder
<1>9. InOrder(v)
  BY <1>4, <1>6, <1>7, <1>8 DEF InOrder
<1> QED BY <1>4, <1>9 DEF v

\* The server knows a user more.
Named(w, s, u) == [w EXCEPT !.known[s] = @ \cup {u}, !.ts8[s] = @ \cup {u}]

LEMMA NickKept ==
    ASSUME NEW w, InOrder(w), NEW s \in Servers, NEW n, NEW u \in Users
    PROVE  InOrder(m_nick(w, s, n, u))
<1> DEFINE kn == [w.known EXCEPT ![s] = w.known[s] \cup {u}]
           t8 == [w.ts8 EXCEPT ![s] = w.ts8[s] \cup {u}]
           v == Named(w, s, u)
<1>1. w \in ChannelWorlds /\ w.known \in [Servers -> SUBSET Users] /\ w.ts8 \in [Servers -> SUBSET Users]
  BY DEF InOrder, ChannelWorlds
<1>2. /\ kn \in [Servers -> SUBSET Users] /\ t8 \in [Servers -> SUBSET Users]
      /\ kn[s] = w.known[s] \cup {u} /\ t8[s] = w.ts8[s] \cup {u}
      /\ \A t \in Servers : t # s => kn[t] = w.known[t] /\ t8[t] = w.ts8[t]
  BY <1>1
<1>3. v = [[w EXCEPT !.known = kn] EXCEPT !.ts8 = t8]
  BY DEF Named
<1>10. m_nick(w, s, n, u) = sendto_match_servs(v, s, n, Line("NICK", u, ""))
  BY DEF m_nick, Named
<1> HIDE DEF kn, t8, v
<1>4. v \in ChannelWorlds /\ v.known = kn /\ v.ts8 = t8 /\ v.chan = w.chan /\ v.invited = w.invited /\ v.mixed = w.mixed
  BY <1>1, <1>2, <1>3 DEF ChannelWorlds
<1>5. \A d : Mixed(v, d) = Mixed(w, d)
  BY <1>4 DEF Mixed
<1>6. ASSUME NEW t \in Servers, NEW d \in Chans PROVE Roomy(t, v.chan[t][d], v.known[t], Mixed(v, d))
  <2>1. Roomy(t, w.chan[t][d], w.known[t], Mixed(w, d))
    BY DEF InOrder
  <2>2. w.known[t] \subseteq kn[t]
    BY <1>2
  <2> QED BY <1>4, <1>5, <2>1, <2>2 DEF Roomy
<1>7. Invitations(v)
  <2>1. ASSUME NEW t \in Servers, NEW d \in Chans, NEW x \in Users, x \in w.chan[t][d].invites
        PROVE  x \in v.known[t]
    BY <1>2, <1>4, <2>1, WorldHas
  <2> QED BY <1>4, <2>1 DEF InOrder, Invitations
<1>8. \A t \in Servers : v.ts8[t] \subseteq v.known[t]
  BY <1>2, <1>4 DEF InOrder
<1>9. InOrder(v)
  BY <1>4, <1>6, <1>7, <1>8 DEF InOrder
<1> QED BY <1>9, <1>10, LineTypes, Passed

LEMMA Join0Holds ==
    ASSUME NEW w, InOrder(w), NEW s \in Servers, NEW n, NEW u \in Users
    PROVE  InOrder(m_join0(w, s, n, u))
<1> DEFINE v == LeaveAll(w, s, u)
<1>1. InOrder(v)
  BY LeaveAllIs
<1>2. m_join0(w, s, n, u) = sendto_match_servs(v, s, n, Line("JOIN 0", u, ""))
  BY DEF m_join0
<1> HIDE DEF v
<1> QED BY <1>1, <1>2, LineTypes, Passed

LEMMA PartHolds ==
    ASSUME NEW w, InOrder(w), NEW s \in Servers, NEW n, NEW u \in Users, NEW c \in Chans
    PROVE  InOrder(m_part(w, s, n, u, c))
<1> DEFINE v == Spoke(w, s, u)
           told == sendto_match_servs(v, s, n, Line("PART", u, c))
           out == remove_user_from_channel(told, s, c, u)
<1>1. m_part(w, s, n, u, c) \in {v, out}
  BY DEF m_part
<1>2. InOrder(v)
  BY SpokeHolds
<1> HIDE DEF v
<1>3. InOrder(told)
  BY <1>2, LineTypes, Passed
<1> HIDE DEF told
<1>4. InOrder(out)
  BY <1>3, LeaveOne DEF Loses
<1> HIDE DEF out
<1> QED BY <1>1, <1>2, <1>4

LEMMA KickHolds ==
    ASSUME NEW w, InOrder(w), NEW s \in Servers, NEW n, NEW x \in Users \cup {Services}, NEW c \in Chans, NEW u \in Users
    PROVE  InOrder(m_kick(w, s, n, x, c, u))
<1> DEFINE v == Spoke(w, s, x)
           k == w.chan[s][c]
           flags == w.chan[s][c].member[u] \cap {"o", "v"}
           ops == {Change(TRUE, f, u) : f \in flags}
           mode == ModeLine(s, c, SetToSeq({Change(TRUE, f, u) : f \in flags}), w.chan[s][c].ts)
           again == <<Line("JOIN", u, c)>> \o (IF flags = {} THEN <<>> ELSE <<mode>>)
           told == sendto_match_servs(v, s, n, KickLine(x, c, u))
           both == sendto_match_servs(told, s, s, Line("PART", u, c))
           answered == IF MyClient(s, u) THEN both ELSE told
           back == sendto_one(v, s, n, again)
           out == remove_user_from_channel(answered, s, c, u)
<1>1. m_kick(w, s, n, x, c, u) \in {v, back, out}
  <2> DEFINE may == x = Services \/ is_chan_op(w, s, c, x)
  <2>1. m_kick(w, s, n, x, c, u) =
          CASE ~IsMember(w, s, c, u) \/ (n = s /\ ~may) -> v
            [] IsMember(w, s, c, u) /\ n # s /\ ~may /\ From(s, u) # n -> back
            [] IsMember(w, s, c, u) /\ (may \/ (n # s /\ From(s, u) = n)) -> out
    BY DEF m_kick
  <2> HIDE DEF v, back, out, may
  <2> QED BY <2>1
<1>2. InOrder(v)
  BY SpokeHolds
<1>3. k \in Channel
  BY WorldHas
<1>4. mode \in Lines
  <2>1. IsFiniteSet(ops)
    <3>1. IsFiniteSet({"o", "v"})
      <4>1. IsFiniteSet({"o"}) /\ IsFiniteSet({"v"})
        BY FS_Singleton
      <4>2. {"o", "v"} = {"o"} \cup {"v"}
        OBVIOUS
      <4> QED BY <4>1, <4>2, FS_Union
    <3>2. IsFiniteSet(flags)
      BY <3>1, FS_Subset
    <3> DEFINE h == [f \in flags |-> Change(TRUE, f, u)]
    <3>3. ops = {h[f] : f \in flags}
      OBVIOUS
    <3> HIDE DEF flags, h, ops
    <3> QED BY <3>2, <3>3, ImageFinite
  <2>2. ops \subseteq Changes
    BY ChangeTypes
  <2>3. SetToSeq(ops) \in Seq(Changes)
    <3> HIDE DEF ops
    <3> QED BY <2>1, <2>2, SetToSeqIs
  <2>4. k.ts \in NoTime .. MaxTime
    <3> HIDE DEF k
    <3>2. k.ts \in 0 .. MaxTime
      BY <1>3 DEF Channel
    <3>3. \A t1 \in 0 .. MaxTime : t1 \in NoTime .. MaxTime
      BY ChannelAssumption DEF NoTime
    <3> QED BY <3>2, <3>3
  <2>5. mode = ModeLine(s, c, SetToSeq(ops), k.ts)
    OBVIOUS
  <2> HIDE DEF mode, ops, k
  <2> QED BY <2>3, <2>4, <2>5, LineTypes
<1>5. again \in Seq(Lines)
  <2> HIDE DEF mode, flags
  <2> DEFINE d == Line("JOIN", u, c)
  <2>1. d \in Lines
    BY LineTypes
  <2> HIDE DEF d
  <2>2. <<d>> \in Seq(Lines) /\ <<mode>> \in Seq(Lines) /\ <<>> \in Seq(Lines)
    BY <1>4, <2>1
  <2>3. again = <<d>> \o (IF flags = {} THEN <<>> ELSE <<mode>>)
    BY DEF d
  <2> HIDE DEF again
  <2>4. (IF flags = {} THEN <<>> ELSE <<mode>>) \in Seq(Lines)
    BY <2>2
  <2> DEFINE e == IF flags = {} THEN <<>> ELSE <<mode>>
  <2> HIDE DEF e
  <2>5. <<d>> \o e \in Seq(Lines)
    BY <2>2, <2>4 DEF e
  <2> QED BY <2>3, <2>5 DEF e
<1> HIDE DEF again, v
<1>6. InOrder(back)
  BY <1>2, <1>5, SentOne DEF InOrder, Sent
<1> HIDE DEF back
<1>7. InOrder(told)
  BY <1>2, LineTypes, Passed
<1> HIDE DEF told
<1>8. InOrder(answered)
  BY <1>7, LineTypes, Passed
<1> HIDE DEF answered
<1>9. InOrder(out)
  BY <1>8, LeaveOne DEF Loses
<1> HIDE DEF out
<1> QED BY <1>1, <1>2, <1>6, <1>9

\* exit_client(): everyone behind a link is gone.
LEMMA ExitClientHolds ==
    ASSUME NEW w, InOrder(w), NEW s \in Servers, NEW n
    PROVE  InOrder(exit_client(w, s, n))
<1> DEFINE S == {u \in w.known[s] : From(s, u) = n}
           A == {v \in ChannelWorlds : InOrder(v)}
           b == w
           step(u, v) == exit_one_client(v, s, n, u)
           W == [T \in SUBSET S |-> A]
           G == [x \in S \X A |-> step(x[1], x[2])]
           pick == [T \in SUBSET S |-> CHOOSE x \in T : TRUE]
<1>1. IsFiniteSet(S) /\ S \subseteq Users
  <2>1. S \subseteq Users
    BY DEF InOrder, ChannelWorlds
  <2> HIDE DEF S
  <2> QED BY <2>1, ChannelAssumption, FS_Subset
<1>2. b \in A
  BY DEF InOrder
<1>3. ASSUME NEW u \in S, NEW v \in A
      PROVE  step(u, v) \in A
  <2>1. InOrder(v) /\ u \in Users
    BY <1>1, <1>3
  <2>2. InOrder(exit_one_client(v, s, n, u))
    BY <2>1, ExitIs
  <2> QED BY <2>2 DEF InOrder
<1>4. \A T \in SUBSET S : T # {} => pick[T] \in T
  OBVIOUS
<1>5. \A T \in SUBSET S : pick[T] = CHOOSE x \in T : TRUE
  BY DEF pick
<1> HIDE DEF pick
<1>6. StepsKeep(S, pick, A, W, G)
  <2>1. ASSUME NEW T \in SUBSET S, T # {}, NEW v \in W[T \ {pick[T]}]
        PROVE  G[<<pick[T], v>>] \in W[T]
    <3>1. T \ {pick[T]} \in SUBSET S /\ pick[T] \in T /\ pick[T] \in S
      BY <1>4, <2>1
    <3>2. v \in A /\ W[T] = A
      BY <2>1, <3>1
    <3> HIDE DEF step, S, A
    <3>3. G[<<pick[T], v>>] = step(pick[T], v)
      BY <3>1, <3>2
    <3> HIDE DEF G, W
    <3> QED BY <1>3, <2>1, <3>1, <3>2, <3>3
  <2>2. \A T \in SUBSET S : W[T] \subseteq A
    OBVIOUS
  <2> HIDE DEF G, W, S, A
  <2> QED BY <2>1, <2>2 DEF StepsKeep
<1>7. b \in W[{}]
  <2> HIDE DEF A, S, b
  <2> QED BY <1>2
<1> HIDE DEF G, step, A
<1>8. PICK g \in [SUBSET S -> A] : Folds(g, S, pick, b, G) /\ \A T \in SUBSET S : g[T] \in W[T]
  <2>1. Picks(pick, S)
    BY <1>4 DEF Picks
  <2> HIDE DEF W, S, b
  <2> QED BY <1>1, <1>6, <1>7, <2>1, FoldStays
<1>9. ASSUME NEW T \in SUBSET S, T # {}
      PROVE  g[T] = step(pick[T], g[T \ {pick[T]}])
  <2> HIDE DEF b, S
  <2>1. g[T \ {pick[T]}] \in A /\ pick[T] \in S
    BY <1>4, <1>8, <1>9
  <2>2. g[T] = G[<<pick[T], g[T \ {pick[T]}]>>]
    BY <1>8, <1>9 DEF Folds
  <2> QED BY <2>1, <2>2 DEF G
<1>10. g[{}] = b
  BY <1>8 DEF Folds
<1>11. g = [T \in SUBSET S |-> IF T = {} THEN b ELSE step(CHOOSE x \in T : TRUE, g[T \ {CHOOSE x \in T : TRUE}])]
  <2>1. \A T \in SUBSET S : g[T] = IF T = {} THEN b ELSE step(pick[T], g[T \ {pick[T]}])
    BY <1>9, <1>10
  <2>2. ASSUME NEW T \in SUBSET S
        PROVE  g[T] = IF T = {} THEN b ELSE step(CHOOSE x \in T : TRUE, g[T \ {CHOOSE x \in T : TRUE}])
    BY <1>5, <2>1
  <2>3. DOMAIN g = SUBSET S /\ g = [T \in SUBSET S |-> g[T]]
    BY <1>8
  <2> QED BY <2>2, <2>3, Zenon
<1>12. PICK h : /\ h = [T \in SUBSET S |-> IF T = {} THEN b ELSE step(CHOOSE x \in T : TRUE, h[T \ {CHOOSE x \in T : TRUE}])]
                /\ exit_client(w, s, n) = h[S]
  BY <1>11 DEF exit_client, FoldSet, MapThenFoldSet, step
<1>13. h[S] = g[S]
  <2>1. g[{}] = h[{}]
    BY <1>10, <1>12
  <2>2. \A T \in SUBSET S : T # {} /\ g[T \ {pick[T]}] = h[T \ {pick[T]}] => g[T] = h[T]
    <3>1. \A T \in SUBSET S : h[T] = IF T = {} THEN b ELSE step(pick[T], h[T \ {pick[T]}])
      BY <1>5, <1>12
    <3> QED BY <1>9, <3>1
  <2>3. Picks(pick, S)
    BY <1>4 DEF Picks
  <2> HIDE DEF S
  <2> QED BY <1>1, <2>1, <2>2, <2>3, SameFold
<1>14. exit_client(w, s, n) \in W[S]
  <2>1. exit_client(w, s, n) = g[S] /\ S \in SUBSET S
    BY <1>12, <1>13
  <2> HIDE DEF W, S
  <2> QED BY <1>8, <2>1
<1>15. exit_client(w, s, n) \in A
  <2>1. S \in SUBSET S
    OBVIOUS
  <2> HIDE DEF S, A
  <2> QED BY <1>14, <2>1
<1> QED BY <1>15 DEF A

\* A ban more is at the head of the list.
Banned(k, b) == [k EXCEPT !.bans = <<b>> \o k.bans]

LEMMA BannedIs ==
    ASSUME NEW s, NEW k \in Channel, NEW K, NEW X, Roomy(s, k, K, X), NEW b \in Bans, b \notin Range(k.bans)
    PROVE  /\ Banned(k, b) \in Channel /\ Banned(k, b).invites = k.invites
           /\ Roomy(s, Banned(k, b), K, X \cup Users)
<1> DEFINE g == Banned(k, b)
           bans == <<b>> \o k.bans
<1>1. k.bans \in Seq(Bans) /\ IsInjective(k.bans)
  BY DEF Channel, Roomy
<1>2. bans \in Seq(Bans) /\ IsInjective(bans) /\ \A x \in Range(k.bans) : x \in Range(bans)
  <2>1. \A r : Range(r) = ToSet(r)
    BY DEF ToSet, Range
  <2> QED BY <1>1, <2>1, AtHead
<1>3. g = [k EXCEPT !.bans = bans]
  BY DEF Banned
<1> HIDE DEF g, bans
<1>4. g \in Channel /\ g.bans = bans /\ g.member = k.member /\ g.invites = k.invites /\ g.on = k.on /\ g.off = k.off
  BY <1>2, <1>3 DEF Channel
<1>5. \A u : Hitting(k, u) \subseteq Hitting(g, u)
  BY <1>2, <1>4 DEF Hitting
<1>6. DOMAIN k.member \subseteq Users
  BY MemberIs DEF Channel
<1>7. Hushed(s, g, X \cup Users)
  BY <1>4, <1>5, <1>6 DEF Roomy, Hushed
<1> QED BY <1>2, <1>4, <1>7 DEF Roomy, g

LEMMA AddBan ==
    ASSUME NEW w, InOrder(w), NEW s \in Servers, NEW c \in Chans, NEW b \in Bans, b \notin Range(w.chan[s][c].bans)
    PROVE  InOrder(add_banid(w, s, c, b))
<1> DEFINE k == w.chan[s][c]
           g == Banned(k, b)
<1>1. add_banid(w, s, c, b) = check_bquiet(PutAt(w, s, c, g), s, c, Users)
  BY DEF add_banid, PutAt, Banned
<1>2. k \in Channel /\ Roomy(s, k, w.known[s], Mixed(w, c))
  BY WorldHas
<1> HIDE DEF k
<1>3. g \in Channel /\ g.invites = k.invites /\ Roomy(s, g, w.known[s], Mixed(w, c) \cup Users)
  BY <1>2, BannedIs DEF k
<1> HIDE DEF g
<1> QED BY <1>1, <1>3, CheckHolds DEF Checks, k

\* A ban less, and who may speak for it.
Freed(k, rest) == [k EXCEPT !.bans = rest, !.member = [u \in DOMAIN k.member |->
                      IF "quiet" \in is_banned(rest, u) THEN k.member[u] ELSE k.member[u] \ {"bquiet"}]]

LEMMA FreedIs ==
    ASSUME NEW s, NEW k \in Channel, NEW K, NEW X, Roomy(s, k, K, X), NEW b,
           NEW rest, rest = Without(k.bans, b)
    PROVE  Freed(k, rest) \in Channel /\ Freed(k, rest).invites = k.invites /\ Roomy(s, Freed(k, rest), K, X)
<1> DEFINE D == DOMAIN k.member
           f(u) == IF "quiet" \in is_banned(rest, u) THEN k.member[u] ELSE k.member[u] \ {"bquiet"}
           m == [u \in D |-> f(u)]
           g == Freed(k, rest)
<1>1. k.bans \in Seq(Bans) /\ IsInjective(k.bans) /\ k.member \in Members
  BY DEF Channel, Roomy
<1>2. rest \in Seq(Bans) /\ IsInjective(rest) /\ Range(rest) = Range(k.bans) \ {b}
  BY <1>1, ShortIs
<1>3. D \in SUBSET Users /\ \A u \in D : k.member[u] \in SUBSET Status
  BY <1>1, MemberIs
<1>4. \A u \in D : m[u] = f(u) /\ f(u) \in SUBSET Status
  BY <1>3
<1>5. m \in Members /\ DOMAIN m = D
  <2> HIDE DEF f
  <2>1. m \in [D -> SUBSET Status]
    BY <1>4
  <2> QED BY <1>3, <2>1 DEF Members
<1>6. g = [[k EXCEPT !.bans = rest] EXCEPT !.member = m]
  BY DEF Freed
<1> HIDE DEF m, g, f
<1>7. g \in Channel /\ g.bans = rest /\ g.member = m /\ g.invites = k.invites /\ g.on = k.on /\ g.off = k.off
  BY <1>2, <1>5, <1>6 DEF Channel
<1>8. \A u : /\ "quiet" \in is_banned(rest, u) => Hitting(g, u) \cap Quiets # {}
             /\ Hitting(g, u) # {} /\ Hitting(g, u) \subseteq Quiets => "quiet" \in is_banned(rest, u)
  <2>1. Range(rest) \subseteq Bans
    BY <1>2 DEF Range
  <2> QED BY <1>2, <1>7, <2>1, QuietIs DEF Hitting
<1>9. \A u : Hitting(g, u) \subseteq Hitting(k, u)
  BY <1>2, <1>7 DEF Hitting
<1>10. ASSUME NEW u \in D, "bquiet" \in m[u] PROVE Hitting(g, u) \cap Quiets # {}
  BY <1>4, <1>8, <1>10 DEF f
<1>11. ASSUME NEW u \in D, MyClient(s, u), Hitting(g, u) \cap Quiets # {}, u \notin X
       PROVE  "bquiet" \in m[u] /\ Hitting(g, u) \subseteq Quiets
  <2>1. Hitting(k, u) \cap Quiets # {}
    BY <1>9, <1>11
  <2>2. "bquiet" \in k.member[u] /\ Hitting(k, u) \subseteq Quiets
    BY <1>11, <2>1 DEF Roomy, Hushed
  <2>3. "quiet" \in is_banned(rest, u)
    BY <1>8, <1>9, <1>11, <2>2
  <2> QED BY <1>4, <1>9, <2>2, <2>3 DEF f
<1>12. Hushed(s, g, X)
  BY <1>5, <1>7, <1>10, <1>11 DEF Hushed
<1> QED BY <1>2, <1>5, <1>7, <1>12 DEF Roomy, g

LEMMA DelBan ==
    ASSUME NEW w, InOrder(w), NEW s \in Servers, NEW c \in Chans, NEW b
    PROVE  InOrder(del_banid(w, s, c, b))
<1> DEFINE k == w.chan[s][c]
           rest == Without(k.bans, b)
           g == Freed(k, rest)
<1>1. del_banid(w, s, c, b) = PutAt(w, s, c, g)
  BY DEF del_banid, PutAt, Freed
<1>2. k \in Channel /\ Roomy(s, k, w.known[s], Mixed(w, c))
  BY WorldHas
<1>3. g \in Channel /\ g.invites = k.invites /\ Roomy(s, g, w.known[s], Mixed(w, c))
  <2> HIDE DEF k
  <2> QED BY <1>2, FreedIs
<1> HIDE DEF g
<1> QED BY <1>1, <1>3, EditHolds

\* Another status of a member, but for the flag of bans.
Ranked(k, u, flags) == [k EXCEPT !.member[u] = flags]

LEMMA RankedHolds ==
    ASSUME NEW w, InOrder(w), NEW s \in Servers, NEW c \in Chans, NEW u, NEW flags,
           u \in DOMAIN w.chan[s][c].member =>
              flags \in SUBSET Status /\ ("bquiet" \in flags <=> "bquiet" \in w.chan[s][c].member[u])
    PROVE  InOrder(PutAt(w, s, c, Ranked(w.chan[s][c], u, flags)))
<1> DEFINE k == w.chan[s][c]
           D == DOMAIN k.member
           m == [k.member EXCEPT ![u] = flags]
           g == Ranked(k, u, flags)
<1>1. k \in Channel /\ Roomy(s, k, w.known[s], Mixed(w, c))
  BY WorldHas
<1>2. D \in SUBSET Users /\ (\A x \in D : k.member[x] \in SUBSET Status) /\ k.member = [x \in D |-> k.member[x]]
  <2> HIDE DEF k
  <2> QED BY <1>1, MemberIs DEF Channel
<1>3. DOMAIN m = D /\ (\A x \in D : m[x] = IF x = u THEN flags ELSE k.member[x]) /\ m = [x \in D |-> m[x]]
  <2>1. DOMAIN m = D /\ m = [x \in D |-> IF x = u THEN flags ELSE k.member[x]]
    BY <1>2
  <2> QED BY <2>1
<1>4. m \in Members
  <2> HIDE DEF m
  <2>1. m \in [D -> SUBSET Status]
    BY <1>2, <1>3
  <2> QED BY <1>2, <2>1 DEF Members
<1>5. g = [k EXCEPT !.member = m]
  BY DEF Ranked
<1> HIDE DEF m, g
<1>6. g \in Channel /\ g.member = m /\ g.bans = k.bans /\ g.invites = k.invites /\ g.on = k.on /\ g.off = k.off
  BY <1>1, <1>4, <1>5 DEF Channel
<1>7. \A x : Hitting(g, x) = Hitting(k, x)
  BY <1>6 DEF Hitting
<1>8. \A x \in D : "bquiet" \in m[x] <=> "bquiet" \in k.member[x]
  BY <1>3
<1>9. Roomy(s, g, w.known[s], Mixed(w, c))
  BY <1>1, <1>3, <1>6, <1>7, <1>8 DEF Roomy, Hushed
<1> QED BY <1>6, <1>9, EditHolds DEF g

\* The state of set_mode() between two changes.
Passes == [w : ChannelWorlds, new : SUBSET Flags, ops : Seq(Args), badop : 0 .. 4, doesop : BOOLEAN,
           doesdeop : BOOLEAN, keychange : BOOLEAN, limitset : BOOLEAN, nolimit : BOOLEAN, bounce : BOOLEAN,
           out : Seq(Changes), back : Seq(Changes), hack : BOOLEAN]
Passing == {r \in Passes : InOrder(r.w)}

LEMMA ChangeIs ==
    ASSUME NEW d \in Changes
    PROVE  /\ d.add \in BOOLEAN /\ (d.mode \in {"o", "v", "b", "k", "l"} \/ d.mode \in Flags)
           /\ d.mode \in {"o", "v", "b", "k", "l"} => d \in Args
           /\ d.mode \in {"o", "v"} => d.arg \in Users
           /\ d.mode = "b" => d.arg \in Bans
           /\ d.mode = "k" => d.arg \in Keys \cup {""}
           /\ d.mode = "l" => d.arg \in Nat
           /\ d.mode \in Flags => d.mode \notin {"o", "v", "b", "k", "l"}
<1>1. Flags \cap {"o", "v", "k", "l", "b"} = {}
  BY ChannelAssumption
<1>2. CASE d \in Args
  BY <1>1, <1>2 DEF Args
<1>3. CASE d \in [add : BOOLEAN, mode : Flags, arg : {""}]
  BY <1>1, <1>3
<1> QED BY <1>2, <1>3 DEF Changes

\* Two more parts of the state.
LEMMA WithOps ==
    ASSUME NEW r \in Passing, NEW ops \in Seq(Args), NEW doesop \in BOOLEAN
    PROVE  [r EXCEPT !.ops = ops, !.doesop = doesop] \in Passing
  BY DEF Passing, Passes

LEMMA TakeStatusHolds ==
    ASSUME NEW r \in Passing, NEW s, NEW n, NEW x, NEW c, NEW hack, NEW d \in Args
    PROVE  TakeStatus(r, s, n, x, c, hack, d) \in Passing
<1> DEFINE ops == Append(r.ops, d)
           opped == r.doesop \/ d.mode = "o"
           taken == [r EXCEPT !.ops = ops, !.doesop = opped]
           bad == WrongOp(r, s, n, x, c, hack, d)
<1>1. r.ops \in Seq(Args) /\ r.badop \in 0 .. 4 /\ r.doesop \in BOOLEAN
  BY DEF Passing, Passes
<1>2. ops \in Seq(Args) /\ opped \in BOOLEAN
  BY <1>1
<1>3. TakeStatus(r, s, n, x, c, hack, d) \in {r, [taken EXCEPT !.badop = bad], [taken EXCEPT !.doesdeop = TRUE]}
  BY DEF TakeStatus
<1>4. bad \in 0 .. 4
  BY <1>1 DEF WrongOp
<1> HIDE DEF ops, opped, bad
<1>5. taken \in Passing
  BY <1>2, WithOps
<1> HIDE DEF taken
<1>6. [taken EXCEPT !.badop = bad] \in Passing
  BY <1>4, <1>5 DEF Passing, Passes
<1>7. [taken EXCEPT !.doesdeop = TRUE] \in Passing
  BY <1>5 DEF Passing, Passes
<1> QED BY <1>3, <1>6, <1>7

LEMMA TakeKeyHolds ==
    ASSUME NEW r \in Passing, NEW s \in Servers, NEW n, NEW x, NEW c \in Chans, NEW hack, NEW d \in Args, d.mode = "k"
    PROVE  TakeKey(r, s, n, x, c, hack, d) \in Passing
<1> DEFINE key == r.w.chan[s][c].key
           e == [d EXCEPT !.arg = IF d.add THEN d.arg ELSE key]
           ops == Append(r.ops, e)
           new == IF d.add THEN r.new \ {"H"} ELSE r.new
           v == [r EXCEPT !.ops = ops, !.keychange = TRUE, !.new = new]
<1>1. r.ops \in Seq(Args) /\ r.new \in SUBSET Flags
  BY DEF Passing, Passes
<1>2. key \in Keys \cup {""}
  <2>1. r.w.chan[s][c] \in Channel
    BY WorldHas DEF Passing
  <2> QED BY <2>1 DEF Channel
<1>3. TakeKey(r, s, n, x, c, hack, d) \in {r, v}
  BY DEF TakeKey
<1> HIDE DEF key
<1>4. e \in Args
  BY <1>2, ChangeIs DEF Args, Changes
<1> HIDE DEF e
<1>5. ops \in Seq(Args) /\ new \in SUBSET Flags
  BY <1>1, <1>4
<1> HIDE DEF ops, new
<1>6. v \in Passing
  BY <1>5 DEF Passing, Passes
<1> QED BY <1>3, <1>6

LEMMA TakeLimitHolds ==
    ASSUME NEW r \in Passing, NEW d \in Args
    PROVE  TakeLimit(r, d) \in Passing
<1> DEFINE ops == IF d.add THEN Append(r.ops, d) ELSE r.ops
           no == ~d.add
           v == [r EXCEPT !.limitset = TRUE, !.nolimit = no, !.ops = ops]
<1>1. r.ops \in Seq(Args)
  BY DEF Passing, Passes
<1>2. ops \in Seq(Args) /\ no \in BOOLEAN
  BY <1>1
<1>3. TakeLimit(r, d) \in {r, v}
  BY DEF TakeLimit
<1> HIDE DEF ops, no
<1>4. v \in Passing
  BY <1>2 DEF Passing, Passes
<1> QED BY <1>3, <1>4

LEMMA TakeFlagHolds ==
    ASSUME NEW r \in Passing, NEW s \in Servers, NEW c \in Chans, NEW d \in Changes, d.mode \in Flags
    PROVE  TakeFlag(r, s, c, d) \in Passing
<1> DEFINE k == r.w.chan[s][c]
           other == IF d.mode = "p" THEN {"s"} ELSE IF d.mode = "s" THEN {"p"} ELSE {}
           hidden == IF k.key # "" THEN {"H"} ELSE {}
           more == ((r.new \ other) \cup {d.mode}) \ hidden
           less == r.new \ {d.mode}
           w1 == Uninvite(r.w, s, c)
           w2 == IF d.mode = "i" THEN Uninvite(r.w, s, c) ELSE r.w
           v == [r EXCEPT !.new = more]
           z == [r EXCEPT !.w = w2, !.new = less]
<1>1. r.new \in SUBSET Flags /\ InOrder(r.w)
  BY DEF Passing, Passes
<1>2. TakeFlag(r, s, c, d) \in {v, z}
  BY DEF TakeFlag
<1>3. more \in SUBSET Flags /\ less \in SUBSET Flags
  BY <1>1
<1>4. InOrder(w1)
  BY <1>1, UninviteIs
<1>5. w2 \in {w1, r.w}
  OBVIOUS
<1> HIDE DEF more, less, w1, w2
<1>6. InOrder(w2) /\ w2 \in ChannelWorlds
  BY <1>1, <1>4, <1>5 DEF InOrder
<1>7. v \in Passing
  BY <1>3 DEF Passing, Passes
<1>8. z \in Passing
  BY <1>3, <1>6 DEF Passing, Passes
<1> QED BY <1>2, <1>7, <1>8

LEMMA TakeHolds ==
    ASSUME NEW r \in Passing, NEW s \in Servers, NEW n, NEW x, NEW c \in Chans, NEW hack, NEW d \in Changes
    PROVE  Take(r, s, n, x, c, hack, d) \in Passing
<1>1. CASE d.mode \in {"o", "v"}
  <2>1. Take(r, s, n, x, c, hack, d) = TakeStatus(r, s, n, x, c, hack, d)
    BY <1>1, ChangeIs DEF Take
  <2>2. d \in Args
    BY <1>1, ChangeIs
  <2> QED BY <2>1, <2>2, TakeStatusHolds
<1>2. CASE d.mode = "k"
  <2>1. Take(r, s, n, x, c, hack, d) = TakeKey(r, s, n, x, c, hack, d)
    BY <1>2, ChangeIs DEF Take
  <2>2. d \in Args
    BY <1>2, ChangeIs
  <2> QED BY <1>2, <2>1, <2>2, TakeKeyHolds
<1>3. CASE d.mode = "b"
  <2> DEFINE ops == Append(r.ops, d)
  <2>1. Take(r, s, n, x, c, hack, d) = [r EXCEPT !.ops = ops]
    BY <1>3, ChangeIs DEF Take
  <2>2. r.ops \in Seq(Args) /\ d \in Args
    BY <1>3, ChangeIs DEF Passing, Passes
  <2>3. ops \in Seq(Args)
    BY <2>2
  <2> HIDE DEF ops
  <2> QED BY <2>1, <2>3 DEF Passing, Passes
<1>4. CASE d.mode = "l"
  <2>1. Take(r, s, n, x, c, hack, d) = TakeLimit(r, d)
    BY <1>4, ChangeIs DEF Take
  <2> QED BY <1>4, <2>1, ChangeIs, TakeLimitHolds
<1>5. CASE d.mode \in Flags
  <2>1. Take(r, s, n, x, c, hack, d) = TakeFlag(r, s, c, d)
    BY <1>5, ChangeIs DEF Take
  <2> QED BY <1>5, <2>1, TakeFlagHolds
<1> QED BY <1>1, <1>2, <1>3, <1>4, <1>5, ChangeIs

\* ReadModes(): the first pass of set_mode().
LEMMA ReadHolds ==
    ASSUME NEW w, InOrder(w), NEW s \in Servers, NEW n, NEW x, NEW c \in Chans, NEW cs \in Seq(Changes), NEW hack \in BOOLEAN
    PROVE  ReadModes(w, s, n, x, c, cs, hack) \in Passing
<1> DEFINE b == [w |-> w, new |-> w.chan[s][c].modes, ops |-> <<>>, badop |-> 0, doesop |-> FALSE, doesdeop |-> FALSE,
                 keychange |-> FALSE, limitset |-> FALSE, nolimit |-> FALSE, bounce |-> FALSE,
                 out |-> <<>>, back |-> <<>>, hack |-> hack]
           q1 == cs
           A == Passing
           B == Changes
           step(r, d) == Take(r, s, n, x, c, hack, d)
           W == [T \in SUBSET DOMAIN q1 |-> A]
           G == [y \in A \X B |-> step(y[1], y[2])]
<1>1. q1 \in Seq(B) /\ b \in A
  <2>1. w \in ChannelWorlds /\ w.chan[s][c] \in Channel
    BY WorldHas
  <2>2. w.chan[s][c].modes \in SUBSET Flags
    BY <2>1 DEF Channel
  <2> DEFINE new == w.chan[s][c].modes
  <2> HIDE DEF new
  <2>3. new \in SUBSET Flags
    BY <2>2 DEF new
  <2>4. <<>> \in Seq(Args) /\ <<>> \in Seq(Changes)
    OBVIOUS
  <2>5. b \in Passes /\ b.w = w
    BY <2>1, <2>3, <2>4 DEF Passes, new
  <2> QED BY <2>5 DEF Passing
<1>2. ASSUME NEW r \in A, NEW d \in B PROVE step(r, d) \in A
  BY <1>2, TakeHolds
<1>3. StepsGo(q1, A, W, G)
  <2>1. ASSUME NEW T \in SUBSET DOMAIN q1, T # {}, NEW u \in W[T \ {Max(T)}]
        PROVE  G[<<u, q1[Max(T)]>>] \in W[T]
    <3>1. T \ {Max(T)} \in SUBSET DOMAIN q1 /\ q1[Max(T)] \in B
      BY <1>1, <2>1, LastPlace, PlaceOf
    <3>2. u \in A /\ W[T] = A
      BY <2>1, <3>1
    <3> HIDE DEF step, q1, A, B
    <3>3. G[<<u, q1[Max(T)]>>] = step(u, q1[Max(T)])
      BY <3>1, <3>2
    <3> HIDE DEF G
    <3> QED BY <1>2, <3>1, <3>2, <3>3
  <2> HIDE DEF G, q1, A
  <2> QED BY <2>1 DEF StepsGo
<1>4. b \in W[{}]
  BY <1>1
<1> HIDE DEF G, step, A, B
<1>5. PICK g \in [SUBSET DOMAIN q1 -> A] :
        FoldsList(g, q1, b, G) /\ \A T \in SUBSET DOMAIN q1 : g[T] \in W[T]
  <2> HIDE DEF W, q1, b
  <2> QED BY <1>1, <1>3, <1>4, ListStays
<1>6. ASSUME NEW T \in SUBSET DOMAIN q1, T # {}
      PROVE  g[T] = step(g[T \ {Max(T)}], q1[Max(T)])
  <2> HIDE DEF b
  <2>1. g[T \ {Max(T)}] \in A /\ q1[Max(T)] \in B
    BY <1>1, <1>6, LastPlace, PlaceOf
  <2>2. g[T] = G[<<g[T \ {Max(T)}], q1[Max(T)]>>]
    BY <1>5, <1>6 DEF FoldsList
  <2> QED BY <2>1, <2>2 DEF G
<1>7. g[{}] = b
  BY <1>5 DEF FoldsList
<1>8. g = [T \in SUBSET DOMAIN q1 |-> IF T = {} THEN b ELSE step(g[T \ {Max(T)}], q1[Max(T)])]
  BY <1>5, <1>6, <1>7
<1>9. PICK h : /\ h = [T \in SUBSET DOMAIN q1 |-> IF T = {} THEN b ELSE step(h[T \ {Max(T)}], q1[Max(T)])]
               /\ ReadModes(w, s, n, x, c, cs, hack) = h[DOMAIN q1]
  BY <1>8 DEF ReadModes, FoldLeft, MapThenFoldSet, step
<1>10. h[DOMAIN q1] = g[DOMAIN q1]
  <2>1. g[{}] = h[{}]
    BY <1>7, <1>9
  <2>2. \A T \in SUBSET DOMAIN q1 : T # {} /\ g[T \ {Max(T)}] = h[T \ {Max(T)}] => g[T] = h[T]
    BY <1>6, <1>9
  <2> HIDE DEF q1
  <2> QED BY <1>1, <2>1, <2>2, SameList
<1>11. ReadModes(w, s, n, x, c, cs, hack) \in A
  <2>1. DOMAIN q1 \in SUBSET DOMAIN q1
    OBVIOUS
  <2> HIDE DEF q1
  <2> QED BY <1>5, <1>9, <1>10, <2>1
<1> QED BY <1>11 DEF A

\* Parts of the state that change.
Sees(r, v) == [r EXCEPT !.w = v]
Bad(r, n) == [r EXCEPT !.badop = n]

LEMMA PassingParts ==
    ASSUME NEW r \in Passing
    PROVE  /\ r.w \in ChannelWorlds /\ InOrder(r.w) /\ r.new \in SUBSET Flags /\ r.ops \in Seq(Args)
           /\ r.out \in Seq(Changes) /\ r.back \in Seq(Changes)
           /\ \A v : InOrder(v) => Sees(r, v) \in Passing
           /\ \A n \in 0 .. 4 : Bad(r, n) \in Passing
           /\ \A d \in Changes : Undo(r, d) \in Passing /\ Told(r, d) \in Passing /\ Told(r, d).w = r.w /\ Undo(r, d).w = r.w
<1>1. /\ r.w \in ChannelWorlds /\ InOrder(r.w) /\ r.new \in SUBSET Flags /\ r.ops \in Seq(Args)
      /\ r.out \in Seq(Changes) /\ r.back \in Seq(Changes)
  BY DEF Passing, Passes
<1>2. \A v : InOrder(v) => Sees(r, v) \in Passing
  <2> SUFFICES ASSUME NEW v, InOrder(v) PROVE Sees(r, v) \in Passing
    OBVIOUS
  <2>1. v \in ChannelWorlds
    BY DEF InOrder
  <2> QED BY <2>1 DEF Passing, Passes, Sees
<1>3. \A n \in 0 .. 4 : Bad(r, n) \in Passing
  BY DEF Passing, Passes, Bad
<1>4. ASSUME NEW d \in Changes
      PROVE  Undo(r, d) \in Passing /\ Told(r, d) \in Passing /\ Told(r, d).w = r.w /\ Undo(r, d).w = r.w
  <2> DEFINE back == Append(r.back, d)
             out == Append(r.out, d)
  <2>1. back \in Seq(Changes) /\ out \in Seq(Changes)
    BY <1>1
  <2>2. Undo(r, d) = [r EXCEPT !.back = back] /\ Told(r, d) = [r EXCEPT !.out = out]
    BY DEF Undo, Told
  <2> HIDE DEF back, out
  <2>3. [r EXCEPT !.back = back] \in Passing /\ [r EXCEPT !.back = back].w = r.w
    BY <2>1 DEF Passing, Passes
  <2>4. [r EXCEPT !.out = out] \in Passing /\ [r EXCEPT !.out = out].w = r.w
    BY <2>1 DEF Passing, Passes
  <2> QED BY <2>2, <2>3, <2>4
<1> QED BY <1>1, <1>2, <1>3, <1>4

LEMMA JudgeHolds ==
    ASSUME NEW r \in Passing, NEW s \in Servers, NEW x, NEW c \in Chans, NEW ts \in NoTime .. MaxTime, NEW hack
    PROVE  Judge(r, s, x, c, ts, hack) \in Passing
<1> DEFINE age == r.w.chan[s][c].ts
           ops == have_ops(r.w, s, c)
           uline == x = Services \/ hack
           takes == [r EXCEPT !.badop = 0, !.w.chan[s][c].ts = ts]
           r0 == [r EXCEPT !.badop = 0]
           r1 == [r EXCEPT !.badop = 1]
           r2 == [r EXCEPT !.badop = 2]
           timed == CASE ts = NoTime -> IF x \in Users THEN r0 ELSE r
                      [] ts = 0 -> r2
                      [] ts > age /\ r.doesdeop -> r2
                      [] ts > age /\ ~r.doesdeop /\ age # 0 /\ ops -> r1
                      [] ts > age /\ ~r.doesdeop /\ (age = 0 \/ ~ops) ->
                           IF age = 0 \/ r.doesop THEN takes ELSE r0
                      [] ts \in 1 .. age /\ ts < age /\ r.doesdeop -> r2
                      [] ts \in 1 .. age /\ ~(ts < age /\ r.doesdeop) ->
                           IF r.badop # 0 /\ age <= now - Recent THEN r
                           ELSE IF r.doesop \/ ~ops THEN takes ELSE r0
           hacked == IF r.doesop /\ ts \in {NoTime, 0} /\ (x \in Servers \/ uline) THEN [timed EXCEPT !.badop = 2] ELSE timed
           all == IF hacked.badop >= 2 /\ uline THEN [hacked EXCEPT !.badop = 4] ELSE hacked
<1>1. Judge(r, s, x, c, ts, hack) = all
  BY DEF Judge
<1>2. r0 \in Passing /\ r1 \in Passing /\ r2 \in Passing
  <2>1. r0 = Bad(r, 0) /\ r1 = Bad(r, 1) /\ r2 = Bad(r, 2)
    BY DEF Bad
  <2> HIDE DEF r0, r1, r2
  <2> QED BY <2>1, PassingParts
<1>3. age \in 0 .. MaxTime /\ MaxTime \in Nat
  <2>1. r.w.chan[s][c] \in Channel
    BY WorldHas, PassingParts
  <2> QED BY <2>1, ChannelAssumption DEF Channel
<1>4. ts \in 0 .. MaxTime => takes \in Passing
  <2> DEFINE w1 == PutAt(r.w, s, c, Timed(r.w.chan[s][c], ts))
  <2>1. takes = Sees(r0, w1)
    BY DEF PutAt, Timed, Sees
  <2>2. ts \in 0 .. MaxTime => InOrder(w1)
    BY TimedIs, PassingParts DEF Puts
  <2> HIDE DEF w1, takes, r0
  <2> QED BY <1>2, <2>1, <2>2, PassingParts
<1> HIDE DEF takes, r0, r1, r2, age, ops
<1>5. timed \in Passing
  <2>1. CASE ts = NoTime
    BY <1>2, <1>3, <2>1 DEF NoTime
  <2>2. CASE ts = 0
    BY <1>2, <1>3, <2>2 DEF NoTime
  <2>3. CASE ts > age /\ ts # 0
    <3>1. ts \in 0 .. MaxTime /\ ts # NoTime /\ ts \notin 1 .. age
      BY <1>3, <2>3 DEF NoTime
    <3> QED BY <1>2, <1>4, <2>3, <3>1
  <2>4. CASE ts \in 1 .. age
    <3>1. ts \in 0 .. MaxTime /\ ts # NoTime /\ ~(ts > age) /\ ts # 0
      BY <1>3, <2>4 DEF NoTime
    <3> QED BY <1>2, <1>4, <2>4, <3>1
  <2>5. ts = NoTime \/ ts = 0 \/ (ts > age /\ ts # 0) \/ ts \in 1 .. age
    BY <1>3 DEF NoTime
  <2> QED BY <2>1, <2>2, <2>3, <2>4, <2>5
<1> HIDE DEF timed
<1>6. hacked \in Passing
  <2>1. hacked \in {timed, Bad(timed, 2)}
    BY DEF Bad
  <2> HIDE DEF hacked
  <2> QED BY <1>5, <2>1, PassingParts
<1> HIDE DEF hacked
<1>7. all \in Passing
  <2>1. all \in {hacked, Bad(hacked, 4)}
    BY DEF Bad
  <2> HIDE DEF all
  <2> QED BY <1>6, <2>1, PassingParts
<1> QED BY <1>1, <1>7

\* The other way round.
LEMMA FlipIs ==
    ASSUME NEW d \in Changes
    PROVE  [d EXCEPT !.add = ~@] \in Changes
<1>0. d.add \in BOOLEAN
  BY ChangeIs
<1> DEFINE b == ~d.add
<1>1. b \in BOOLEAN /\ [d EXCEPT !.add = ~@] = [d EXCEPT !.add = b]
  OBVIOUS
<1> HIDE DEF b
<1>2. CASE d \in Args
  BY <1>1, <1>2 DEF Args, Changes
<1>3. CASE d \in [add : BOOLEAN, mode : Flags, arg : {""}]
  BY <1>1, <1>3 DEF Changes
<1> QED BY <1>2, <1>3 DEF Changes

LEMMA EnterHolds ==
    ASSUME NEW r \in Passing, NEW s \in Servers, NEW c \in Chans, NEW bounce
    PROVE  Enter(r, s, c, bounce) \in Passing
<1> DEFINE k == r.w.chan[s][c]
           on == {Change(TRUE, f, "") : f \in r.new \ k.modes}
           gone == {Change(FALSE, f, "") : f \in k.modes \ r.new}
           flags == SetToSeq({Change(TRUE, f, "") : f \in r.new \ k.modes} \cup
                             {Change(FALSE, f, "") : f \in k.modes \ r.new})
           off == IF r.nolimit /\ k.limit > 0 THEN <<Change(FALSE, "l", k.limit)>> ELSE <<>>
           all == flags \o off
           limit == IF off = <<>> THEN k.limit ELSE 0
           done == [k EXCEPT !.modes = r.new, !.limit = IF off = <<>> THEN @ ELSE 0]
           w1 == PutAt(r.w, s, c, done)
           back == [i \in DOMAIN all |-> [all[i] EXCEPT !.add = ~@]]
           v == [r EXCEPT !.bounce = TRUE, !.back = back]
           z == [r EXCEPT !.out = all, !.w = w1]
<1>1. Enter(r, s, c, bounce) \in {v, z}
  <2>1. [r EXCEPT !.out = all, !.w.chan[s][c] = done] = z
    BY DEF PutAt
  <2>2. Enter(r, s, c, bounce) = IF bounce THEN v ELSE [r EXCEPT !.out = all, !.w.chan[s][c] = done]
    BY DEF Enter
  <2> HIDE DEF v, z
  <2> QED BY <2>1, <2>2
<1>2. k \in Channel /\ k.modes \in SUBSET Flags /\ k.limit \in Nat /\ k.on \cap k.off = {} /\ r.new \in SUBSET Flags
  <2>1. k \in Channel /\ k.on \cap k.off = {}
    BY WorldHas, PassingParts DEF Roomy
  <2> HIDE DEF k
  <2> QED BY <2>1, PassingParts DEF Channel
<1> HIDE DEF k
<1>3. flags \in Seq(Changes)
  <2> DEFINE F == r.new \ k.modes
             E == k.modes \ r.new
             f1 == [f \in F |-> Change(TRUE, f, "")]
             f2 == [f \in E |-> Change(FALSE, f, "")]
  <2>1. IsFiniteSet(F) /\ IsFiniteSet(E)
    <3>1. F \in SUBSET Flags /\ E \in SUBSET Flags
      BY <1>2
    <3> HIDE DEF F, E
    <3> QED BY <3>1, ChannelAssumption, FS_Subset
  <2>2. on = {f1[f] : f \in F} /\ gone = {f2[f] : f \in E}
    OBVIOUS
  <2>3. on \subseteq Changes /\ gone \subseteq Changes
    BY <1>2, ChangeTypes
  <2>4. flags = SetToSeq(on \cup gone)
    OBVIOUS
  <2> HIDE DEF F, E, f1, f2, on, gone, flags
  <2>5. IsFiniteSet(on) /\ IsFiniteSet(gone)
    BY <2>1, <2>2, ImageFinite
  <2>6. IsFiniteSet(on \cup gone) /\ on \cup gone \subseteq Changes
    BY <2>3, <2>5, FS_Union
  <2> QED BY <2>4, <2>6, SetToSeqIs
<1> HIDE DEF flags
<1>4. off \in Seq(Changes)
  <2> DEFINE d == Change(FALSE, "l", k.limit)
  <2>1. d \in Changes
    BY <1>2, ChangeTypes
  <2> HIDE DEF d
  <2>2. <<d>> \in Seq(Changes) /\ <<>> \in Seq(Changes)
    BY <2>1
  <2>3. off \in {<<d>>, <<>>}
    BY DEF d
  <2> HIDE DEF off
  <2> QED BY <2>2, <2>3
<1>5. limit \in Nat /\ done = [k EXCEPT !.modes = r.new, !.limit = limit]
  BY <1>2
<1> HIDE DEF off, limit, done
<1>6. all \in Seq(Changes)
  BY <1>3, <1>4
<1> HIDE DEF all
<1>7. back \in Seq(Changes)
  <2>1. DOMAIN all = 1 .. Len(all) /\ Len(all) \in Nat
    BY <1>6
  <2>2. \A i \in DOMAIN all : [all[i] EXCEPT !.add = ~@] \in Changes
    <3>1. \A i \in DOMAIN all : all[i] \in Changes
      BY <1>6
    <3> QED BY <3>1, FlipIs
  <2>3. back \in [1 .. Len(all) -> Changes]
    BY <2>1, <2>2
  <2> HIDE DEF back
  <2> QED BY <2>1, <2>3
<1>8. /\ done \in Channel /\ done.member = k.member /\ done.bans = k.bans /\ done.invites = k.invites
      /\ done.on = k.on /\ done.off = k.off
  BY <1>2, <1>5 DEF Channel
<1>9. InOrder(w1)
  <2>1. Puts(r.w, s, c, done, r.w.invited, w1)
    BY <1>2, <1>8, PlainEdit, PassingParts DEF k
  <2> QED BY <2>1 DEF Puts
<1> HIDE DEF back, w1
<1>10. v \in Passing
  BY <1>7 DEF Passing, Passes
<1>11. z \in Passing
  <2>1. w1 \in ChannelWorlds
    BY <1>9 DEF InOrder
  <2> QED BY <1>6, <1>9, <2>1 DEF Passing, Passes
<1> QED BY <1>1, <1>10, <1>11

\* Another key, or another limit.
Keyed(k, key) == [k EXCEPT !.key = key]
Limited(k, limit) == [k EXCEPT !.limit = limit]

LEMMA KeyedHolds ==
    ASSUME NEW w, InOrder(w), NEW s \in Servers, NEW c \in Chans, NEW key \in Keys \cup {""}
    PROVE  InOrder(PutAt(w, s, c, Keyed(w.chan[s][c], key)))
<1> DEFINE k == w.chan[s][c]
           g == Keyed(k, key)
<1>1. k \in Channel /\ k.on \cap k.off = {}
  BY WorldHas DEF Roomy
<1> HIDE DEF k
<1>2. g \in Channel /\ g.member = k.member /\ g.bans = k.bans /\ g.invites = k.invites /\ g.on = k.on /\ g.off = k.off
  BY <1>1 DEF Channel, Keyed
<1> HIDE DEF g
<1>3. Puts(w, s, c, g, w.invited, PutAt(w, s, c, g))
  BY <1>1, <1>2, PlainEdit DEF k
<1> QED BY <1>3 DEF k, g, Puts

LEMMA LimitedHolds ==
    ASSUME NEW w, InOrder(w), NEW s \in Servers, NEW c \in Chans, NEW limit \in Nat
    PROVE  InOrder(PutAt(w, s, c, Limited(w.chan[s][c], limit)))
<1> DEFINE k == w.chan[s][c]
           g == Limited(k, limit)
<1>1. k \in Channel /\ k.on \cap k.off = {}
  BY WorldHas DEF Roomy
<1> HIDE DEF k
<1>2. g \in Channel /\ g.member = k.member /\ g.bans = k.bans /\ g.invites = k.invites /\ g.on = k.on /\ g.off = k.off
  BY <1>1 DEF Channel, Limited
<1> HIDE DEF g
<1>3. Puts(w, s, c, g, w.invited, PutAt(w, s, c, g))
  BY <1>1, <1>2, PlainEdit DEF k
<1> QED BY <1>3 DEF k, g, Puts

LEMMA ApplyKeyHolds ==
    ASSUME NEW r \in Passing, NEW s \in Servers, NEW c \in Chans, NEW d \in Args, d.mode = "k"
    PROVE  ApplyKey(r, s, c, d) \in Passing
<1> DEFINE key == r.w.chan[s][c].key
           to == IF d.add THEN d.arg ELSE ""
           e == IF key = "" THEN Change(FALSE, "k", d.arg) ELSE Change(TRUE, "k", key)
           w1 == PutAt(r.w, s, c, Keyed(r.w.chan[s][c], to))
           told == Told(r, d)
           undo == Undo(r, e)
           done == [told EXCEPT !.w.chan[s][c].key = IF d.add THEN d.arg ELSE ""]
<1>1. d \in Changes /\ d.arg \in Keys \cup {""} /\ to \in Keys \cup {""}
  BY ChangeIs, ChangeTypes
<1>2. key \in Keys \cup {""}
  <2>1. r.w.chan[s][c] \in Channel
    BY WorldHas, PassingParts
  <2> QED BY <2>1 DEF Channel
<1>3. told \in Passing /\ told.w = r.w
  BY <1>1, PassingParts
<1> HIDE DEF told
<1>4. done = Sees(told, w1)
  <2>1. [told EXCEPT !.w.chan[s][c].key = to] = Sees(told, PutAt(told.w, s, c, Keyed(told.w.chan[s][c], to)))
    BY DEF Sees, PutAt, Keyed
  <2> QED BY <1>3, <2>1
<1>5. ApplyKey(r, s, c, d) \in {r, undo, done}
  <2>1. ApplyKey(r, s, c, d) = CASE key = to -> r [] key # to /\ r.bounce -> undo [] key # to /\ ~r.bounce -> done
    BY DEF ApplyKey, told
  <2> HIDE DEF undo, done, key, to
  <2> QED BY <2>1
<1> HIDE DEF key, to, done
<1>6. e \in Changes
  BY <1>1, <1>2, ChangeTypes
<1> HIDE DEF e
<1>7. undo \in Passing
  BY <1>6, PassingParts
<1>8. InOrder(w1)
  BY <1>1, KeyedHolds, PassingParts
<1> HIDE DEF w1, undo
<1>9. done \in Passing
  BY <1>3, <1>4, <1>8, PassingParts
<1> QED BY <1>5, <1>7, <1>9

LEMMA ApplyLimitHolds ==
    ASSUME NEW r \in Passing, NEW s \in Servers, NEW c \in Chans, NEW d \in Args, d.mode = "l"
    PROVE  ApplyLimit(r, s, c, d) \in Passing
<1> DEFINE limit == r.w.chan[s][c].limit
           e == Change(limit > 0, "l", limit)
           w1 == PutAt(r.w, s, c, Limited(r.w.chan[s][c], d.arg))
           told == Told(r, d)
           undo == Undo(r, e)
           done == [told EXCEPT !.w.chan[s][c].limit = d.arg]
<1>1. d \in Changes /\ d.arg \in Nat
  BY ChangeIs, ChangeTypes
<1>2. limit \in Nat
  <2>1. r.w.chan[s][c] \in Channel
    BY WorldHas, PassingParts
  <2> QED BY <2>1 DEF Channel
<1>3. told \in Passing /\ told.w = r.w
  BY <1>1, PassingParts
<1> HIDE DEF told
<1>4. done = Sees(told, w1)
  <2>1. done = Sees(told, PutAt(told.w, s, c, Limited(told.w.chan[s][c], d.arg)))
    BY DEF Sees, PutAt, Limited
  <2> QED BY <1>3, <2>1
<1>5. ApplyLimit(r, s, c, d) \in {r, undo, done}
  <2>1. ApplyLimit(r, s, c, d) = CASE limit = d.arg -> r [] limit # d.arg /\ r.bounce -> undo [] limit # d.arg /\ ~r.bounce -> done
    BY DEF ApplyLimit, told
  <2> HIDE DEF undo, done, limit
  <2> QED BY <2>1
<1> HIDE DEF limit, done
<1>6. e \in Changes
  <2> DEFINE some == limit > 0
  <2>1. some \in BOOLEAN
    OBVIOUS
  <2> HIDE DEF some
  <2>2. Change(some, "l", limit) \in Changes
    BY <1>2, <2>1, ChangeTypes
  <2> QED BY <2>2 DEF some
<1> HIDE DEF e
<1>7. undo \in Passing
  BY <1>6, PassingParts
<1>8. InOrder(w1)
  BY <1>1, LimitedHolds, PassingParts
<1> HIDE DEF w1, undo
<1>9. done \in Passing
  BY <1>3, <1>4, <1>8, PassingParts
<1> QED BY <1>5, <1>7, <1>9

LEMMA ApplyStatusHolds ==
    ASSUME NEW r \in Passing, NEW s \in Servers, NEW c \in Chans, NEW x, NEW d \in Args, d.mode \in {"o", "v"}
    PROVE  ApplyStatus(r, s, c, x, d) \in Passing
<1> DEFINE k == r.w.chan[s][c]
           flags == k.member[d.arg]
           news == d.add # (d.mode \in flags)
           keep == IF r.badop \in {2, 4} THEN Told(r, d) ELSE r
           e == [d EXCEPT !.add = ~@]
           f1 == Bounced(flags, d)
           f2 == Flagged(flags, x \in Servers \cup {Services}, r.hack, d)
           w1 == PutAt(r.w, s, c, Ranked(k, d.arg, f1))
           w2 == PutAt(r.w, s, c, Ranked(k, d.arg, f2))
           undo == Undo(keep, e)
           told == Told(r, d)
           un == [undo EXCEPT !.w.chan[s][c].member[d.arg] = f1]
           done == [told EXCEPT !.w.chan[s][c].member[d.arg] = f2]
<1>1. d \in Changes /\ d.add \in BOOLEAN
  BY ChangeIs, ChangeTypes
<1>2. e \in Changes
  BY <1>1, FlipIs
<1>3. told \in Passing /\ told.w = r.w
  BY <1>1, PassingParts
<1>4. keep \in Passing /\ keep.w = r.w
  BY <1>3
<1>5. ApplyStatus(r, s, c, x, d) \in {keep, un, done}
  <2>1. ApplyStatus(r, s, c, x, d) = CASE ~news -> keep [] news /\ r.bounce -> un [] news /\ ~r.bounce -> done
    BY DEF ApplyStatus
  <2> HIDE DEF keep, un, done, news
  <2> QED BY <2>1
<1> HIDE DEF keep, e
<1>6. undo \in Passing /\ undo.w = r.w
  BY <1>2, <1>4, PassingParts
<1> HIDE DEF undo, told
<1>7. un = Sees(undo, w1) /\ done = Sees(told, w2)
  <2>1. un = Sees(undo, PutAt(undo.w, s, c, Ranked(undo.w.chan[s][c], d.arg, f1)))
    BY DEF Sees, PutAt, Ranked
  <2>2. done = Sees(told, PutAt(told.w, s, c, Ranked(told.w.chan[s][c], d.arg, f2)))
    BY DEF Sees, PutAt, Ranked
  <2> QED BY <1>3, <1>6, <2>1, <2>2
<1>8. d.arg \in DOMAIN k.member => /\ f1 \in SUBSET Status /\ ("bquiet" \in f1 <=> "bquiet" \in flags)
                                   /\ f2 \in SUBSET Status /\ ("bquiet" \in f2 <=> "bquiet" \in flags)
  <2> SUFFICES ASSUME d.arg \in DOMAIN k.member
               PROVE  /\ f1 \in SUBSET Status /\ ("bquiet" \in f1 <=> "bquiet" \in flags)
                      /\ f2 \in SUBSET Status /\ ("bquiet" \in f2 <=> "bquiet" \in flags)
    OBVIOUS
  <2>1. k \in Channel
    BY WorldHas, PassingParts
  <2>2. flags \in SUBSET Status
    <3> HIDE DEF k
    <3>1. k.member \in Members
      BY <2>1 DEF Channel
    <3> QED BY <3>1, MemberIs
  <2> HIDE DEF flags
  <2>3. f1 \in SUBSET Status /\ ("bquiet" \in f1 <=> "bquiet" \in flags)
    BY <2>2 DEF Bounced, Status
  <2>4. f2 \in SUBSET Status /\ ("bquiet" \in f2 <=> "bquiet" \in flags)
    <3>1. CASE d.add /\ d.mode = "v"
      BY <2>2, <3>1 DEF Flagged, Status
    <3>2. CASE d.add /\ d.mode = "o"
      BY <2>2, <3>2 DEF Flagged, Status
    <3>3. CASE ~d.add
      BY <2>2, <3>3 DEF Flagged, Status
    <3> QED BY <3>1, <3>2, <3>3
  <2> QED BY <2>3, <2>4
<1>9. InOrder(w1) /\ InOrder(w2)
  <2> HIDE DEF f1, f2
  <2> QED BY <1>8, RankedHolds, PassingParts
<1> HIDE DEF un, done, w1, w2
<1>10. un \in Passing /\ done \in Passing
  BY <1>3, <1>6, <1>7, <1>9, PassingParts
<1> QED BY <1>4, <1>5, <1>10

LEMMA ApplyBanHolds ==
    ASSUME NEW r \in Passing, NEW s \in Servers, NEW c \in Chans, NEW x, NEW d \in Args, d.mode = "b"
    PROVE  ApplyBan(r, s, c, x, d) \in Passing
<1> DEFINE there == d.arg \in Range(r.w.chan[s][c].bans)
           undone == r.bounce /\ x \notin Servers \cup {Services}
           taken == IF d.add THEN MayAddBan(r.w, s, c, x, d.arg) ELSE there
           e == [d EXCEPT !.add = ~@]
           undo == Undo(r, e)
           told == Told(r, d)
           w1 == add_banid(r.w, s, c, d.arg)
           w2 == del_banid(r.w, s, c, d.arg)
           done == [told EXCEPT !.w = IF d.add THEN add_banid(@, s, c, d.arg) ELSE del_banid(@, s, c, d.arg)]
<1>1. d \in Changes /\ d.arg \in Bans
  BY ChangeIs, ChangeTypes
<1>2. e \in Changes
  BY <1>1, FlipIs
<1>3. told \in Passing /\ told.w = r.w
  BY <1>1, PassingParts
<1> HIDE DEF e
<1>4. undo \in Passing
  BY <1>2, PassingParts
<1>5. ApplyBan(r, s, c, x, d) \in {r, undo, done} /\ (ApplyBan(r, s, c, x, d) \in {r, undo} \/ taken)
  <2>1. ApplyBan(r, s, c, x, d) = CASE undone -> (IF d.add = there THEN r ELSE undo)
                                    [] ~undone /\ (r.badop = 2 \/ ~taken) -> r
                                    [] ~undone /\ r.badop # 2 /\ taken -> done
    BY DEF ApplyBan, e
  <2> HIDE DEF undo, done, undone, taken, there
  <2> QED BY <2>1
<1> HIDE DEF undo, told
<1>6. done = Sees(told, IF d.add THEN w1 ELSE w2)
  BY <1>3 DEF Sees
<1>7. InOrder(r.w)
  BY PassingParts
<1>8. taken /\ d.add => InOrder(w1)
  BY <1>1, <1>7, AddBan DEF MayAddBan
<1>9. InOrder(w2)
  BY <1>7, DelBan
<1> HIDE DEF w1, w2, done, taken
<1>10. taken => done \in Passing
  <2>1. taken => InOrder(IF d.add THEN w1 ELSE w2)
    BY <1>8, <1>9
  <2> QED BY <1>3, <1>6, <2>1, PassingParts
<1> QED BY <1>4, <1>5, <1>10

LEMMA ApplyHolds ==
    ASSUME NEW r \in Passing, NEW s \in Servers, NEW c \in Chans, NEW x, NEW d \in Args
    PROVE  Apply(r, s, c, x, d) \in Passing
<1>1. CASE d.mode = "k"
  BY <1>1, ApplyKeyHolds DEF Apply
<1>2. CASE d.mode = "l"
  BY <1>2, ApplyLimitHolds DEF Apply
<1>3. CASE d.mode \in {"o", "v"}
  BY <1>3, ApplyStatusHolds DEF Apply
<1>4. CASE d.mode = "b"
  BY <1>4, ApplyBanHolds DEF Apply
<1>5. d.mode \in {"k", "l", "o", "v", "b"}
  BY DEF Args
<1> QED BY <1>1, <1>2, <1>3, <1>4, <1>5

\* Act(): the second pass of set_mode().
LEMMA ActHolds ==
    ASSUME NEW r \in Passing, NEW s \in Servers, NEW c \in Chans, NEW x
    PROVE  Act(r, s, c, x) \in Passing
<1> DEFINE b == r
           q1 == r.ops
           A == Passing
           B == Args
           step(v, d) == Apply(v, s, c, x, d)
           W == [T \in SUBSET DOMAIN q1 |-> A]
           G == [y \in A \X B |-> step(y[1], y[2])]
<1>1. q1 \in Seq(B) /\ b \in A
  BY PassingParts
<1>2. ASSUME NEW v \in A, NEW d \in B PROVE step(v, d) \in A
  BY <1>2, ApplyHolds
<1>3. StepsGo(q1, A, W, G)
  <2>1. ASSUME NEW T \in SUBSET DOMAIN q1, T # {}, NEW u \in W[T \ {Max(T)}]
        PROVE  G[<<u, q1[Max(T)]>>] \in W[T]
    <3>1. T \ {Max(T)} \in SUBSET DOMAIN q1 /\ q1[Max(T)] \in B
      BY <1>1, <2>1, LastPlace, PlaceOf
    <3>2. u \in A /\ W[T] = A
      BY <2>1, <3>1
    <3> HIDE DEF step, q1, A, B
    <3>3. G[<<u, q1[Max(T)]>>] = step(u, q1[Max(T)])
      BY <3>1, <3>2
    <3> HIDE DEF G
    <3> QED BY <1>2, <3>1, <3>2, <3>3
  <2> HIDE DEF G, q1, A
  <2> QED BY <2>1 DEF StepsGo
<1>4. b \in W[{}]
  BY <1>1
<1> HIDE DEF G, step, A, B
<1>5. PICK g \in [SUBSET DOMAIN q1 -> A] :
        FoldsList(g, q1, b, G) /\ \A T \in SUBSET DOMAIN q1 : g[T] \in W[T]
  <2> HIDE DEF W, q1, b
  <2> QED BY <1>1, <1>3, <1>4, ListStays
<1>6. ASSUME NEW T \in SUBSET DOMAIN q1, T # {}
      PROVE  g[T] = step(g[T \ {Max(T)}], q1[Max(T)])
  <2> HIDE DEF b
  <2>1. g[T \ {Max(T)}] \in A /\ q1[Max(T)] \in B
    BY <1>1, <1>6, LastPlace, PlaceOf
  <2>2. g[T] = G[<<g[T \ {Max(T)}], q1[Max(T)]>>]
    BY <1>5, <1>6 DEF FoldsList
  <2> QED BY <2>1, <2>2 DEF G
<1>7. g[{}] = b
  BY <1>5 DEF FoldsList
<1>8. g = [T \in SUBSET DOMAIN q1 |-> IF T = {} THEN b ELSE step(g[T \ {Max(T)}], q1[Max(T)])]
  BY <1>5, <1>6, <1>7
<1>9. PICK h : /\ h = [T \in SUBSET DOMAIN q1 |-> IF T = {} THEN b ELSE step(h[T \ {Max(T)}], q1[Max(T)])]
               /\ Act(r, s, c, x) = h[DOMAIN q1]
  BY <1>8 DEF Act, FoldLeft, MapThenFoldSet, step
<1>10. h[DOMAIN q1] = g[DOMAIN q1]
  <2>1. g[{}] = h[{}]
    BY <1>7, <1>9
  <2>2. \A T \in SUBSET DOMAIN q1 : T # {} /\ g[T \ {Max(T)}] = h[T \ {Max(T)}] => g[T] = h[T]
    BY <1>6, <1>9
  <2> HIDE DEF q1
  <2> QED BY <1>1, <2>1, <2>2, SameList
<1>11. Act(r, s, c, x) \in A
  <2>1. DOMAIN q1 \in SUBSET DOMAIN q1
    OBVIOUS
  <2> HIDE DEF q1
  <2> QED BY <1>5, <1>9, <1>10, <2>1
<1> QED BY <1>11 DEF A

LEMMA AnswerHolds ==
    ASSUME NEW r \in Passing, NEW s \in Servers, NEW n, NEW c \in Chans, NEW ts
    PROVE  Answer(r, s, n, c, ts) \in Passing
<1> DEFINE age == r.w.chan[s][c].ts
           stamp == IF r.badop = 2 THEN 0 ELSE age
           m == ModeLine(s, c, r.back, IF r.badop = 2 THEN 0 ELSE age)
           w1 == sendto_one(r.w, s, n, <<m>>)
<1>1. Answer(r, s, n, c, ts) \in {r, Sees(r, w1)}
  BY DEF Answer, Sees
<1>2. stamp \in NoTime .. MaxTime
  <2>1. r.w.chan[s][c] \in Channel
    BY WorldHas, PassingParts
  <2>2. age \in 0 .. MaxTime
    BY <2>1 DEF Channel
  <2>3. \A t \in 0 .. MaxTime : t \in NoTime .. MaxTime
    BY ChannelAssumption DEF NoTime
  <2>4. 0 \in 0 .. MaxTime
    BY ChannelAssumption
  <2> HIDE DEF age
  <2> QED BY <2>2, <2>3, <2>4
<1>3. m = ModeLine(s, c, r.back, stamp)
  OBVIOUS
<1> HIDE DEF stamp, m
<1>4. m \in Lines
  BY <1>2, <1>3, LineTypes, PassingParts
<1>5. <<m>> \in Seq(Lines)
  BY <1>4
<1> DEFINE ms == <<m>>
<1> HIDE DEF ms
<1>6. InOrder(sendto_one(r.w, s, n, ms))
  <2>1. ms \in Seq(Lines) /\ r.w \in ChannelWorlds /\ InOrder(r.w)
    BY <1>5, PassingParts DEF ms
  <2> QED BY <2>1, SentOne DEF Sent
<1>7. InOrder(w1)
  BY <1>6 DEF ms
<1> HIDE DEF w1
<1> QED BY <1>1, <1>7, PassingParts

LEMMA SetModeHolds ==
    ASSUME NEW w, InOrder(w), NEW s \in Servers, NEW n, NEW x, NEW c \in Chans, NEW cs \in Seq(Changes),
           NEW ts \in NoTime .. MaxTime, NEW hack \in BOOLEAN
    PROVE  set_mode(w, s, n, x, c, cs, ts, hack) \in Passing
<1> DEFINE read == ReadModes(w, s, n, x, c, cs, hack)
           judged == Judge(read, s, x, c, ts, hack)
           bounce == Bounces(judged, s, x, c)
           entered == Enter(judged, s, c, bounce)
           acted == Act(entered, s, c, x)
<1>1. set_mode(w, s, n, x, c, cs, ts, hack) = Answer(acted, s, n, c, ts)
  BY DEF set_mode, Judged
<1>2. read \in Passing
  BY ReadHolds
<1> HIDE DEF read
<1>3. judged \in Passing
  BY <1>2, JudgeHolds
<1> HIDE DEF judged, bounce
<1>4. entered \in Passing
  BY <1>3, EnterHolds
<1> HIDE DEF entered
<1>5. acted \in Passing
  BY <1>4, ActHolds
<1> HIDE DEF acted
<1> QED BY <1>1, <1>5, AnswerHolds

LEMMA ModeHolds ==
    ASSUME NEW w, InOrder(w), NEW s \in Servers, NEW n, NEW x \in Users \cup Servers \cup {Services}, NEW c \in Chans,
           NEW cs \in Seq(Changes), NEW ts \in NoTime .. MaxTime
    PROVE  InOrder(m_mode(w, s, n, x, c, cs, ts))
<1> DEFINE v == Spoke(w, s, x)
           r == set_mode(v, s, n, x, c, cs, ts, FALSE)
           stamped == (x \in Servers /\ (r.badop = 2 \/ ts # NoTime)) \/ x = Services
           age == IF r.badop = 4 THEN 0 ELSE r.w.chan[s][c].ts
           stamp == IF stamped THEN age ELSE NoTime
           m == ModeLine(x, c, r.out, stamp)
           z == sendto_match_servs(r.w, s, n, m)
<1>1. m_mode(w, s, n, x, c, cs, ts) \in {v, r.w, z}
  <2>1. PassOn(r, s, n, x, c, ts) \in {r.w, z}
    BY DEF PassOn
  <2>2. m_mode(w, s, n, x, c, cs, ts) \in {v, PassOn(r, s, n, x, c, ts)}
    BY DEF m_mode
  <2> HIDE DEF v, r, z
  <2> QED BY <2>1, <2>2
<1>2. InOrder(v)
  BY SpokeHolds
<1> HIDE DEF v
<1>3. r \in Passing
  BY <1>2, SetModeHolds
<1> HIDE DEF r
<1>4. stamp \in NoTime .. MaxTime
  <2>1. r.w.chan[s][c] \in Channel
    BY <1>3, WorldHas, PassingParts
  <2>2. r.w.chan[s][c].ts \in 0 .. MaxTime
    BY <2>1 DEF Channel
  <2>3. \A t \in 0 .. MaxTime : t \in NoTime .. MaxTime
    BY ChannelAssumption DEF NoTime
  <2>4. 0 \in 0 .. MaxTime /\ NoTime \in NoTime .. MaxTime
    BY ChannelAssumption DEF NoTime
  <2> DEFINE own == r.w.chan[s][c].ts
  <2> HIDE DEF own
  <2>5. own \in 0 .. MaxTime /\ stamp \in {own, 0, NoTime}
    BY <2>2 DEF own
  <2> HIDE DEF stamp
  <2> QED BY <2>3, <2>4, <2>5
<1> HIDE DEF stamp
<1>5. m \in Lines
  BY <1>3, <1>4, LineTypes, PassingParts
<1> HIDE DEF m
<1>6. InOrder(r.w) /\ InOrder(z)
  BY <1>3, <1>5, PassingParts, Passed
<1> HIDE DEF z
<1> QED BY <1>1, <1>2, <1>6

LEMMA OpmodeHolds ==
    ASSUME NEW w, InOrder(w), NEW s \in Servers, NEW n, NEW x \in Users, NEW c \in Chans, NEW cs \in Seq(Changes),
           NoTime \in NoTime .. MaxTime
    PROVE  InOrder(m_opmode(w, s, n, x, c, cs))
<1> DEFINE v == Spoke(w, s, x)
           r == set_mode(v, s, n, x, c, cs, NoTime, TRUE)
           m == [kind |-> "OPMODE", who |-> x, chan |-> c, changes |-> r.out]
           z == sendto_match_servs(r.w, s, n, m)
<1>1. m_opmode(w, s, n, x, c, cs) \in {w, r.w, z}
  BY DEF m_opmode, PassHack
<1>2. InOrder(v)
  BY SpokeHolds
<1> HIDE DEF v
<1>3. r \in Passing
  BY <1>2, SetModeHolds
<1> HIDE DEF r
<1>5. m \in Lines
  <2>1. r.out \in Seq(Changes)
    BY <1>3, PassingParts
  <2> DEFINE cs1 == r.out
  <2> HIDE DEF cs1
  <2>2. [kind |-> "OPMODE", who |-> x, chan |-> c, changes |-> cs1] \in Lines
    BY <2>1 DEF Lines, cs1
  <2> QED BY <2>2 DEF cs1
<1> HIDE DEF m
<1>6. InOrder(r.w) /\ InOrder(z)
  BY <1>3, <1>5, PassingParts, Passed
<1> HIDE DEF z
<1> QED BY <1>1, <1>6

\* Another lock, or topic.
Locked(k, lock) == [k EXCEPT !.on = lock.on, !.off = lock.off]
Titled(k, text, when) == [k EXCEPT !.topic = text, !.ttime = when]

LEMMA MlockHolds ==
    ASSUME NEW w, InOrder(w), NEW s \in Servers, NEW n, NEW c \in Chans, NEW lock \in Lock
    PROVE  InOrder(m_mlock(w, s, n, c, lock))
<1> DEFINE k == w.chan[s][c]
           g == Locked(k, lock)
           v == PutAt(w, s, c, g)
           m == [kind |-> "MLOCK", who |-> Services, chan |-> c, lock |-> lock]
           z == sendto_match_servs(v, s, n, m)
<1>1. m_mlock(w, s, n, c, lock) \in {w, z}
  BY DEF m_mlock, PutAt, Locked
<1>2. k \in Channel
  BY WorldHas
<1>3. lock.on \in SUBSET Flags /\ lock.off \in SUBSET Flags /\ lock.on \cap lock.off = {}
  BY DEF Lock
<1> HIDE DEF k
<1>4. g \in Channel /\ g.member = k.member /\ g.bans = k.bans /\ g.invites = k.invites /\ g.on \cap g.off = {}
  <2> DEFINE on == lock.on
             off == lock.off
  <2>1. g = [k EXCEPT !.on = on, !.off = off] /\ on \in SUBSET Flags /\ off \in SUBSET Flags /\ on \cap off = {}
    BY <1>3 DEF Locked
  <2> HIDE DEF on, off, g
  <2> QED BY <1>2, <2>1 DEF Channel
<1> HIDE DEF g
<1>5. InOrder(v)
  BY <1>4, PlainEdit DEF Puts, k
<1>6. m \in Lines
  BY DEF Lines
<1> HIDE DEF v, m
<1>7. InOrder(z)
  BY <1>5, <1>6, Passed
<1> HIDE DEF z
<1> QED BY <1>1, <1>7

LEMMA TimeIs ==
    ASSUME NEW t \in 1 .. MaxTime
    PROVE  t \in 0 .. MaxTime
  OBVIOUS

LEMMA TopicHolds ==
    ASSUME NEW w, InOrder(w), NEW s \in Servers, NEW n, NEW x \in Users \cup Servers, NEW c \in Chans,
           NEW text \in Texts \cup {""}, NEW ts \in 0 .. MaxTime, now \in 1 .. MaxTime
    PROVE  InOrder(m_topic(w, s, n, x, c, text, ts))
<1> DEFINE k == w.chan[s][c]
           dated == ts # 0 /\ x \notin Users
           when == IF ts # 0 /\ (dated \/ n # s) THEN ts ELSE now
           g == Titled(k, text, when)
           v == PutAt(w, s, c, g)
           m == TopicLine(x, c, text, when)
           z == sendto_match_servs(v, s, n, m)
<1>1. m_topic(w, s, n, x, c, text, ts) \in {w, z}
  BY DEF m_topic, PutAt, Titled
<1>2. k \in Channel /\ k.on \cap k.off = {}
  BY WorldHas DEF Roomy
<1>3. when \in 0 .. MaxTime
  <2>1. when \in {ts, now}
    OBVIOUS
  <2>2. now \in 0 .. MaxTime
    BY TimeIs
  <2> HIDE DEF when
  <2> QED BY <2>1, <2>2
<1> HIDE DEF k, when
<1>4. g \in Channel /\ g.member = k.member /\ g.bans = k.bans /\ g.invites = k.invites /\ g.on = k.on /\ g.off = k.off
  BY <1>2, <1>3 DEF Channel, Titled
<1> HIDE DEF g
<1>5. InOrder(v)
  BY <1>2, <1>4, PlainEdit DEF Puts, k
<1>6. m \in Lines
  BY <1>3, LineTypes
<1> HIDE DEF v, m
<1>7. InOrder(z)
  BY <1>5, <1>6, Passed
<1> HIDE DEF z
<1> QED BY <1>1, <1>7

\* The guest of a channel gets a note of it.
Invited(w, s, c, u) == [w EXCEPT !.chan[s][c].invites = @ \cup {u}, !.invited[u] = Append(@, c)]

LEMMA InvitedHolds ==
    ASSUME NEW w, InOrder(w), NEW s \in Servers, NEW c \in Chans, NEW u \in Users, Home[u] = s, u \in w.known[s],
           c \notin Range(w.invited[u])
    PROVE  InOrder(Invited(w, s, c, u))
<1> DEFINE v == Invited(w, s, c, u)
           k == w.chan[s][c]
           g == WithGuests(k, k.invites \cup {u})
           list == Append(w.invited[u], c)
           inv == [w.invited EXCEPT ![u] = list]
<1>1. v = PutBoth(w, s, c, g, inv)
  BY DEF Invited, PutBoth, PutAt, WithGuests
<1>2. k \in Channel /\ Roomy(s, k, w.known[s], Mixed(w, c))
  BY WorldHas
<1>3. k.invites \cup {u} \in SUBSET Users
  BY <1>2 DEF Channel
<1>4. g \in Channel /\ g.invites = k.invites \cup {u} /\ Roomy(s, g, w.known[s], Mixed(w, c))
  <2> HIDE DEF k
  <2> QED BY <1>2, <1>3, GuestsOnly DEF Alike
<1>5. \A x \in Users : /\ w.invited[x] \in Seq(Chans) /\ IsInjective(w.invited[x])
                       /\ x \in k.invites <=> Home[x] = s /\ c \in Range(w.invited[x])
                       /\ x \in k.invites => x \in w.known[s]
  BY WorldHas
<1>6. w.invited \in [Users -> Seq(Chans)]
  BY DEF InOrder, ChannelWorlds
<1>7. list \in Seq(Chans) /\ IsInjective(list) /\ Range(list) = Range(w.invited[u]) \cup {c}
  <2> DEFINE old == w.invited[u]
  <2>1. old \in Seq(Chans) /\ IsInjective(old) /\ c \notin Range(old)
    BY <1>5
  <2> HIDE DEF old
  <2>2. /\ Append(old, c) \in Seq(Chans) /\ DOMAIN old = 1 .. Len(old) /\ Len(old) \in Nat
        /\ DOMAIN Append(old, c) = 1 .. Len(old) + 1
        /\ \A i \in 1 .. Len(old) + 1 : Append(old, c)[i] = IF i = Len(old) + 1 THEN c ELSE old[i]
    BY <2>1
  <2> DEFINE new == Append(old, c)
  <2> HIDE DEF new
  <2>3. /\ new \in Seq(Chans) /\ DOMAIN old = 1 .. Len(old) /\ Len(old) \in Nat
        /\ DOMAIN new = 1 .. Len(old) + 1
        /\ \A i \in 1 .. Len(old) + 1 : new[i] = IF i = Len(old) + 1 THEN c ELSE old[i]
    BY <2>2 DEF new
  <2>4. \A i \in DOMAIN new : i = Len(old) + 1 \/ i \in DOMAIN old
    BY <2>3
  <2>5. \A i \in DOMAIN old : old[i] # c /\ i \in DOMAIN new /\ new[i] = old[i] /\ i # Len(old) + 1
    BY <2>1, <2>3 DEF Range
  <2>6. IsInjective(new)
    <3> SUFFICES ASSUME NEW i \in DOMAIN new, NEW j \in DOMAIN new, new[i] = new[j] PROVE i = j
      BY DEF IsInjective
    <3>1. CASE i \in DOMAIN old /\ j \in DOMAIN old
      BY <2>1, <2>5, <3>1 DEF IsInjective
    <3>2. CASE ~(i \in DOMAIN old /\ j \in DOMAIN old)
      BY <2>3, <2>4, <2>5, <3>2
    <3> QED BY <3>1, <3>2
  <2>7. Len(old) + 1 \in DOMAIN new /\ new[Len(old) + 1] = c
    BY <2>3
  <2>8. Range(new) = Range(old) \cup {c}
    BY <2>3, <2>4, <2>5, <2>7 DEF Range
  <2> QED BY <2>3, <2>6, <2>8 DEF new, old
<1> HIDE DEF list
<1>8. inv \in [Users -> Seq(Chans)] /\ \A x \in Users : inv[x] = IF x = u THEN list ELSE w.invited[x]
  BY <1>6, <1>7
<1> HIDE DEF inv, g, k, v
<1>10. Matching(w, s, c, g, inv)
  BY <1>4, <1>5, <1>7, <1>8 DEF Matching
<1>11. InOrder(v)
  BY <1>1, <1>4, <1>8, <1>10, PutBothHolds DEF Puts
<1> QED BY <1>11 DEF v

LEMMA AddInvite ==
    ASSUME NEW w, InOrder(w), NEW s \in Servers, NEW c \in Chans, NEW u \in Users, Home[u] = s, u \in w.known[s]
    PROVE  InOrder(add_invite(w, s, c, u))
<1> DEFINE v == del_invite(w, s, c, u)
           full == del_invite(v, s, Head(v.invited[u]), u)
           room == IF Len(v.invited[u]) < MaxChannels[u] THEN v ELSE full
<1>1. add_invite(w, s, c, u) = Invited(room, s, c, u)
  BY DEF add_invite, Invited
<1>2. InOrder(v) /\ v.known = w.known /\ c \notin Range(v.invited[u])
  <2>1. Uninvites(w, s, c, u, v)
    BY DelInvite
  <2> HIDE DEF v
  <2>2. w.invited \in [Users -> Seq(Chans)] /\ w.invited[u] \in Seq(Chans) /\ IsInjective(w.invited[u])
    BY WorldHas DEF InOrder, ChannelWorlds
  <2>3. v.invited[u] = Without(w.invited[u], c)
    BY <2>1, <2>2 DEF Uninvites
  <2> QED BY <2>1, <2>2, <2>3, ShortIs DEF Uninvites, Beside
<1>3. ~(Len(v.invited[u]) < MaxChannels[u]) => InOrder(full) /\ full.known = w.known /\ c \notin Range(full.invited[u])
  <2> SUFFICES ASSUME ~(Len(v.invited[u]) < MaxChannels[u])
               PROVE  InOrder(full) /\ full.known = w.known /\ c \notin Range(full.invited[u])
    OBVIOUS
  <2> DEFINE d == Head(v.invited[u])
             list == v.invited[u]
  <2> HIDE DEF v
  <2>1. v.invited \in [Users -> Seq(Chans)] /\ list \in Seq(Chans) /\ IsInjective(list)
    BY <1>2, WorldHas DEF InOrder, ChannelWorlds
  <2>2. MaxChannels[u] \in Nat \ {0}
    BY ChannelAssumption
  <2>3. d \in Chans
    <3> HIDE DEF list
    <3>1. list # <<>>
      BY <2>1, <2>2 DEF list
    <3>2. Head(list) \in Chans
      BY <2>1, <3>1
    <3> QED BY <3>2 DEF list
  <2> HIDE DEF d
  <2>4. Uninvites(v, s, d, u, del_invite(v, s, d, u))
    BY <1>2, <2>3, DelInvite
  <2> DEFINE f == del_invite(v, s, d, u)
  <2>5. Uninvites(v, s, d, u, f) /\ f = full
    BY <2>4 DEF d
  <2> HIDE DEF f, full
  <2>6. f.invited[u] = Without(list, d)
    BY <2>1, <2>5 DEF Uninvites
  <2>7. Range(Without(list, d)) = Range(list) \ {d}
    BY <2>1, ShortIs
  <2> QED BY <1>2, <2>5, <2>6, <2>7 DEF Uninvites, Beside
<1> HIDE DEF v, full
<1>4. InOrder(room) /\ room.known = w.known /\ c \notin Range(room.invited[u])
  BY <1>2, <1>3
<1> HIDE DEF room
<1> QED BY <1>1, <1>4, InvitedHolds

LEMMA InviteHolds ==
    ASSUME NEW w, InOrder(w), NEW s \in Servers, NEW x \in Users, NEW c \in Chans, NEW u \in Users
    PROVE  InOrder(m_invite(w, s, x, c, u))
<1> DEFINE host == x = Services \/ is_chan_op(w, s, c, x)
           may == /\ Exists(w, s, c) /\ u \in w.known[s] /\ ~IsMember(w, s, c, u)
                  /\ host \/ (IsMember(w, s, c, x) /\ "i" \notin w.chan[s][c].modes)
           m == [kind |-> "INVITE", who |-> x, chan |-> c, guest |-> u]
           on == sendto_one(w, s, From(s, u), <<m>>)
           in == add_invite(w, s, c, u)
<1>1. m_invite(w, s, x, c, u) \in {w, in, on} /\ (m_invite(w, s, x, c, u) \in {w, on} \/ (may /\ Home[u] = s))
  <2>1. m_invite(w, s, x, c, u) = CASE ~may \/ (Home[u] = s /\ ~host) -> w
                                    [] may /\ Home[u] = s /\ host -> in
                                    [] may /\ Home[u] # s -> on
    BY DEF m_invite
  <2> HIDE DEF may, host, in, on
  <2> QED BY <2>1
<1>2. may /\ Home[u] = s => InOrder(in)
  BY AddInvite
<1>3. <<m>> \in Seq(Lines)
  <2>1. m \in Lines
    BY DEF Lines
  <2> HIDE DEF m
  <2> QED BY <2>1
<1> DEFINE ms == <<m>>
<1> HIDE DEF ms
<1>4. InOrder(sendto_one(w, s, From(s, u), ms))
  <2>1. ms \in Seq(Lines) /\ w \in ChannelWorlds
    BY <1>3 DEF ms, InOrder
  <2> QED BY <2>1, SentOne DEF Sent
<1>5. InOrder(on)
  BY <1>4 DEF ms
<1> HIDE DEF may, in, on
<1> QED BY <1>1, <1>2, <1>5

\* What is said of a channel on a new link.
LEMMA SeqOn ==
    ASSUME NEW S, NEW p \in Seq(S), NEW r \in Seq(S)
    PROVE  p \o r \in Seq(S)
  OBVIOUS

LEMMA ListIs ==
    ASSUME NEW S, NEW p \in Seq(S)
    PROVE  DOMAIN p = 1 .. Len(p) /\ Len(p) \in Nat /\ \A i \in DOMAIN p : p[i] \in S
  OBVIOUS

LEMMA OneOf ==
    ASSUME NEW S, NEW x \in S
    PROVE  <<x>> \in Seq(S) /\ <<>> \in Seq(S)
  OBVIOUS

LEMMA ModesSent ==
    ASSUME NEW k \in Channel, NEW s \in Servers, NEW c \in Chans
    PROVE  send_channel_modes(k, s, c) \in Seq(Lines)
<1> DEFINE With(f) == SetToSeq({Change(TRUE, f, u) : u \in {m \in DOMAIN k.member : f \in k.member[m]}})
           flags == SetToSeq({Change(TRUE, f, "") : f \in k.modes})
           limit == IF k.limit > 0 THEN <<Change(TRUE, "l", k.limit)>> ELSE <<>>
           key == IF k.key # "" THEN <<Change(TRUE, "k", k.key)>> ELSE <<>>
           modes == flags \o limit \o key \o With("o")
           bans == [b \in DOMAIN k.bans |-> Change(TRUE, "b", k.bans[b])]
           l1 == IF k.ts # 0 THEN <<ModeLine(s, c, modes, k.ts)>> ELSE IF modes = <<>> THEN <<>> ELSE <<ModeLine(s, c, modes, NoTime)>>
           l2 == IF bans = <<>> THEN <<>> ELSE <<ModeLine(s, c, bans, NoTime)>>
           l3 == IF With("v") = <<>> THEN <<>> ELSE <<ModeLine(s, c, With("v"), NoTime)>>
           l4 == IF k.ttime = 0 THEN <<>> ELSE <<TopicLine(s, c, k.topic, k.ttime)>>
<1>1. send_channel_modes(k, s, c) = l1 \o l2 \o l3 \o l4
  BY DEF send_channel_modes
<1>2. /\ k.member \in Members /\ k.ts \in 0 .. MaxTime /\ k.modes \in SUBSET Flags /\ k.key \in Keys \cup {""}
      /\ k.limit \in Nat /\ k.bans \in Seq(Bans) /\ k.topic \in Texts \cup {""} /\ k.ttime \in 0 .. MaxTime
  BY DEF Channel
<1>3. \A f \in {"o", "v"} : With(f) \in Seq(Changes)
  <2> SUFFICES ASSUME NEW f \in {"o", "v"} PROVE With(f) \in Seq(Changes)
    OBVIOUS
  <2> DEFINE us == {m \in DOMAIN k.member : f \in k.member[m]}
             g == [u \in us |-> Change(TRUE, f, u)]
             cs == {Change(TRUE, f, u) : u \in us}
  <2>1. us \in SUBSET Users
    BY <1>2, MemberIs
  <2>2. IsFiniteSet(us)
    <3> HIDE DEF us
    <3> QED BY <2>1, ChannelAssumption, FS_Subset
  <2>3. cs = {g[u] : u \in us}
    OBVIOUS
  <2>4. cs \subseteq Changes
    BY <2>1, ChangeTypes
  <2>5. With(f) = SetToSeq(cs)
    OBVIOUS
  <2> HIDE DEF us, g, cs, With
  <2>6. IsFiniteSet(cs)
    BY <2>2, <2>3, ImageFinite
  <2> QED BY <2>4, <2>5, <2>6, SetToSeqIs
<1> HIDE DEF With
<1>4. flags \in Seq(Changes)
  <2> DEFINE F == k.modes
             g == [f \in F |-> Change(TRUE, f, "")]
             cs == {Change(TRUE, f, "") : f \in F}
  <2>1. IsFiniteSet(F)
    <3>1. F \in SUBSET Flags
      BY <1>2
    <3> HIDE DEF F
    <3> QED BY <3>1, ChannelAssumption, FS_Subset
  <2>2. cs = {g[f] : f \in F}
    OBVIOUS
  <2>3. cs \subseteq Changes
    BY <1>2, ChangeTypes
  <2>4. flags = SetToSeq(cs)
    OBVIOUS
  <2> HIDE DEF F, g, cs, flags
  <2>5. IsFiniteSet(cs)
    BY <2>1, <2>2, ImageFinite
  <2> QED BY <2>3, <2>4, <2>5, SetToSeqIs
<1>5. limit \in Seq(Changes) /\ key \in Seq(Changes)
  <2> DEFINE d == Change(TRUE, "l", k.limit)
             e == Change(TRUE, "k", k.key)
  <2>1. d \in Changes /\ e \in Changes
    BY <1>2, ChangeTypes
  <2>2. limit \in {<<d>>, <<>>} /\ key \in {<<e>>, <<>>}
    OBVIOUS
  <2> HIDE DEF d, e, limit, key
  <2> QED BY <2>1, <2>2, OneOf
<1> HIDE DEF flags, limit, key
<1>6. modes \in Seq(Changes)
  BY <1>3, <1>4, <1>5, SeqOn
<1>7. bans \in Seq(Changes)
  <2>1. DOMAIN k.bans = 1 .. Len(k.bans) /\ Len(k.bans) \in Nat /\ \A b \in DOMAIN k.bans : k.bans[b] \in Bans
    BY <1>2, ListIs
  <2>2. \A b \in DOMAIN k.bans : Change(TRUE, "b", k.bans[b]) \in Changes
    BY <2>1, ChangeTypes
  <2>3. bans \in [1 .. Len(k.bans) -> Changes]
    BY <2>1, <2>2
  <2> HIDE DEF bans
  <2> QED BY <2>1, <2>3
<1> HIDE DEF modes, bans
<1>8. k.ts \in NoTime .. MaxTime /\ NoTime \in NoTime .. MaxTime
  <2>1. \A t \in 0 .. MaxTime : t \in NoTime .. MaxTime
    BY ChannelAssumption DEF NoTime
  <2>2. NoTime \in NoTime .. MaxTime
    BY ChannelAssumption DEF NoTime
  <2> QED BY <1>2, <2>1, <2>2
<1>9. l1 \in Seq(Lines) /\ l2 \in Seq(Lines) /\ l3 \in Seq(Lines) /\ l4 \in Seq(Lines)
  <2> DEFINE a == ModeLine(s, c, modes, k.ts)
             b == ModeLine(s, c, modes, NoTime)
             d == ModeLine(s, c, bans, NoTime)
             e == ModeLine(s, c, With("v"), NoTime)
             t == TopicLine(s, c, k.topic, k.ttime)
  <2>1. a \in Lines /\ b \in Lines /\ d \in Lines /\ e \in Lines
    BY <1>3, <1>6, <1>7, <1>8, LineTypes
  <2>2. t \in Lines
    BY <1>2, LineTypes
  <2>3. l1 \in {<<a>>, <<b>>, <<>>} /\ l2 \in {<<d>>, <<>>} /\ l3 \in {<<e>>, <<>>} /\ l4 \in {<<t>>, <<>>}
    OBVIOUS
  <2> HIDE DEF a, b, d, e, t, l1, l2, l3, l4
  <2> QED BY <2>1, <2>2, <2>3, OneOf
<1> HIDE DEF l1, l2, l3, l4
<1>10. l1 \o l2 \o l3 \o l4 \in Seq(Lines)
  BY <1>9, SeqOn
<1> QED BY <1>1, <1>10

LEMMA UsersSent ==
    ASSUME NEW w, InOrder(w), NEW s \in Servers
    PROVE  send_users(w, s) \in Seq(Lines)
<1> DEFINE S == w.known[s]
           A == Seq(Lines)
           b == <<>>
           User(u) == <<Line("NICK", u, "")>> \o SetToSeq({Line("JOIN", u, c) : c \in Joined(w, s, u)})
           step(u, ms) == ms \o User(u)
           W == [T \in SUBSET S |-> A]
           G == [x \in S \X A |-> step(x[1], x[2])]
           pick == [T \in SUBSET S |-> CHOOSE x \in T : TRUE]
<1>1. IsFiniteSet(S) /\ S \subseteq Users
  <2>1. S \subseteq Users
    BY WorldHas DEF InOrder, ChannelWorlds
  <2> HIDE DEF S
  <2> QED BY <2>1, ChannelAssumption, FS_Subset
<1>2. b \in A
  OBVIOUS
<1>3. ASSUME NEW u \in S, NEW ms \in A
      PROVE  step(u, ms) \in A
  <2> DEFINE cs == Joined(w, s, u)
             g == [c \in cs |-> Line("JOIN", u, c)]
             js == {Line("JOIN", u, c) : c \in cs}
             nick == Line("NICK", u, "")
  <2>1. cs \in SUBSET Chans /\ u \in Users
    BY <1>1 DEF Joined
  <2>2. js \subseteq Lines /\ nick \in Lines
    BY <2>1, LineTypes
  <2>3. js = {g[c] : c \in cs} /\ User(u) = <<nick>> \o SetToSeq(js)
    OBVIOUS
  <2> HIDE DEF cs, g, js, nick, User
  <2>4. IsFiniteSet(cs)
    BY <2>1, ChannelAssumption, FS_Subset
  <2>5. IsFiniteSet(js)
    BY <2>3, <2>4, ImageFinite
  <2>6. SetToSeq(js) \in Seq(Lines)
    BY <2>2, <2>5, SetToSeqIs
  <2>7. User(u) \in Seq(Lines)
    BY <2>2, <2>3, <2>6, OneOf, SeqOn
  <2> QED BY <2>7, SeqOn
<1> HIDE DEF User
<1>4. \A T \in SUBSET S : T # {} => pick[T] \in T
  OBVIOUS
<1>5. \A T \in SUBSET S : pick[T] = CHOOSE x \in T : TRUE
  BY DEF pick
<1> HIDE DEF pick
<1>6. StepsKeep(S, pick, A, W, G)
  <2>1. ASSUME NEW T \in SUBSET S, T # {}, NEW v \in W[T \ {pick[T]}]
        PROVE  G[<<pick[T], v>>] \in W[T]
    <3>1. T \ {pick[T]} \in SUBSET S /\ pick[T] \in T /\ pick[T] \in S
      BY <1>4, <2>1
    <3>2. v \in A /\ W[T] = A
      BY <2>1, <3>1
    <3> HIDE DEF step, S, A
    <3>3. G[<<pick[T], v>>] = step(pick[T], v)
      BY <3>1, <3>2
    <3> HIDE DEF G, W
    <3> QED BY <1>3, <2>1, <3>1, <3>2, <3>3
  <2>2. \A T \in SUBSET S : W[T] \subseteq A
    OBVIOUS
  <2> HIDE DEF G, W, S, A
  <2> QED BY <2>1, <2>2 DEF StepsKeep
<1>7. b \in W[{}]
  <2> HIDE DEF A, S, b
  <2> QED BY <1>2
<1> HIDE DEF G, step, A
<1>8. PICK g \in [SUBSET S -> A] : Folds(g, S, pick, b, G) /\ \A T \in SUBSET S : g[T] \in W[T]
  <2>1. Picks(pick, S)
    BY <1>4 DEF Picks
  <2> HIDE DEF W, S, b
  <2> QED BY <1>1, <1>6, <1>7, <2>1, FoldStays
<1>9. ASSUME NEW T \in SUBSET S, T # {}
      PROVE  g[T] = step(pick[T], g[T \ {pick[T]}])
  <2> HIDE DEF b, S
  <2>1. g[T \ {pick[T]}] \in A /\ pick[T] \in S
    BY <1>4, <1>8, <1>9
  <2>2. g[T] = G[<<pick[T], g[T \ {pick[T]}]>>]
    BY <1>8, <1>9 DEF Folds
  <2> QED BY <2>1, <2>2 DEF G
<1>10. g[{}] = b
  BY <1>8 DEF Folds
<1>11. g = [T \in SUBSET S |-> IF T = {} THEN b ELSE step(CHOOSE x \in T : TRUE, g[T \ {CHOOSE x \in T : TRUE}])]
  <2>1. \A T \in SUBSET S : g[T] = IF T = {} THEN b ELSE step(pick[T], g[T \ {pick[T]}])
    BY <1>9, <1>10
  <2>2. ASSUME NEW T \in SUBSET S
        PROVE  g[T] = IF T = {} THEN b ELSE step(CHOOSE x \in T : TRUE, g[T \ {CHOOSE x \in T : TRUE}])
    BY <1>5, <2>1
  <2>3. DOMAIN g = SUBSET S /\ g = [T \in SUBSET S |-> g[T]]
    BY <1>8
  <2> QED BY <2>2, <2>3, Zenon
<1>12. PICK h : /\ h = [T \in SUBSET S |-> IF T = {} THEN b ELSE step(CHOOSE x \in T : TRUE, h[T \ {CHOOSE x \in T : TRUE}])]
                /\ send_users(w, s) = h[S]
  BY <1>11 DEF send_users, User, FoldSet, MapThenFoldSet, step
<1>13. h[S] = g[S]
  <2>1. g[{}] = h[{}]
    BY <1>10, <1>12
  <2>2. \A T \in SUBSET S : T # {} /\ g[T \ {pick[T]}] = h[T \ {pick[T]}] => g[T] = h[T]
    <3>1. \A T \in SUBSET S : h[T] = IF T = {} THEN b ELSE step(pick[T], h[T \ {pick[T]}])
      BY <1>5, <1>12
    <3> QED BY <1>9, <3>1
  <2>3. Picks(pick, S)
    BY <1>4 DEF Picks
  <2> HIDE DEF S
  <2> QED BY <1>1, <2>1, <2>2, <2>3, SameFold
<1>14. send_users(w, s) \in W[S]
  <2>1. send_users(w, s) = g[S] /\ S \in SUBSET S
    BY <1>12, <1>13
  <2> HIDE DEF W, S
  <2> QED BY <1>8, <2>1
<1>15. send_users(w, s) \in A
  <2>1. S \in SUBSET S
    OBVIOUS
  <2> HIDE DEF S, A
  <2> QED BY <1>14, <2>1
<1> QED BY <1>15 DEF A

LEMMA ChannelsSent ==
    ASSUME NEW w, InOrder(w), NEW s \in Servers
    PROVE  send_channels(w, s) \in Seq(Lines)
<1> DEFINE S == {c \in Chans : Exists(w, s, c)}
           A == Seq(Lines)
           b == <<>>
           step(c, ms) == ms \o send_channel_modes(w.chan[s][c], s, c)
           W == [T \in SUBSET S |-> A]
           G == [x \in S \X A |-> step(x[1], x[2])]
           pick == [T \in SUBSET S |-> CHOOSE x \in T : TRUE]
<1>1. IsFiniteSet(S) /\ S \subseteq Chans
  <2>1. S \subseteq Chans
    OBVIOUS
  <2> HIDE DEF S
  <2> QED BY <2>1, ChannelAssumption, FS_Subset
<1>2. b \in A
  OBVIOUS
<1>3. ASSUME NEW c \in S, NEW ms \in A
      PROVE  step(c, ms) \in A
  <2>1. w.chan[s][c] \in Channel /\ c \in Chans
    BY <1>1, WorldHas
  <2>2. send_channel_modes(w.chan[s][c], s, c) \in Seq(Lines)
    BY <2>1, ModesSent
  <2> QED BY <2>2, SeqOn
<1>4. \A T \in SUBSET S : T # {} => pick[T] \in T
  OBVIOUS
<1>5. \A T \in SUBSET S : pick[T] = CHOOSE x \in T : TRUE
  BY DEF pick
<1> HIDE DEF pick
<1>6. StepsKeep(S, pick, A, W, G)
  <2>1. ASSUME NEW T \in SUBSET S, T # {}, NEW v \in W[T \ {pick[T]}]
        PROVE  G[<<pick[T], v>>] \in W[T]
    <3>1. T \ {pick[T]} \in SUBSET S /\ pick[T] \in T /\ pick[T] \in S
      BY <1>4, <2>1
    <3>2. v \in A /\ W[T] = A
      BY <2>1, <3>1
    <3> HIDE DEF step, S, A
    <3>3. G[<<pick[T], v>>] = step(pick[T], v)
      BY <3>1, <3>2
    <3> HIDE DEF G, W
    <3> QED BY <1>3, <2>1, <3>1, <3>2, <3>3
  <2>2. \A T \in SUBSET S : W[T] \subseteq A
    OBVIOUS
  <2> HIDE DEF G, W, S, A
  <2> QED BY <2>1, <2>2 DEF StepsKeep
<1>7. b \in W[{}]
  <2> HIDE DEF A, S, b
  <2> QED BY <1>2
<1> HIDE DEF G, step, A
<1>8. PICK g \in [SUBSET S -> A] : Folds(g, S, pick, b, G) /\ \A T \in SUBSET S : g[T] \in W[T]
  <2>1. Picks(pick, S)
    BY <1>4 DEF Picks
  <2> HIDE DEF W, S, b
  <2> QED BY <1>1, <1>6, <1>7, <2>1, FoldStays
<1>9. ASSUME NEW T \in SUBSET S, T # {}
      PROVE  g[T] = step(pick[T], g[T \ {pick[T]}])
  <2> HIDE DEF b, S
  <2>1. g[T \ {pick[T]}] \in A /\ pick[T] \in S
    BY <1>4, <1>8, <1>9
  <2>2. g[T] = G[<<pick[T], g[T \ {pick[T]}]>>]
    BY <1>8, <1>9 DEF Folds
  <2> QED BY <2>1, <2>2 DEF G
<1>10. g[{}] = b
  BY <1>8 DEF Folds
<1>11. g = [T \in SUBSET S |-> IF T = {} THEN b ELSE step(CHOOSE x \in T : TRUE, g[T \ {CHOOSE x \in T : TRUE}])]
  <2>1. \A T \in SUBSET S : g[T] = IF T = {} THEN b ELSE step(pick[T], g[T \ {pick[T]}])
    BY <1>9, <1>10
  <2>2. ASSUME NEW T \in SUBSET S
        PROVE  g[T] = IF T = {} THEN b ELSE step(CHOOSE x \in T : TRUE, g[T \ {CHOOSE x \in T : TRUE}])
    BY <1>5, <2>1
  <2>3. DOMAIN g = SUBSET S /\ g = [T \in SUBSET S |-> g[T]]
    BY <1>8
  <2> QED BY <2>2, <2>3, Zenon
<1>12. PICK h : /\ h = [T \in SUBSET S |-> IF T = {} THEN b ELSE step(CHOOSE x \in T : TRUE, h[T \ {CHOOSE x \in T : TRUE}])]
                /\ send_channels(w, s) = h[S]
  BY <1>11 DEF send_channels, FoldSet, MapThenFoldSet, step
<1>13. h[S] = g[S]
  <2>1. g[{}] = h[{}]
    BY <1>10, <1>12
  <2>2. \A T \in SUBSET S : T # {} /\ g[T \ {pick[T]}] = h[T \ {pick[T]}] => g[T] = h[T]
    <3>1. \A T \in SUBSET S : h[T] = IF T = {} THEN b ELSE step(pick[T], h[T \ {pick[T]}])
      BY <1>5, <1>12
    <3> QED BY <1>9, <3>1
  <2>3. Picks(pick, S)
    BY <1>4 DEF Picks
  <2> HIDE DEF S
  <2> QED BY <1>1, <2>1, <2>2, <2>3, SameFold
<1>14. send_channels(w, s) \in W[S]
  <2>1. send_channels(w, s) = g[S] /\ S \in SUBSET S
    BY <1>12, <1>13
  <2> HIDE DEF W, S
  <2> QED BY <1>8, <2>1
<1>15. send_channels(w, s) \in A
  <2>1. S \in SUBSET S
    OBVIOUS
  <2> HIDE DEF S, A
  <2> QED BY <1>14, <2>1
<1> QED BY <1>15 DEF A

LEMMA EstabHolds ==
    ASSUME NEW w, InOrder(w), NEW s \in Servers, NEW n
    PROVE  InOrder(m_server_estab(w, s, n))
<1> DEFINE ms == send_users(w, s) \o send_channels(w, s)
<1>1. ms \in Seq(Lines)
  BY UsersSent, ChannelsSent, SeqOn
<1>2. m_server_estab(w, s, n) = sendto_one(w, s, n, ms)
  BY DEF m_server_estab
<1>3. w \in ChannelWorlds
  BY DEF InOrder
<1> HIDE DEF ms
<1> QED BY <1>1, <1>2, <1>3, SentOne DEF Sent

\* legalize_mode() makes no changes that were not there.
LEMMA LegalIs ==
    ASSUME NEW k, NEW cs \in Seq(Changes)
    PROVE  legalize_mode(k, cs) \in Seq(Changes)
<1> DEFINE b == <<>>
           q1 == cs
           A == Seq(Changes)
           B == Changes
           step(some, d) == IF d.mode \in (IF d.add THEN k.off ELSE k.on) THEN some ELSE Append(some, d)
           W == [T \in SUBSET DOMAIN q1 |-> A]
           G == [y \in A \X B |-> step(y[1], y[2])]
<1>1. q1 \in Seq(B) /\ b \in A
  OBVIOUS
<1>2. ASSUME NEW v \in A, NEW d \in B PROVE step(v, d) \in A
  BY <1>2
<1>3. StepsGo(q1, A, W, G)
  <2>1. ASSUME NEW T \in SUBSET DOMAIN q1, T # {}, NEW u \in W[T \ {Max(T)}]
        PROVE  G[<<u, q1[Max(T)]>>] \in W[T]
    <3>1. T \ {Max(T)} \in SUBSET DOMAIN q1 /\ q1[Max(T)] \in B
      BY <1>1, <2>1, LastPlace, PlaceOf
    <3>2. u \in A /\ W[T] = A
      BY <2>1, <3>1
    <3> HIDE DEF step, q1, A, B
    <3>3. G[<<u, q1[Max(T)]>>] = step(u, q1[Max(T)])
      BY <3>1, <3>2
    <3> HIDE DEF G
    <3> QED BY <1>2, <3>1, <3>2, <3>3
  <2> HIDE DEF G, q1, A
  <2> QED BY <2>1 DEF StepsGo
<1>4. b \in W[{}]
  BY <1>1
<1> HIDE DEF G, step, A, B
<1>5. PICK g \in [SUBSET DOMAIN q1 -> A] :
        FoldsList(g, q1, b, G) /\ \A T \in SUBSET DOMAIN q1 : g[T] \in W[T]
  <2> HIDE DEF W, q1, b
  <2> QED BY <1>1, <1>3, <1>4, ListStays
<1>6. ASSUME NEW T \in SUBSET DOMAIN q1, T # {}
      PROVE  g[T] = step(g[T \ {Max(T)}], q1[Max(T)])
  <2> HIDE DEF b
  <2>1. g[T \ {Max(T)}] \in A /\ q1[Max(T)] \in B
    BY <1>1, <1>6, LastPlace, PlaceOf
  <2>2. g[T] = G[<<g[T \ {Max(T)}], q1[Max(T)]>>]
    BY <1>5, <1>6 DEF FoldsList
  <2> QED BY <2>1, <2>2 DEF G
<1>7. g[{}] = b
  BY <1>5 DEF FoldsList
<1>8. g = [T \in SUBSET DOMAIN q1 |-> IF T = {} THEN b ELSE step(g[T \ {Max(T)}], q1[Max(T)])]
  BY <1>5, <1>6, <1>7
<1>9. PICK h : /\ h = [T \in SUBSET DOMAIN q1 |-> IF T = {} THEN b ELSE step(h[T \ {Max(T)}], q1[Max(T)])]
               /\ legalize_mode(k, cs) = h[DOMAIN q1]
  BY <1>8 DEF legalize_mode, FoldLeft, MapThenFoldSet, step
<1>10. h[DOMAIN q1] = g[DOMAIN q1]
  <2>1. g[{}] = h[{}]
    BY <1>7, <1>9
  <2>2. \A T \in SUBSET DOMAIN q1 : T # {} /\ g[T \ {Max(T)}] = h[T \ {Max(T)}] => g[T] = h[T]
    BY <1>6, <1>9
  <2> HIDE DEF q1
  <2> QED BY <1>1, <2>1, <2>2, SameList
<1>11. legalize_mode(k, cs) \in A
  <2>1. DOMAIN q1 \in SUBSET DOMAIN q1
    OBVIOUS
  <2> HIDE DEF q1
  <2> QED BY <1>5, <1>9, <1>10, <2>1
<1> QED BY <1>11 DEF A

\* What the lines of each kind say.
LEMMA LineIs ==
    ASSUME NEW m \in Lines
    PROVE  /\ m.kind \in {"NICK", "QUIT", "JOIN 0", "JOIN", "PART", "KICK", "MODE", "OPMODE", "TOPIC", "INVITE", "MLOCK"}
           /\ m.kind \in {"NICK", "QUIT", "JOIN 0", "JOIN", "PART", "OPMODE", "INVITE"} => m.who \in Users
           /\ m.kind \in {"JOIN", "PART", "KICK", "MODE", "OPMODE", "TOPIC", "INVITE", "MLOCK"} => m.chan \in Chans
           /\ m.kind = "KICK" => m.who \in Users \cup {Services} /\ m.victim \in Users
           /\ m.kind = "MODE" => /\ m.who \in Users \cup Servers \cup {Services} /\ m.changes \in Seq(Changes)
                                 /\ m.ts \in NoTime .. MaxTime
           /\ m.kind = "OPMODE" => m.changes \in Seq(Changes)
           /\ m.kind = "TOPIC" => m.who \in Users \cup Servers /\ m.text \in Texts \cup {""} /\ m.ts \in 0 .. MaxTime
           /\ m.kind = "INVITE" => m.guest \in Users
           /\ m.kind = "MLOCK" => m.lock \in Lock
  BY DEF Lines

LEMMA HandleHolds ==
    ASSUME NEW w, InOrder(w), NEW s \in Servers, NEW n, NEW m \in Lines, now \in 1 .. MaxTime
    PROVE  InOrder(handle(w, s, n, m))
<1> DEFINE heard == m.who \in Users => (m.who \in w.known[s] /\ From(s, m.who) = n)
<1>1. handle(w, s, n, m) =
        CASE m.kind = "NICK" -> m_nick(w, s, n, m.who)
          [] m.kind = "QUIT" /\ heard -> exit_one_client(w, s, n, m.who)
          [] m.kind = "JOIN" /\ heard -> m_join(w, s, n, m.who, m.chan, "")
          [] m.kind = "JOIN 0" /\ heard -> m_join0(w, s, n, m.who)
          [] m.kind = "PART" /\ heard -> m_part(w, s, n, m.who, m.chan)
          [] m.kind = "KICK" /\ heard -> m_kick(w, s, n, m.who, m.chan, m.victim)
          [] m.kind = "MODE" /\ heard -> m_mode(w, s, n, m.who, m.chan, m.changes, m.ts)
          [] m.kind = "OPMODE" /\ heard -> m_opmode(w, s, n, m.who, m.chan, m.changes)
          [] m.kind = "TOPIC" /\ heard -> m_topic(w, s, n, m.who, m.chan, m.text, m.ts)
          [] m.kind = "INVITE" /\ heard -> m_invite(w, s, m.who, m.chan, m.guest)
          [] m.kind = "MLOCK" /\ heard -> m_mlock(w, s, n, m.chan, m.lock)
          [] m.kind # "NICK" /\ ~heard -> w
  BY DEF handle
<1>2. heard /\ m.who \in Users => m.who \in w.known[s]
  OBVIOUS
<1> HIDE DEF heard
<1>3. CASE m.kind = "NICK"
  <2>1. m.who \in Users
    BY <1>3, LineIs
  <2> QED BY <1>1, <1>3, <2>1, NickKept
<1>4. CASE m.kind # "NICK" /\ ~heard
  BY <1>1, <1>4
<1>5. CASE m.kind = "QUIT" /\ heard
  <2>1. m.who \in Users
    BY <1>5, LineIs
  <2>2. handle(w, s, n, m) = exit_one_client(w, s, n, m.who)
    BY <1>1, <1>5
  <2> QED BY <2>1, <2>2, ExitIs
<1>6. CASE m.kind = "JOIN" /\ heard
  <2>1. m.who \in w.known[s] /\ m.chan \in Chans
    BY <1>2, <1>6, LineIs
  <2>2. handle(w, s, n, m) = m_join(w, s, n, m.who, m.chan, "")
    BY <1>1, <1>6
  <2> QED BY <2>1, <2>2, JoinHolds
<1>7. CASE m.kind = "JOIN 0" /\ heard
  <2>1. m.who \in Users
    BY <1>7, LineIs
  <2>2. handle(w, s, n, m) = m_join0(w, s, n, m.who)
    BY <1>1, <1>7
  <2> QED BY <2>1, <2>2, Join0Holds
<1>8. CASE m.kind = "PART" /\ heard
  <2>1. m.who \in Users /\ m.chan \in Chans
    BY <1>8, LineIs
  <2>2. handle(w, s, n, m) = m_part(w, s, n, m.who, m.chan)
    BY <1>1, <1>8
  <2> QED BY <2>1, <2>2, PartHolds
<1>9. CASE m.kind = "KICK" /\ heard
  <2>1. m.who \in Users \cup {Services} /\ m.chan \in Chans /\ m.victim \in Users
    BY <1>9, LineIs
  <2>2. handle(w, s, n, m) = m_kick(w, s, n, m.who, m.chan, m.victim)
    BY <1>1, <1>9
  <2> QED BY <2>1, <2>2, KickHolds
<1>10. CASE m.kind = "MODE" /\ heard
  <2>1. /\ m.who \in Users \cup Servers \cup {Services} /\ m.chan \in Chans
        /\ m.changes \in Seq(Changes) /\ m.ts \in NoTime .. MaxTime
    BY <1>10, LineIs
  <2>2. handle(w, s, n, m) = m_mode(w, s, n, m.who, m.chan, m.changes, m.ts)
    BY <1>1, <1>10
  <2> QED BY <2>1, <2>2, ModeHolds
<1>11. CASE m.kind = "OPMODE" /\ heard
  <2>1. m.who \in Users /\ m.chan \in Chans /\ m.changes \in Seq(Changes)
    BY <1>11, LineIs
  <2>2. NoTime \in NoTime .. MaxTime
    BY ChannelAssumption DEF NoTime
  <2>3. handle(w, s, n, m) = m_opmode(w, s, n, m.who, m.chan, m.changes)
    BY <1>1, <1>11
  <2> QED BY <2>1, <2>2, <2>3, OpmodeHolds
<1>12. CASE m.kind = "TOPIC" /\ heard
  <2>1. m.who \in Users \cup Servers /\ m.chan \in Chans /\ m.text \in Texts \cup {""} /\ m.ts \in 0 .. MaxTime
    BY <1>12, LineIs
  <2>2. handle(w, s, n, m) = m_topic(w, s, n, m.who, m.chan, m.text, m.ts)
    BY <1>1, <1>12
  <2> QED BY <2>1, <2>2, TopicHolds
<1>13. CASE m.kind = "INVITE" /\ heard
  <2>1. m.who \in Users /\ m.chan \in Chans /\ m.guest \in Users
    BY <1>13, LineIs
  <2>2. handle(w, s, n, m) = m_invite(w, s, m.who, m.chan, m.guest)
    BY <1>1, <1>13
  <2> QED BY <2>1, <2>2, InviteHolds
<1>14. CASE m.kind = "MLOCK" /\ heard
  <2>1. m.chan \in Chans /\ m.lock \in Lock
    BY <1>14, LineIs
  <2>2. handle(w, s, n, m) = m_mlock(w, s, n, m.chan, m.lock)
    BY <1>1, <1>14
  <2> QED BY <2>1, <2>2, MlockHolds
<1>15. m.kind \in {"NICK", "QUIT", "JOIN 0", "JOIN", "PART", "KICK", "MODE", "OPMODE", "TOPIC", "INVITE", "MLOCK"}
  BY LineIs
<1> QED BY <1>3, <1>4, <1>5, <1>6, <1>7, <1>8, <1>9, <1>10, <1>11, <1>12, <1>13, <1>14, <1>15

\* The inductive invariant of Channel.
ChannelInv ==
    /\ InOrder(World) /\ up \subseteq Wires /\ now \in 1 .. MaxTime /\ riders \subseteq Users \X Chans
    /\ left \in [events : Nat, focus : Focuses, calm : BOOLEAN, late : BOOLEAN]

LEMMA Turning ==
    ASSUME NEW v, InOrder(v), Becomes(v)
    PROVE  InOrder(World')
<1>1. v = [chan |-> v.chan, invited |-> v.invited, known |-> v.known, ts8 |-> v.ts8, q |-> v.q, mixed |-> v.mixed]
  BY DEF InOrder, ChannelWorlds
<1>2. World' = v
  BY <1>1 DEF Becomes, World
<1> QED BY <1>2

\* What an event of users leaves.
LEMMA EventIs ==
    ASSUME ChannelInv, NEW kind, Event(kind)
    PROVE  /\ now' = now /\ up' = up
           /\ left' \in [events : Nat, focus : Focuses, calm : BOOLEAN, late : BOOLEAN]
<1> DEFINE n == left.events - 1
           calm == left.calm /\ (Quiet \/ (kind = "join" /\ OnlyJoins))
<1>1. left \in [events : Nat, focus : Focuses, calm : BOOLEAN, late : BOOLEAN]
  BY DEF ChannelInv
<1>2. n \in Nat /\ calm \in BOOLEAN
  BY <1>1 DEF Event
<1>3. left' = [left EXCEPT !.events = n, !.calm = calm]
  BY DEF Event
<1> HIDE DEF n, calm
<1>4. left' \in [events : Nat, focus : Focuses, calm : BOOLEAN, late : BOOLEAN]
  BY <1>1, <1>2, <1>3
<1> QED BY <1>4 DEF Event

LEMMA Evented ==
    ASSUME ChannelInv, NEW kind, Event(kind), NEW v, InOrder(v), Becomes(v), riders' \subseteq Users \X Chans
    PROVE  ChannelInv'
<1>1. InOrder(World')
  BY Turning
<1> QED BY <1>1, EventIs DEF ChannelInv

LEMMA AtHome ==
    ASSUME ChannelInv, NEW u \in Users
    PROVE  /\ Home[u] \in Servers /\ World.known = known /\ World.chan = chan /\ InOrder(World)
           /\ riders \subseteq Users \X Chans /\ now \in 1 .. MaxTime
  BY ChannelAssumption DEF World, Range, ChannelInv

LEMMA FocusIs ==
    ASSUME ChannelInv
    PROVE  /\ left.focus.chans \subseteq Chans
           /\ \A words \in left.focus.words : words[1] \in Seq(Changes) /\ words[2] \in Seq(Changes)
<1>1. left.focus \in Focuses
  BY DEF ChannelInv
<1> QED BY <1>1, FocusAssumption

LEMMA ChannelTickStep ==
    ASSUME ChannelInv, ChannelTick
    PROVE  ChannelInv'
<1> DEFINE late == ~Quiet
<1>1. left \in [events : Nat, focus : Focuses, calm : BOOLEAN, late : BOOLEAN] /\ now \in 1 .. MaxTime
  BY DEF ChannelInv
<1>2. left.focus.until \in 1 .. MaxTime
  BY <1>1, FocusAssumption
<1>3. now' \in 1 .. MaxTime
  BY <1>1, <1>2, ChannelAssumption DEF ChannelTick
<1>4. late \in BOOLEAN /\ left' = [left EXCEPT !.late = late]
  BY DEF ChannelTick
<1> HIDE DEF late
<1>5. left' \in [events : Nat, focus : Focuses, calm : BOOLEAN, late : BOOLEAN]
  BY <1>1, <1>4
<1>6. World' = World /\ up' = up /\ riders' = riders
  BY DEF ChannelTick, World
<1> QED BY <1>3, <1>5, <1>6 DEF ChannelInv

LEMMA JoinStep ==
    ASSUME ChannelInv, NEW u \in Users, NEW c \in Chans, NEW key, Join(u, c, key)
    PROVE  ChannelInv'
<1> DEFINE v == m_join(World, Home[u], Home[u], u, c, key)
<1>1. Event("join") /\ u \in known[Home[u]] /\ riders' = riders /\ Becomes(v)
  BY DEF Join, Here
<1>2. InOrder(v)
  BY <1>1, AtHome, JoinHolds
<1> HIDE DEF v
<1> QED BY <1>1, <1>2, AtHome, Evented

LEMMA PartStep ==
    ASSUME ChannelInv, NEW u \in Users, NEW c \in Chans, Part(u, c)
    PROVE  ChannelInv'
<1> DEFINE v == m_part(World, Home[u], Home[u], u, c)
<1>1. Event("part") /\ riders' = riders \ {<<u, c>>} /\ Becomes(v)
  BY DEF Part
<1>2. InOrder(v)
  BY AtHome, PartHolds
<1>3. riders' \subseteq Users \X Chans
  BY <1>1, AtHome
<1> HIDE DEF v
<1> QED BY <1>1, <1>2, <1>3, Evented

LEMMA Join0Step ==
    ASSUME ChannelInv, NEW u \in Users, Join0(u)
    PROVE  ChannelInv'
<1> DEFINE v == m_join0(World, Home[u], Home[u], u)
<1>1. Event("join0") /\ riders' = riders \ ({u} \X Chans) /\ Becomes(v)
  BY DEF Join0
<1>2. InOrder(v)
  BY AtHome, Join0Holds
<1>3. riders' \subseteq Users \X Chans
  BY <1>1, AtHome
<1> HIDE DEF v
<1> QED BY <1>1, <1>2, <1>3, Evented

LEMMA QuitStep ==
    ASSUME ChannelInv, NEW u \in Users, Quit(u)
    PROVE  ChannelInv'
<1> DEFINE v == exit_one_client(World, Home[u], Home[u], u)
<1>1. Event("quit") /\ riders' = riders \ ({u} \X Chans) /\ Becomes(v)
  BY DEF Quit
<1>2. InOrder(v)
  BY AtHome, ExitIs
<1>3. riders' \subseteq Users \X Chans
  BY <1>1, AtHome
<1> HIDE DEF v
<1> QED BY <1>1, <1>2, <1>3, Evented

LEMMA KickStep ==
    ASSUME ChannelInv, NEW x \in Users, NEW c \in Chans, NEW u \in Users, Kick(x, c, u)
    PROVE  ChannelInv'
<1> DEFINE v == m_kick(World, Home[x], Home[x], x, c, u)
<1>1. Event("kick") /\ riders' = riders /\ Becomes(v)
  BY DEF Kick
<1>2. InOrder(v)
  BY AtHome, KickHolds
<1> HIDE DEF v
<1> QED BY <1>1, <1>2, AtHome, Evented

LEMMA ModeStep ==
    ASSUME ChannelInv, NEW x \in Users, NEW c \in Chans, NEW words \in left.focus.words, Mode(x, c, words)
    PROVE  ChannelInv'
<1> DEFINE s == Home[x]
           legal == legalize_mode(chan[s][c], words[1])
           cs == legal \o words[2]
           v == m_mode(World, s, s, x, c, cs, NoTime)
<1>1. Event("mode") /\ riders' \subseteq riders /\ Becomes(v)
  BY DEF Mode
<1>2. words[1] \in Seq(Changes) /\ words[2] \in Seq(Changes)
  BY FocusIs
<1>3. legal \in Seq(Changes)
  BY <1>2, LegalIs
<1> HIDE DEF legal
<1>4. cs \in Seq(Changes)
  BY <1>2, <1>3, SeqOn
<1> HIDE DEF cs
<1>5. NoTime \in NoTime .. MaxTime
  BY ChannelAssumption DEF NoTime
<1>6. InOrder(v)
  BY <1>4, <1>5, AtHome, ModeHolds
<1>7. riders' \subseteq Users \X Chans
  BY <1>1, AtHome
<1> HIDE DEF v
<1> QED BY <1>1, <1>6, <1>7, Evented

LEMMA OpmodeStep ==
    ASSUME ChannelInv, NEW x \in Users, NEW c \in Chans, NEW words \in left.focus.words, Opmode(x, c, words)
    PROVE  ChannelInv'
<1> DEFINE v == m_opmode(World, Home[x], Home[x], x, c, words[1])
<1>1. Event("opmode") /\ riders' \subseteq riders /\ Becomes(v)
  BY DEF Opmode
<1>2. words[1] \in Seq(Changes)
  BY FocusIs
<1>3. NoTime \in NoTime .. MaxTime
  BY ChannelAssumption DEF NoTime
<1>4. InOrder(v)
  BY <1>2, <1>3, AtHome, OpmodeHolds
<1>5. riders' \subseteq Users \X Chans
  BY <1>1, AtHome
<1> HIDE DEF v
<1> QED BY <1>1, <1>4, <1>5, Evented

LEMMA TopicStep ==
    ASSUME ChannelInv, NEW x \in Users, NEW c \in Chans, NEW text \in Texts, Topic(x, c, text)
    PROVE  ChannelInv'
<1> DEFINE v == m_topic(World, Home[x], Home[x], x, c, text, 0)
<1>1. Event("topic") /\ riders' = riders /\ Becomes(v)
  BY DEF Topic
<1>2. 0 \in 0 .. MaxTime
  BY ChannelAssumption
<1>3. InOrder(v)
  BY <1>2, AtHome, TopicHolds
<1> HIDE DEF v
<1> QED BY <1>1, <1>3, AtHome, Evented

LEMMA InviteStep ==
    ASSUME ChannelInv, NEW x \in Users, NEW c \in Chans, NEW u \in Users, Invite(x, c, u)
    PROVE  ChannelInv'
<1> DEFINE v == m_invite(World, Home[x], x, c, u)
<1>1. Event("invite") /\ riders' = riders /\ Becomes(v)
  BY DEF Invite
<1>2. InOrder(v)
  BY AtHome, InviteHolds
<1> HIDE DEF v
<1> QED BY <1>1, <1>2, AtHome, Evented

LEMMA ServicesStep ==
    ASSUME ChannelInv, NEW c \in Chans,
           \/ \E words \in left.focus.words : ServicesMode(c, words)
           \/ \E u \in Users : ServicesKick(c, u)
           \/ \E lock \in Locks : ServicesLock(c, lock)
    PROVE  ChannelInv'
<1>1. ServicesAt \in Servers /\ InOrder(World) /\ riders \subseteq Users \X Chans
  BY ChannelAssumption DEF ChannelInv
<1>2. CASE \E words \in left.focus.words : ServicesMode(c, words)
  <2>1. PICK words \in left.focus.words : ServicesMode(c, words)
    BY <1>2
  <2> DEFINE v == m_mode(World, ServicesAt, Services, Services, c, words[1], NoTime)
  <2>2. Event("services") /\ riders' \subseteq riders /\ Becomes(v)
    BY <2>1 DEF ServicesMode
  <2>3. words[1] \in Seq(Changes)
    BY FocusIs
  <2>4. NoTime \in NoTime .. MaxTime
    BY ChannelAssumption DEF NoTime
  <2>5. InOrder(v)
    BY <1>1, <2>3, <2>4, ModeHolds
  <2>6. riders' \subseteq Users \X Chans
    BY <1>1, <2>2
  <2> HIDE DEF v
  <2> QED BY <2>2, <2>5, <2>6, Evented
<1>3. CASE \E u \in Users : ServicesKick(c, u)
  <2>1. PICK u \in Users : ServicesKick(c, u)
    BY <1>3
  <2> DEFINE v == m_kick(World, ServicesAt, Services, Services, c, u)
  <2>2. Event("services") /\ riders' = riders /\ Becomes(v)
    BY <2>1 DEF ServicesKick
  <2>3. InOrder(v)
    BY <1>1, KickHolds
  <2> HIDE DEF v
  <2> QED BY <1>1, <2>2, <2>3, Evented
<1>4. CASE \E lock \in Locks : ServicesLock(c, lock)
  <2>1. PICK lock \in Locks : ServicesLock(c, lock)
    BY <1>4
  <2> DEFINE v == m_mlock(World, ServicesAt, Services, c, lock)
  <2>2. Event("services") /\ riders' = riders /\ Becomes(v)
    BY <2>1 DEF ServicesLock
  <2>3. lock \in Lock
    BY FocusAssumption
  <2>4. InOrder(v)
    BY <1>1, <2>3, MlockHolds
  <2> HIDE DEF v
  <2> QED BY <1>1, <2>2, <2>4, Evented
<1> QED BY <1>2, <1>3, <1>4

\* A wire forgets what was on it.
LEMMA CutHolds ==
    ASSUME NEW w, InOrder(w), NEW s, NEW n
    PROVE  InOrder([w EXCEPT !.q[<<s, n>>] = <<>>, !.q[<<n, s>>] = <<>>])
<1> DEFINE lines == [w.q EXCEPT ![<<s, n>>] = <<>>, ![<<n, s>>] = <<>>]
<1>1. w \in ChannelWorlds /\ w.q \in [Pairs -> Seq(Lines)] /\ <<>> \in Seq(Lines)
  BY DEF InOrder, ChannelWorlds
<1>2. lines \in [Pairs -> Seq(Lines)]
  BY <1>1
<1>3. [w EXCEPT !.q[<<s, n>>] = <<>>, !.q[<<n, s>>] = <<>>] = Sending(w, lines)
  BY <1>1 DEF Sending, ChannelWorlds
<1> HIDE DEF lines
<1> QED BY <1>1, <1>2, <1>3, SendingHolds

LEMMA SplitStep ==
    ASSUME ChannelInv, NEW s \in Servers, NEW n \in Servers, Split(s, n)
    PROVE  ChannelInv'
<1> DEFINE w == [World EXCEPT !.q[<<s, n>>] = <<>>, !.q[<<n, s>>] = <<>>]
           w1 == exit_client(w, s, n)
           w2 == exit_client(w1, n, s)
           v == [w2 EXCEPT !.q[<<s, n>>] = <<>>, !.q[<<n, s>>] = <<>>]
           e == left.events - 1
           calm == left.calm /\ Quiet
<1>1. /\ left.events > 0 /\ left' = [left EXCEPT !.events = e, !.calm = calm]
      /\ up' \subseteq up /\ riders' = {} /\ now' = now /\ Becomes(v)
  BY DEF Split
<1>2. InOrder(w)
  BY CutHolds DEF ChannelInv
<1> HIDE DEF w
<1>3. InOrder(w1)
  BY <1>2, ExitClientHolds
<1> HIDE DEF w1
<1>4. InOrder(w2)
  BY <1>3, ExitClientHolds
<1> HIDE DEF w2
<1>5. InOrder(v)
  BY <1>4, CutHolds
<1> HIDE DEF v
<1>6. InOrder(World')
  BY <1>1, <1>5, Turning
<1>7. left' \in [events : Nat, focus : Focuses, calm : BOOLEAN, late : BOOLEAN]
  <2>1. left \in [events : Nat, focus : Focuses, calm : BOOLEAN, late : BOOLEAN]
    BY DEF ChannelInv
  <2>2. e \in Nat /\ calm \in BOOLEAN
    BY <1>1, <2>1
  <2> HIDE DEF e, calm
  <2> QED BY <1>1, <2>1, <2>2
<1> QED BY <1>1, <1>6, <1>7 DEF ChannelInv

LEMMA LinkStep ==
    ASSUME ChannelInv, NEW s \in Servers, NEW n \in Servers, Link(s, n)
    PROVE  ChannelInv'
<1> DEFINE w1 == m_server_estab(World, s, n)
           v == m_server_estab(w1, n, s)
           calm == left.calm /\ Quiet
<1>1. /\ left' = [left EXCEPT !.calm = calm] /\ {s, n} \in Wires /\ up' = up \cup {{s, n}} /\ now' = now /\ Becomes(v)
      /\ riders' \subseteq Users \X Chans
  BY DEF Link, Riding
<1>2. InOrder(w1)
  BY EstabHolds DEF ChannelInv
<1> HIDE DEF w1
<1>3. InOrder(v)
  BY <1>2, EstabHolds
<1> HIDE DEF v
<1>4. InOrder(World')
  BY <1>1, <1>3, Turning
<1>5. left' \in [events : Nat, focus : Focuses, calm : BOOLEAN, late : BOOLEAN]
  <2>1. left \in [events : Nat, focus : Focuses, calm : BOOLEAN, late : BOOLEAN]
    BY DEF ChannelInv
  <2>2. calm \in BOOLEAN
    BY <2>1
  <2> HIDE DEF calm
  <2> QED BY <1>1, <2>1, <2>2
<1> QED BY <1>1, <1>4, <1>5 DEF ChannelInv

LEMMA ReceiveStep ==
    ASSUME ChannelInv, NEW s \in Servers, NEW n \in Servers, Receive(n, s)
    PROVE  ChannelInv'
<1> DEFINE p == <<n, s>>
           lines == [q EXCEPT ![p] = Tail(q[p])]
           w == [World EXCEPT !.q[p] = Tail(@)]
           m == Head(q[p])
           v == handle(w, s, n, m)
<1>1. p \in Pairs /\ q[p] # <<>> /\ Becomes(v) /\ up' = up /\ now' = now /\ left' = left /\ riders' = riders
  BY DEF Receive
<1>2. InOrder(World) /\ World \in ChannelWorlds /\ World.q = q /\ now \in 1 .. MaxTime
  BY DEF ChannelInv, InOrder, World
<1>3. q \in [Pairs -> Seq(Lines)]
  BY <1>2 DEF ChannelWorlds
<1>4. m \in Lines /\ Tail(q[p]) \in Seq(Lines)
  <2>1. q[p] \in Seq(Lines)
    BY <1>1, <1>3
  <2> DEFINE list == q[p]
  <2> HIDE DEF list
  <2>2. list \in Seq(Lines) /\ list # <<>>
    BY <1>1, <2>1 DEF list
  <2>3. Head(list) \in Lines /\ Tail(list) \in Seq(Lines)
    BY <2>2
  <2> QED BY <2>3 DEF list
<1>5. lines \in [Pairs -> Seq(Lines)]
  BY <1>3, <1>4
<1>6. w = Sending(World, lines)
  BY <1>2 DEF Sending
<1> HIDE DEF w, lines, m
<1>7. InOrder(w)
  BY <1>2, <1>5, <1>6, SendingHolds
<1>8. InOrder(v)
  BY <1>2, <1>4, <1>7, HandleHolds
<1> HIDE DEF v
<1>9. InOrder(World')
  BY <1>1, <1>8, Turning
<1> QED BY <1>1, <1>9 DEF ChannelInv

\* No channel is there at the start, and everyone knows everyone.
LEMMA ChannelInitially ==
    ASSUME ChannelInit
    PROVE  ChannelInv
<1> DEFINE start == World
<1>1. /\ start.chan = [s \in Servers |-> [c \in Chans |-> NoChan]] /\ start.invited = [u \in Users |-> <<>>]
      /\ start.known = [s \in Servers |-> Users] /\ start.ts8 = [s \in Servers |-> {u \in Users : Home[u] # s}]
      /\ start.q = [p \in Pairs |-> <<>>] /\ start.mixed = {}
      /\ start = [chan |-> start.chan, invited |-> start.invited, known |-> start.known, ts8 |-> start.ts8,
                  q |-> start.q, mixed |-> start.mixed]
  BY DEF ChannelInit, World
<1> HIDE DEF start
<1>2. NoChan \in Channel /\ NoChan.invites = {} /\ <<>> \in Seq(Chans) /\ <<>> \in Seq(Lines)
  BY NoChanIs
<1>3. start \in ChannelWorlds
  <2>1. /\ start.chan \in [Servers -> [Chans -> Channel]] /\ start.invited \in [Users -> Seq(Chans)]
        /\ start.known \in [Servers -> SUBSET Users] /\ start.ts8 \in [Servers -> SUBSET Users]
        /\ start.q \in [Pairs -> Seq(Lines)] /\ start.mixed \in SUBSET (Users \X Chans)
    BY <1>1, <1>2
  <2> QED BY <1>1, <2>1 DEF ChannelWorlds
<1>4. Invitations(start)
  <2>1. \A s \in Servers, c \in Chans : start.chan[s][c].invites = {}
    BY <1>1, <1>2
  <2>2. \A u \in Users : Range(start.invited[u]) = {} /\ IsInjective(start.invited[u])
    BY <1>1 DEF Range, IsInjective
  <2> QED BY <2>1, <2>2 DEF Invitations
<1>5. ASSUME NEW s \in Servers
      PROVE  /\ start.ts8[s] \subseteq start.known[s]
             /\ \A c \in Chans : Roomy(s, start.chan[s][c], start.known[s], Mixed(start, c))
  BY <1>1, NoChanIs
<1>6. InOrder(World)
  BY <1>3, <1>4, <1>5 DEF InOrder, start
<1>7. up \subseteq Wires /\ riders \subseteq Users \X Chans
  BY DEF ChannelInit
<1>8. now \in 1 .. MaxTime /\ left \in [events : Nat, focus : Focuses, calm : BOOLEAN, late : BOOLEAN]
  <2>1. PICK f \in Focuses : left = [events |-> f.most, focus |-> f, calm |-> TRUE, late |-> FALSE]
    BY DEF ChannelInit
  <2>2. f.most \in Nat /\ f.until \in 1 .. MaxTime /\ MaxTime \in Nat
    BY FocusAssumption, ChannelAssumption
  <2>3. now = 1
    BY DEF ChannelInit
  <2>4. now \in 1 .. MaxTime
    BY <2>2, <2>3
  <2> QED BY <2>1, <2>2, <2>4
<1> QED BY <1>6, <1>7, <1>8 DEF ChannelInv

LEMMA ChannelStep ==
    ASSUME ChannelInv, [ChannelNext]_channelVars
    PROVE  ChannelInv'
<1>1. CASE UNCHANGED channelVars
  <2>1. World' = World /\ up' = up /\ now' = now /\ riders' = riders /\ left' = left
    BY <1>1 DEF channelVars, World
  <2> QED BY <2>1 DEF ChannelInv
<1>2. CASE ChannelTick
  BY <1>2, ChannelTickStep
<1>3. CASE \E u \in Users : Join0(u) \/ Quit(u)
  BY <1>3, Join0Step, QuitStep
<1>4. CASE \E s, n \in Servers : Split(s, n) \/ Link(s, n) \/ Receive(n, s)
  BY <1>4, SplitStep, LinkStep, ReceiveStep
<1>5. ASSUME NEW c \in left.focus.chans, NEW x \in Users,
             \/ Part(x, c) \/ ServicesKick(c, x)
             \/ \E key \in Keys \cup {""} : Join(x, c, key)
             \/ \E u \in Users : Kick(x, c, u) \/ Invite(x, c, u)
             \/ \E words \in left.focus.words : Mode(x, c, words) \/ Opmode(x, c, words)
             \/ \E text \in Texts : Topic(x, c, text)
      PROVE  ChannelInv'
  <2>1. c \in Chans
    BY FocusIs
  <2>2. CASE Part(x, c)
    BY <2>1, <2>2, PartStep
  <2>3. CASE ServicesKick(c, x)
    BY <2>1, <2>3, ServicesStep
  <2>4. CASE \E key \in Keys \cup {""} : Join(x, c, key)
    BY <2>1, <2>4, JoinStep
  <2>5. CASE \E u \in Users : Kick(x, c, u) \/ Invite(x, c, u)
    BY <2>1, <2>5, KickStep, InviteStep
  <2>6. CASE \E words \in left.focus.words : Mode(x, c, words) \/ Opmode(x, c, words)
    BY <2>1, <2>6, ModeStep, OpmodeStep
  <2>7. CASE \E text \in Texts : Topic(x, c, text)
    BY <2>1, <2>7, TopicStep
  <2> QED BY <1>5, <2>2, <2>3, <2>4, <2>5, <2>6, <2>7
<1>6. CASE \E c \in left.focus.chans, words \in left.focus.words : ServicesMode(c, words)
  BY <1>6, FocusIs, ServicesStep
<1>7. CASE \E c \in left.focus.chans, lock \in Locks : ServicesLock(c, lock)
  BY <1>7, FocusIs, ServicesStep
<1> QED BY <1>1, <1>2, <1>3, <1>4, <1>5, <1>6, <1>7 DEF ChannelNext

\* What the inductive invariant says of the variables.
LEMMA ChannelSafe ==
    ASSUME ChannelInv
    PROVE  ChannelTypeOK /\ InvitesAgree /\ QuietFlag
<1>1. /\ World.chan = chan /\ World.invited = invited /\ World.known = known /\ World.ts8 = ts8
      /\ World.q = q /\ World.mixed = mixed
  BY DEF World
<1>2. World \in ChannelWorlds /\ Invitations(World)
  BY DEF ChannelInv, InOrder
<1>3. /\ chan \in [Servers -> [Chans -> Channel]] /\ invited \in [Users -> Seq(Chans)]
      /\ known \in [Servers -> SUBSET Users] /\ ts8 \in [Servers -> SUBSET Users]
      /\ q \in [Pairs -> Seq(Lines)] /\ mixed \subseteq Users \X Chans
  BY <1>1, <1>2 DEF ChannelWorlds
<1>4. ASSUME NEW s \in Servers
      PROVE  /\ ts8[s] \subseteq known[s]
             /\ \A c \in Chans : Roomy(s, chan[s][c], known[s], Mixed(World, c))
  BY <1>1 DEF ChannelInv, InOrder
<1>5. ChannelTypeOK
  BY <1>3, <1>4 DEF ChannelTypeOK, ChannelInv, Roomy
<1>6. InvitesAgree
  BY <1>1, <1>2 DEF Invitations, InvitesAgree, Here
<1>7. QuietFlag
  <2> SUFFICES ASSUME NEW s \in Servers, NEW c \in Chans, NEW u \in DOMAIN chan[s][c].member
               PROVE  LET k == chan[s][c]
                          flag == "bquiet" \in k.member[u]
                      IN /\ flag => Hitting(k, u) \cap Quiets # {}
                         /\ MyClient(s, u) /\ Hitting(k, u) # {} /\ Hitting(k, u) \subseteq Quiets
                            /\ <<u, c>> \notin mixed => flag
    BY DEF QuietFlag, Hitting
  <2>1. Hushed(s, chan[s][c], Mixed(World, c))
    BY <1>4 DEF Roomy
  <2>2. <<u, c>> \notin mixed => u \notin Mixed(World, c)
    BY <1>1 DEF Mixed
  <2>3. Hitting(chan[s][c], u) # {} /\ Hitting(chan[s][c], u) \subseteq Quiets => Hitting(chan[s][c], u) \cap Quiets # {}
    OBVIOUS
  <2> QED BY <2>1, <2>2, <2>3 DEF Hushed
<1> QED BY <1>5, <1>6, <1>7

\* Types: each server's channels, with their members, times, bans and lock, are
\* what the handlers of channel.c may leave, and every member is a user the
\* server knows.
THEOREM ChannelTypes == ChannelSpec => []ChannelTypeOK
<1>1. ChannelInv => ChannelTypeOK
  BY ChannelSafe
<1> QED BY <1>1, ChannelInitially, ChannelStep, PTL DEF ChannelSpec

\* add_invite() and del_invite() keep the two lists of invitations, of a channel and
\* of its guests, the same, whatever frees a channel or a client in between.
THEOREM ChannelInvites == ChannelSpec => []InvitesAgree
<1>1. ChannelInv => InvitesAgree
  BY ChannelSafe
<1> QED BY <1>1, ChannelInitially, ChannelStep, PTL DEF ChannelSpec

\* add_banid(), del_banid() and the entry of a member keep the flag that makes a
\* member quiet true to the bans.
THEOREM ChannelQuiet == ChannelSpec => []QuietFlag
<1>1. ChannelInv => QuietFlag
  BY ChannelSafe
<1> QED BY <1>1, ChannelInitially, ChannelStep, PTL DEF ChannelSpec
=============================================================================
