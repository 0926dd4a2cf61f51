------------------------------ MODULE MemoServ ------------------------------
(***************************************************************************)
(* services/memoserv.c, what delRegNick() of services/nickserv.c does with *)
(* memos, and how services/db.c saves and loads them.  A memo is linked    *)
(* into the box it was delivered to and, until it is read or deleted, into *)
(* its sender's list of sent memos; realto is the nick it was meant for.   *)
(***************************************************************************)
EXTENDS Integers, Sequences, FiniteSets, SequencesExt

CONSTANTS
    Nicks,
    NoOne,          \* a null pointer
    Gone,           \* a pointer to a registration that was freed
    BoxMax,         \* how many memos a box takes (MS_DEF_RCV_MAX)
    MaxBlocks,      \* MS_MAX_MBLOCK
    MemoDrop,       \* MEMODROPTIME
    NickDrop,       \* NICKDROPTIME, which is longer
    Opers,          \* the nicks that may have OVERRIDE
    Addr,           \* bound of the runs: where there is place for a memo
    MaxMisfiled,    \* bound of the runs: after how many no more memos are sent
    MaxSettings     \* bound of the runs: how much the nicks have set at a time

ASSUME MemoAssumption ==
    /\ IsFiniteSet(Nicks) /\ IsFiniteSet(Addr) /\ Opers \subseteq Nicks
    /\ NoOne \notin Nicks /\ Gone \notin Nicks /\ NoOne # Gone
    /\ {BoxMax, MaxBlocks, MemoDrop, NickDrop, MaxMisfiled, MaxSettings} \subseteq Nat
    /\ MemoDrop <= NickDrop

VARIABLES
    reg,            \* the nicks that are registered
    memo,           \* the memos, by their address
    box,            \* mb_memos of each nick, first memo first
    sent,           \* mb_sent of each nick
    cnt,            \* memocnt of each nick
    forward,        \* where the memos of each nick are forwarded to
    nomemo,         \* the nicks that take no memos
    blocks,         \* the nicks whose memos each nick blocks
    lost,           \* how many more blocks it has, of numbers that are no nick's
    misfiled,       \* how often delMemo() was given another box than the memo's
    wild            \* a registration was used that had been freed

vars == <<reg, memo, box, sent, cnt, forward, nomemo, blocks, lost, misfiled, wild>>

memoVars == <<memo, box, sent, cnt, misfiled>>
nickVars == <<reg, forward, nomemo, blocks, lost>>

\* The age of a memo is counted until NickDrop: none lives on by being older.
Memo == [from : Nicks, to : Nicks \cup {Gone}, age : 0 .. NickDrop, unread : BOOLEAN,
         del : BOOLEAN, save : BOOLEAN, fwd : BOOLEAN]

Free == [from |-> NoOne]

TypeOK ==
    /\ reg \subseteq Nicks
    /\ memo \in [Addr -> Memo \cup {Free}]
    /\ box \in [Nicks -> Seq(Addr)]
    /\ sent \in [Nicks -> SUBSET Addr]
    /\ cnt \in [Nicks -> Int]
    /\ forward \in [Nicks -> Nicks \cup {NoOne, Gone}]
    /\ nomemo \subseteq Nicks
    /\ blocks \in [Nicks -> SUBSET Nicks]
    /\ lost \in [Nicks -> 0 .. MaxBlocks]
    /\ misfiled \in Nat
    /\ wild \in BOOLEAN
-----------------------------------------------------------------------------
Memos == {a \in Addr : memo[a] # Free}

Owner(a) == CHOOSE n \in Nicks : a \in ToSet(box[n])

\* The memos of the list that are in S, in the order of the list.
Only(list, S) == FoldLeft(LAMBDA some, a : IF a \in S THEN Append(some, a) ELSE some, <<>>, list)

\* delMemo() for each memo that is gone: it is unlinked from the box it is in,
\* and the count of the box the caller named goes down.  The registrations in
\* freed are gone afterwards.
FromBox(gone, counted, freed) ==
    /\ memo' = [a \in Addr |-> IF a \in gone THEN Free ELSE
                              IF a \in Memos /\ memo[a].to \in freed
                              THEN [memo[a] EXCEPT !.to = Gone] ELSE memo[a]]
    /\ box' = [n \in Nicks |-> Only(box[n], Addr \ gone)]
    /\ sent' = [n \in Nicks |-> sent[n] \ gone]
    /\ cnt' = [n \in Nicks |-> IF n \in freed THEN 0
                               ELSE cnt[n] - Cardinality({a \in gone : counted[a] = n})]
    /\ misfiled' = misfiled + Cardinality({a \in gone : counted[a] # Owner(a)})

\* READ and DELETE change a flag and take the memo off the sender's list.
Touch(read, f) ==
    /\ memo' = [a \in Addr |-> IF a \in read THEN [memo[a] EXCEPT ![f] = (f = "del")] ELSE memo[a]]
    /\ sent' = [n \in Nicks |-> sent[n] \ read]
    /\ UNCHANGED <<box, cnt, misfiled>>
-----------------------------------------------------------------------------
\* The nicks of the databases were loaded, and no memo.
Init ==
    /\ reg = Nicks
    /\ memo = [a \in Addr |-> Free]
    /\ box = [n \in Nicks |-> <<>>]
    /\ sent = [n \in Nicks |-> {}]
    /\ cnt = [n \in Nicks |-> 0]
    /\ forward = [n \in Nicks |-> NoOne]
    /\ nomemo = {}
    /\ blocks = [n \in Nicks |-> {}]
    /\ lost = [n \in Nicks |-> 0]
    /\ misfiled = 0
    /\ wild = FALSE

\* time(NULL) moves on.
Tick ==
    /\ memo' = [a \in Addr |-> IF a \in Memos /\ memo[a].age < NickDrop
                              THEN [memo[a] EXCEPT !.age = @ + 1] ELSE memo[a]]
    /\ UNCHANGED <<box, sent, cnt, misfiled, nickVars, wild>>

\* Does the box of dest take a memo from s?
Accepts(s, to, dest, override) ==
    /\ dest \in nomemo => override
    /\ s \notin blocks[dest]
    /\ cnt[dest] < BoxMax \/ override

\* ms_sendMemo(); a memo to a channel is one for each of its operators.
Send(s, to, override) ==
    LET dest == IF forward[to] = NoOne THEN to ELSE forward[to]
    IN
    /\ misfiled < MaxMisfiled
    /\ {s, to} \subseteq reg
    /\ IF dest = Gone THEN wild' = TRUE /\ UNCHANGED memoVars
       ELSE \E a \in Addr \ Memos :
            /\ Accepts(s, to, dest, override)
            /\ memo' = [memo EXCEPT ![a] =
                  [from |-> s, to |-> to, age |-> 0, unread |-> TRUE,
                   del |-> FALSE, save |-> FALSE, fwd |-> forward[to] # NoOne]]
            /\ box' = [box EXCEPT ![dest] = <<a>> \o @]
            /\ cnt' = [cnt EXCEPT ![dest] = @ + 1]
            /\ sent' = [sent EXCEPT ![s] = @ \cup {a}]
            /\ UNCHANGED <<misfiled, wild>>
    /\ UNCHANGED nickVars

SendMemo ==
    \E s, to \in Nicks, override \in BOOLEAN :
        (override => s \in Opers) /\ Send(s, to, override)

\* How many forwards, nicks without memos, blocks and saved memos there are.
Settings ==
    Cardinality({n \in Nicks : forward[n] # NoOne}) + Cardinality(nomemo)
        + Cardinality({p \in Nicks \X Nicks : p[2] \in blocks[p[1]] \/ lost[p[1]] > 0})
        + Cardinality({a \in Memos : memo[a].save})

\* What an index names: memocnt bounds it.
Indexed(n) == {box[n][i] : i \in {j \in DOMAIN box[n] : j <= cnt[n]}}

\* READ n and READ ALL.
Read ==
    /\ \E n \in Nicks : \E read \in {ToSet(box[n])} \cup {{a} : a \in Indexed(n)} :
          read # {} /\ Touch(read, "unread")
    /\ UNCHANGED <<nickVars, wild>>

\* DELETE n, ALL (which NEW is as well) and OLD.
Delete ==
    /\ \E n \in Nicks :
          /\ cnt[n] # 0
          /\ \E gone \in {ToSet(box[n]), {a \in ToSet(box[n]) : ~memo[a].unread}}
                          \cup {{a} : a \in Indexed(n)} :
                gone # {} /\ Touch(gone, "del")
    /\ UNCHANGED <<nickVars, wild>>

SaveFlag ==
    /\ Settings < MaxSettings
    /\ \E n \in Nicks : \E a \in Indexed(n) : memo' = [memo EXCEPT ![a].save = TRUE]
    /\ UNCHANGED <<nickVars, wild, box, sent, cnt, misfiled>>

\* CLEAN, and cleanMemos() when a user with MSELFCLEAN leaves.
Clean ==
    /\ \E n \in Nicks :
          LET gone == {a \in ToSet(box[n]) : memo[a].del} IN
          /\ gone # {}
          /\ FromBox(gone, [a \in gone |-> n], {})
    /\ UNCHANGED <<nickVars, wild>>

Forward ==
    /\ \E n, to \in reg :
          \/ Settings < MaxSettings /\ forward' = [forward EXCEPT ![n] = to]
          \/ forward[n] # NoOne /\ forward' = [forward EXCEPT ![n] = NoOne]
    /\ UNCHANGED <<memoVars, reg, nomemo, blocks, lost, wild>>

Nomemo ==
    /\ \E n \in reg : \/ Settings < MaxSettings /\ nomemo' = nomemo \cup {n}
                    \/ nomemo' = nomemo \ {n}
    /\ UNCHANGED <<memoVars, reg, forward, blocks, lost, wild>>

Mblock ==
    /\ \E n, m \in reg :
          \/ /\ Cardinality(blocks[n]) + lost[n] < MaxBlocks /\ Settings < MaxSettings
             /\ blocks' = [blocks EXCEPT ![n] = @ \cup {m}]
          \/ blocks' = [blocks EXCEPT ![n] = @ \ {m}]
    /\ UNCHANGED <<memoVars, reg, forward, nomemo, lost, wild>>

\* UNSEND n and UNSEND ALL: the box that is named is the one of realto.
Unsend ==
    /\ \E n \in Nicks : \E gone \in {sent[n]} \cup {{a} : a \in sent[n]} :
          /\ n \in reg /\ gone # {}
          /\ IF \E a \in gone : memo[a].to = Gone THEN wild' = TRUE /\ UNCHANGED memoVars
             ELSE FromBox(gone, [a \in gone |-> memo[a].to], {}) /\ UNCHANGED wild
    /\ UNCHANGED nickVars

\* Mutant of DelRegNick: the memos in its box are left.
DelRegNickSent(n) == FromBox(sent[n], [a \in sent[n] |-> memo[a].to], {n})

\* delRegNick(): the memos it sent that nobody read go, then those in its box.
DelRegNick(n) ==
    LET gone == sent[n] \cup ToSet(box[n]) IN
    FromBox(gone, [a \in gone |-> IF a \in sent[n] THEN memo[a].to ELSE n], {n})

\* DROP, DELETE and expiry.  Nobody looks for forwards to n, for blocks of n, or for
\* memos to n that were forwarded: those pointers and numbers are left.
Drop ==
    \E n \in reg :
        IF \E a \in sent[n] : memo[a].to = Gone
        THEN wild' = TRUE /\ UNCHANGED <<memoVars, nickVars>>
        ELSE /\ DelRegNick(n)
             /\ reg' = reg \ {n}
             /\ nomemo' = nomemo \ {n}
             /\ forward' = [m \in Nicks |-> IF m = n THEN NoOne
                                           ELSE IF forward[m] = n THEN Gone ELSE forward[m]]
             /\ blocks' = [m \in Nicks |-> IF m = n THEN {} ELSE blocks[m] \ {n}]
             /\ lost' = [m \in Nicks |-> IF m = n THEN 0 ELSE
                                         IF n \in blocks[m] THEN lost[m] + 1 ELSE lost[m]]
             /\ UNCHANGED wild

Register ==
    /\ \E n \in Nicks \ reg : reg' = reg \cup {n}
    /\ UNCHANGED <<memoVars, forward, nomemo, blocks, lost, wild>>
-----------------------------------------------------------------------------
\* ShouldMemoExpire(memo, 0)
Expired(a) ==
    \/ memo[a].del
    \/ ~memo[a].save /\ memo[a].age >= (IF memo[a].unread THEN NickDrop ELSE MemoDrop)

\* saveMemoData() goes on behind the memo that follows an expired one, without
\* a look at it: which places of the list does it come to?
Visited(list) ==
    LET visited[i \in 1 .. Len(list)] ==
            \/ i = 1
            \/ i > 1 /\ visited[i - 1] /\ ~Expired(list[i - 1])
            \/ i > 2 /\ visited[i - 2] /\ Expired(list[i - 2])
    IN visited

\* Mutant of Loaded: it is MEMODROPTIME that is looked at in the end.
LoadedEarly(n) ==
    LET list == box[n]
        written == {list[i] : i \in {j \in DOMAIN list : Visited(list)[j] /\ ~Expired(list[j])}}
    IN Only(Reverse(list), {a \in written : memo[a].save \/ memo[a].age < MemoDrop})

\* The memos of n that are written and read back, and not too old then; the
\* first one written is the last of the new list.
Loaded(n) ==
    LET list == box[n]
        written == {list[i] : i \in {j \in DOMAIN list : Visited(list)[j] /\ ~Expired(list[j])}}
    IN Only(Reverse(list), {a \in written : memo[a].save \/ memo[a].age < NickDrop})

\* sshutdown() and the start of a new process.  A memo is for the nick whose box
\* it is in; one that is not read is on the list of the sender's nick again.
Restart ==
    /\ IF \E n \in Nicks : forward[n] = Gone
       THEN wild' = TRUE /\ UNCHANGED <<memoVars, lost>>
       ELSE LET kept == UNION {ToSet(Loaded(n)) : n \in Nicks} IN
            /\ box' = [n \in Nicks |-> Loaded(n)]
            /\ memo' = [a \in Addr |-> IF a \in kept
                          THEN [memo[a] EXCEPT !.to = Owner(a)] ELSE Free]
            /\ cnt' = [n \in Nicks |-> Len(Loaded(n))]
            /\ sent' = [n \in Nicks |-> {a \in kept : /\ memo[a].from = n /\ n \in reg
                                                      /\ memo[a].unread}]
            /\ misfiled' = 0
            /\ lost' = [n \in Nicks |-> 0]
            /\ UNCHANGED wild
    /\ UNCHANGED <<reg, forward, nomemo, blocks>>

Commands == SendMemo \/ Read \/ Delete \/ SaveFlag \/ Clean \/ Forward \/ Nomemo \/ Mblock \/ Unsend
Nickserv == Drop \/ Register

Next == ~wild /\ (Tick \/ Commands \/ Nickserv \/ Restart)

Spec == Init /\ [][Next]_vars
-----------------------------------------------------------------------------
(***************************************************************************)
(* Properties.                                                             *)
(***************************************************************************)

\* Every memo is in exactly one box, once, and in the box of somebody registered.
InOneBox ==
    /\ \A n \in Nicks : IsInjective(box[n]) /\ (box[n] # <<>> => n \in reg)
    /\ \A n, m \in Nicks : n # m => ToSet(box[n]) \cap ToSet(box[m]) = {}
    /\ Memos = UNION {ToSet(box[n]) : n \in Nicks}

\* What a sender may unsend are memos of that sender which nobody has read or
\* deleted (note of ms_unsend()); and the sender may unsend all of those.
UnsendUnread ==
    \A n \in Nicks :
        sent[n] = {a \in Memos : memo[a].from = n /\ memo[a].unread /\ ~memo[a].del}

\* memocnt counts the memos of the box, until one was deleted that had been
\* forwarded: it then counts for another box.
CountsMatch == misfiled = 0 => \A n \in reg : cnt[n] = Len(box[n])

\* A memo that was not forwarded is where it was meant to go, and its sender may
\* unsend it without touching a registration that is gone.
PlainAtHome ==
    \A a \in Memos : ~memo[a].fwd => memo[a].to # Gone /\ a \in ToSet(box[memo[a].to])

\* A box that is full takes a memo from an operator with OVERRIDE only.
WithinLimit ==
    [][SendMemo /\ misfiled = 0 => \A n \in Nicks :
          Len(box[n]) >= BoxMax => \A a \in ToSet(box'[n]) \ ToSet(box[n]) : memo'[a].from \in Opers]_vars

\* A restart brings back no memo that has run out, and loses no other than one that
\* follows one of those in its box.
RestartKeeps ==
    [][Restart /\ ~wild' => \A n \in Nicks : \A i \in DOMAIN box[n] :
          LET a == box[n][i] IN
          /\ a \in Memos' => a \in ToSet(box'[n]) /\ ~Expired(a)
          /\ a \notin Memos' => Expired(a) \/ (i > 1 /\ Expired(box[n][i - 1]))]_vars

\* A restart loses only memos that have run out (comment "Memo expiration code").
RestartKeepsAll ==
    [][Restart /\ ~wild' => \A a \in Memos \ Memos' : Expired(a)]_vars

\* memocnt is the number of memos (struct _memobox).
CountsAlways == \A n \in reg : cnt[n] = Len(box[n])

\* No registration is used after delRegNick() (\post of delRegNick()).
NeverWild == ~wild
=============================================================================
