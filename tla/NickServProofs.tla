--------------------------- MODULE NickServProofs ---------------------------
(***************************************************************************)
(* Theorems about the two halves of a nick: NickServ (its types, who       *)
(* counts as identified, the enforcers), and then the servers that hand    *)
(* nicks out (Net: its types, one holder of a nick, the nick history, the  *)
(* watch lists).                                                           *)
(***************************************************************************)
EXTENDS NickServ, Net, FoldLemmas, SequenceTheorems

(***************************************************************************)
(* Types.                                                                  *)
(***************************************************************************)

\* The timers that the handlers start are timers.
LEMMA TimerTypes ==
    ASSUME now \in Nat, NEW n \in Names
    PROVE  /\ \A time \in Nat : GhostTimer(n, time) \in Timer
           /\ \A h \in Hosts \cup {NoHost}, rest \in Nat, delay \in Nat :
                KillTimer(n, h, rest, delay) \in Timer
           /\ \A h \in Hosts : Annoy(n, h) \subseteq Timer
           /\ BanTimer(n) \subseteq Timer
           /\ Deadline(n) \in Nat
<1>1. /\ IdTime \in Nat /\ Warn \in Nat /\ BanTime \in Nat
  BY NickServAssumption
<1>2. \A time \in Nat : GhostTimer(n, time) \in Timer
  BY DEF GhostTimer, Timer
<1>3. \A h \in Hosts \cup {NoHost}, rest \in Nat, delay \in Nat :
        KillTimer(n, h, rest, delay) \in Timer
  BY DEF KillTimer, Timer
<1>4. \A h \in Hosts : Annoy(n, h) \subseteq Timer
  BY <1>1, <1>3 DEF Annoy
<1>5. BanTimer(n) \subseteq Timer
  BY <1>1, <1>3 DEF BanTimer
<1>6. Deadline(n) \in Nat
  BY <1>1 DEF Deadline
<1> QED BY <1>2, <1>3, <1>4, <1>5, <1>6

\* NickSeeUser() and remUser() leave a registration a registration.
LEMMA SeenTypes ==
    ASSUME TypeOK
    PROVE  /\ \A r \in Reg, h \in Hosts : SeeUser(r, h) \in Reg
           /\ \A n \in Names, t \in Nat : Registered(n) =>
                [regs EXCEPT ![n].seen = t] \in [Names -> Reg \cup {NoReg}]
           /\ \A n \in Names : RemUser(n) =>
                /\ users' \in [Names -> User \cup {NoUser}]
                /\ regs' \in [Names -> Reg \cup {NoReg}]
<1>1. \A r \in Reg, h \in Hosts : SeeUser(r, h) \in Reg
  BY DEF SeeUser, Reg, TypeOK
<1>2. \A n \in Names, t \in Nat : Registered(n) =>
        [regs EXCEPT ![n].seen = t] \in [Names -> Reg \cup {NoReg}]
  <2> SUFFICES ASSUME NEW n \in Names, NEW t \in Nat, Registered(n)
               PROVE  [regs EXCEPT ![n].seen = t] \in [Names -> Reg \cup {NoReg}]
    OBVIOUS
  <2>1. regs[n] \in Reg
    BY DEF Registered, TypeOK
  <2>2. [regs[n] EXCEPT !.seen = t] \in Reg
    BY <2>1 DEF Reg
  <2> QED BY <2>2 DEF TypeOK
<1>3. ASSUME NEW n \in Names, RemUser(n)
      PROVE  /\ users' \in [Names -> User \cup {NoUser}]
             /\ regs' \in [Names -> Reg \cup {NoReg}]
  <2>1. users' \in [Names -> User \cup {NoUser}]
    BY <1>3 DEF RemUser, TypeOK
  <2>2. regs' \in [Names -> Reg \cup {NoReg}]
    <3>1. CASE Identified(n, n)
      BY <1>2, <1>3, <3>1 DEF RemUser, TypeOK, Identified
    <3>2. CASE ~Identified(n, n)
      BY <1>3, <3>2 DEF RemUser, TypeOK
    <3> QED BY <3>1, <3>2
  <2> QED BY <2>1, <2>2
<1> QED BY <1>1, <1>2, <1>3

\* changeNick() makes a user of the nick it is given.
LEMMA ChangeTypes ==
    ASSUME TypeOK, NEW n \in Names, NEW m \in Names, NEW intact \in BOOLEAN,
           Live(n), ChangeNick(n, m, intact)
    PROVE  /\ users' \in [Names -> User \cup {NoUser}]
           /\ regs' \in [Names -> Reg \cup {NoReg}]
           /\ ghosts' \subseteq Names
           /\ timers' \subseteq Timer
<1> DEFINE u == users[n]
           id == CarryId(u.id)
           asked == IF u.cnick THEN {n} ELSE {}
           held == IF u.cnick THEN timers \cup {GhostTimer(n, EnforceTime)} ELSE timers
           seen == IF Identified(n, n) THEN [regs EXCEPT ![n].seen = now] ELSE regs
           gone == [users EXCEPT ![n] = NoUser]
           acc == NewAccess(n, m, intact)
           matched == IdMatches(id, m)
           kept == n = m /\ intact
           thief == ~matched /\ ~kept /\ ~CheckAccess(u.host, m)
           greeted == matched \/ (~kept /\ ~thief)
           new == [host |-> u.host, id |-> IF matched THEN NoId ELSE id, cnick |-> FALSE,
                   proved |-> u.proved, reg |-> regs[m].num, acc |-> acc,
                   deadline |-> IF thief \/ regs[m].ban THEN Deadline(m)
                                ELSE IF kept /\ ~matched THEN u.deadline ELSE 0]
           plain == [host |-> u.host, id |-> id, cnick |-> FALSE, proved |-> u.proved,
                     reg |-> 0, acc |-> Offline, deadline |-> 0]
           refused == <<m, u.host>> \in Akilled \/ isGhost(m) \/ m \in asked
<1>1. u \in User /\ now \in Nat /\ EnforceTime \in Nat
  BY NickServAssumption DEF TypeOK, Live, Online
<1>2. u.host \in Hosts /\ u.proved \in SUBSET Nat /\ u.deadline \in Nat
      /\ u.acc \in Offline .. IdentifiedAcc /\ u.id \in Id \cup {NoId}
  BY <1>1 DEF User
<1>3. id \in Id \cup {NoId}
  BY <1>1, <1>2 DEF CarryId, Id
<1>4. held \subseteq Timer
  BY <1>1, TimerTypes DEF TypeOK
<1>5. seen \in [Names -> Reg \cup {NoReg}] /\ (Registered(m) => seen[m] \in Reg)
  <2>1. CASE Identified(n, n)
    <3>1. regs[n] \in Reg /\ Registered(n)
      BY <2>1 DEF Identified, Registered, TypeOK
    <3>2. seen = [regs EXCEPT ![n].seen = now] /\ seen \in [Names -> Reg \cup {NoReg}]
      BY <1>1, <2>1, <3>1, SeenTypes
    <3>3. [regs[n] EXCEPT !.seen = now] \in Reg
      BY <1>1, <3>1 DEF Reg
    <3>4. Registered(m) => seen[m] \in Reg
      BY <2>1, <3>3 DEF Registered, TypeOK
    <3> QED BY <3>2, <3>4
  <2>2. CASE ~Identified(n, n)
    BY <2>2 DEF TypeOK, Registered
  <2> QED BY <2>1, <2>2
<1>6. gone \in [Names -> User \cup {NoUser}]
  BY DEF TypeOK
<1>7. plain \in User
  BY <1>2, <1>3 DEF User, Offline, IdentifiedAcc
<1>8. ASSUME Registered(m) PROVE new \in User
  <2>1. regs[m] \in Reg /\ regs[m].num \in Nat
    BY <1>8 DEF Registered, TypeOK, Reg
  <2>2. acc \in Offline .. IdentifiedAcc
    BY <1>2 DEF NewAccess, Offline, Recognized, IdentifiedAcc
  <2>3. (IF matched THEN NoId ELSE id) \in Id \cup {NoId}
    BY <1>3
  <2>4. (IF thief \/ regs[m].ban THEN Deadline(m)
         ELSE IF kept /\ ~matched THEN u.deadline ELSE 0) \in Nat
    BY <1>1, <1>2, TimerTypes
  <2> HIDE DEF u, id, matched, acc, kept, thief
  <2> QED BY <1>2, <2>1, <2>2, <2>3, <2>4 DEF User
<1>9. CASE refused
  <2>1. users' = gone /\ ghosts' = ghosts \cup asked \cup {m} /\ timers' = held /\ regs' = seen
    BY <1>9 DEF ChangeNick
  <2> QED BY <1>4, <1>5, <1>6, <2>1 DEF TypeOK
<1>10. CASE ~refused
  <2>1. /\ ghosts' = ghosts \cup asked
        /\ users' = [gone EXCEPT ![m] = IF Registered(m) THEN new ELSE plain]
        /\ timers' = IF Registered(m)
                     THEN held \cup BanTimer(m) \cup IF thief THEN Annoy(m, u.host) ELSE {}
                     ELSE held
        /\ regs' = IF Registered(m) /\ greeted
                   THEN [seen EXCEPT ![m] = SeeUser(@, u.host)] ELSE seen
    BY <1>10 DEF ChangeNick
  <2>2. BanTimer(m) \subseteq Timer /\ Annoy(m, u.host) \subseteq Timer
    BY <1>1, <1>2, TimerTypes
  <2>3. timers' \subseteq Timer
    BY <1>4, <2>1, <2>2
  <2>4. regs' \in [Names -> Reg \cup {NoReg}]
    BY <1>2, <1>5, <2>1, SeenTypes
  <2>5. users' \in [Names -> User \cup {NoUser}]
    BY <1>6, <1>7, <1>8, <2>1
  <2>6. ghosts' \subseteq Names
    BY <2>1 DEF TypeOK
  <2> QED BY <2>3, <2>4, <2>5, <2>6
<1> QED BY <1>9, <1>10

\* Every variable keeps its type.
LEMMA TypeStep ==
    ASSUME TypeOK, [Next]_vars
    PROVE  TypeOK'
<1>0. /\ EnforceTime \in Nat /\ AkillTime \in Nat /\ RejectTime \in Nat
      /\ MaxUsers \in Nat /\ MaxReg \in Nat /\ IdTime \in Nat /\ Warn \in Nat
  BY NickServAssumption
<1>1. CASE UNCHANGED vars
  BY <1>1 DEF vars, TypeOK
<1>2. CASE Tick
  BY <1>2 DEF Tick, TypeOK
<1>3. CASE NewUser
  <2>1. PICK n \in Names, h \in Hosts :
          RejectUser(n, h) \/ \E clone \in {FALSE, CloneKills} : AcceptUser(n, h, clone)
    BY <1>3 DEF NewUser
  <2>2. UNCHANGED <<now, top, aborted>>
    BY <1>3 DEF NewUser
  <2>3. CASE RejectUser(n, h)
    BY <1>0, <2>2, <2>3, TimerTypes DEF RejectUser, TypeOK
  <2>4. ASSUME NEW clone \in {FALSE, CloneKills}, AcceptUser(n, h, clone) PROVE TypeOK'
    <3>1. timers' \subseteq Timer
      BY <2>4, TimerTypes DEF AcceptUser, TypeOK
    <3>2. regs' \in [Names -> Reg \cup {NoReg}]
      <4>1. Registered(n) => SeeUser(regs[n], h) \in Reg
        BY SeenTypes DEF Registered, TypeOK
      <4> QED BY <2>4, <4>1 DEF AcceptUser, TypeOK
    <3>3. users' \in [Names -> User \cup {NoUser}]
      <4>1. Registered(n) => regs[n].num \in Nat
        BY DEF Registered, TypeOK, Reg
      <4>2. Deadline(n) \in Nat
        BY TimerTypes DEF TypeOK
      <4> QED BY <2>4, <4>1, <4>2 DEF AcceptUser, TypeOK, User, Offline, NotRecognized,
                   Recognized, IdentifiedAcc
    <3> QED BY <2>2, <2>4, <3>1, <3>2, <3>3 DEF AcceptUser, TypeOK
  <2> QED BY <2>1, <2>3, <2>4
<1>4. CASE BadIdent
  BY <1>0, <1>4, TimerTypes DEF BadIdent, TypeOK
<1>5. CASE Nick
  <2>1. PICK n \in Names, m \in Names, intact \in BOOLEAN : Live(n) /\ ChangeNick(n, m, intact)
    BY <1>5 DEF Nick
  <2> QED BY <1>5, <2>1, ChangeTypes DEF Nick, TypeOK
<1>6. CASE Cnick
  <2>1. PICK n \in sent :
          /\ sent' = sent \ {n}
          /\ IF Online(n) THEN Live(n) /\ \E g \in Guests : ~Online(g) /\ ChangeNick(n, g, TRUE)
             ELSE UNCHANGED <<users, regs, ghosts, timers>>
    BY <1>6 DEF Cnick
  <2>2. n \in Names /\ Guests \subseteq Names
    BY DEF TypeOK, Names
  <2>3. CASE Online(n)
    BY <1>6, <2>1, <2>2, <2>3, ChangeTypes DEF Cnick, TypeOK
  <2>4. CASE ~Online(n)
    BY <1>6, <2>1, <2>4 DEF Cnick, TypeOK
  <2> QED BY <2>3, <2>4
<1>7. CASE Quit
  BY <1>7, SeenTypes DEF Quit, TypeOK
<1>8. CASE KillGhost
  BY <1>8 DEF KillGhost, TypeOK
<1>9. CASE Identify
  <2>1. PICK n \in Names, m \in Nicks, valid \in BOOLEAN :
          /\ Live(n) /\ Registered(m) /\ ~regs[m].ban
          /\ LET local == users[n].reg = regs[m].num IN
             IF valid THEN
                /\ users' = [users EXCEPT
                     ![n].acc = IF local THEN IdentifiedAcc ELSE @,
                     ![n].deadline = IF local THEN 0 ELSE @,
                     ![n].id = IF local THEN @
                               ELSE [nick |-> m, ts |-> now, num |-> regs[m].num],
                     ![n].proved = @ \cup {regs[m].num}]
                /\ regs' = [regs EXCEPT ![m] = SeeUser(@, users[n].host)]
             ELSE
                /\ local
                /\ users' = [users EXCEPT ![n].acc = NotRecognized]
                /\ UNCHANGED regs
    BY <1>9 DEF Identify
  <2>2. users[n] \in User /\ regs[m] \in Reg /\ m \in Names
    BY <2>1 DEF Live, Online, Registered, TypeOK, Names
  <2>3. regs[m].num \in Nat /\ SeeUser(regs[m], users[n].host) \in Reg
    BY <2>2, SeenTypes DEF Reg, User
  <2>4. [nick |-> m, ts |-> now, num |-> regs[m].num] \in Id
    BY <2>2, <2>3 DEF Id, TypeOK
  <2>5. users' \in [Names -> User \cup {NoUser}]
    <3>1. CASE valid
      BY <2>1, <2>2, <2>3, <2>4, <3>1 DEF TypeOK, User, Offline, IdentifiedAcc
    <3>2. CASE ~valid
      BY <2>1, <2>2, <3>2 DEF TypeOK, User, Offline, IdentifiedAcc, NotRecognized
    <3> QED BY <3>1, <3>2
  <2>6. regs' \in [Names -> Reg \cup {NoReg}]
    BY <2>1, <2>3 DEF TypeOK
  <2> QED BY <1>9, <2>5, <2>6 DEF Identify, TypeOK
<1>10. CASE Register
  <2>1. PICK n \in Nicks :
          /\ Online(n) /\ users[n].reg = 0
          /\ aborted' = Registered(n)
          /\ IF Registered(n) THEN UNCHANGED <<users, regs>>
             ELSE /\ users' = [users EXCEPT ![n].reg = top + 1, ![n].acc = IdentifiedAcc,
                                            ![n].proved = @ \cup {top + 1}]
                  /\ regs' = [regs EXCEPT ![n] =
                        [num |-> top + 1, timereg |-> now, seen |-> now, ban |-> FALSE,
                         vac |-> FALSE, acl |-> {}, host |-> users[n].host]]
    BY <1>10 DEF Register
  <2>2. n \in Names /\ users[n] \in User /\ top + 1 \in Nat /\ now \in Nat
    BY <2>1 DEF Online, TypeOK, Names
  <2>3. users' \in [Names -> User \cup {NoUser}]
    BY <2>1, <2>2 DEF TypeOK, User, Offline, IdentifiedAcc
  <2>4. regs' \in [Names -> Reg \cup {NoReg}]
    <3>1. users[n].host \in Hosts
      BY <2>2 DEF User
    <3>2. [num |-> top + 1, timereg |-> now, seen |-> now, ban |-> FALSE,
           vac |-> FALSE, acl |-> {}, host |-> users[n].host] \in Reg
      BY <2>2, <3>1 DEF Reg
    <3> QED BY <2>1, <2>2, <3>2 DEF TypeOK
  <2>5. aborted' \in BOOLEAN
    BY <2>1 DEF Registered
  <2> QED BY <1>10, <2>2, <2>3, <2>4, <2>5 DEF Register, TypeOK
<1>11. CASE Drop
  <2>1. PICK n \in Nicks :
          Live(n) /\ regs' = [regs EXCEPT ![n] = NoReg] /\ users' = [users EXCEPT ![n].reg = 0]
    BY <1>11 DEF Drop
  <2>2. n \in Names /\ users[n] \in User
    BY <2>1 DEF Live, Online, TypeOK, Names
  <2>3. [users[n] EXCEPT !.reg = 0] \in User
    BY <2>2 DEF User
  <2> QED BY <1>11, <2>1, <2>3 DEF Drop, TypeOK
<1>12. CASE Masks
  <2>1. PICK n \in Nicks, h \in Hosts :
          /\ Live(n) /\ users[n].reg # 0 /\ Identified(n, n)
          /\ \E acl \in {regs[n].acl \cup {h}, regs[n].acl \ {h}} :
                regs' = [regs EXCEPT ![n].acl = acl]
    BY <1>12 DEF Masks
  <2>2. n \in Names /\ regs[n] \in Reg
    BY <2>1 DEF Identified, Registered, TypeOK, Names
  <2>3. \A acl \in {regs[n].acl \cup {h}, regs[n].acl \ {h}} : [regs[n] EXCEPT !.acl = acl] \in Reg
    BY <2>2 DEF Reg
  <2> QED BY <1>12, <2>1, <2>3 DEF Masks, TypeOK
<1>13. CASE Vacation
  <2>1. PICK n \in Nicks : Identified(n, n) /\ regs' = [regs EXCEPT ![n].vac = TRUE]
    BY <1>13 DEF Vacation
  <2>2. n \in Names /\ regs[n] \in Reg
    BY <2>1 DEF Identified, Registered, TypeOK, Names
  <2>3. [regs[n] EXCEPT !.vac = TRUE] \in Reg
    BY <2>2 DEF Reg
  <2> QED BY <1>13, <2>1, <2>3 DEF Vacation, TypeOK
<1>14. CASE Logoff
  <2>1. PICK n \in Names :
          /\ Live(n)
          /\ users' = [users EXCEPT ![n].id = NoId,
                                    ![n].acc = IF @ > Recognized THEN Recognized ELSE @]
    BY <1>14 DEF Logoff
  <2>2. users[n] \in User
    BY <2>1 DEF Live, Online, TypeOK
  <2>3. \A acc \in Offline .. IdentifiedAcc :
           [users[n] EXCEPT !.id = NoId, !.acc = acc] \in User
    BY <2>2 DEF User
  <2>4. (IF users[n].acc > Recognized THEN Recognized ELSE users[n].acc) \in Offline .. IdentifiedAcc
    BY <2>2 DEF User, Offline, Recognized, IdentifiedAcc
  <2>5. users' \in [Names -> User \cup {NoUser}]
    BY <2>1, <2>3, <2>4 DEF TypeOK
  <2> QED BY <1>14, <2>5 DEF Logoff, TypeOK
<1>15. CASE GhostCommand
  <2>1. PICK n \in Names, m \in Nicks, password \in BOOLEAN : Ghost(n, m, password)
    BY <1>15 DEF GhostCommand
  <2>2. m \in Names
    BY DEF Names
  <2> QED BY <2>1, <2>2, SeenTypes DEF Ghost, TypeOK
<1>16. CASE Recover
  <2>1. PICK n \in Names, m \in Nicks : Online(m) /\ Enforce(m)
    BY <1>16 DEF Recover
  <2>2. m \in Names /\ users[m] \in User
    BY <2>1 DEF Online, TypeOK, Names
  <2>3. [users[m] EXCEPT !.cnick = TRUE] \in User
    BY <2>2 DEF User
  <2> QED BY <1>16, <2>1, <2>2, <2>3 DEF Recover, Enforce, TypeOK
<1>17. CASE Release
  BY <1>17 DEF Release, TypeOK
<1>18. CASE OperDelete
  BY <1>18 DEF OperDelete, TypeOK
<1>19. CASE OperBanish
  <2>1. PICK m \in Nicks :
          LET num == IF Registered(m) THEN regs[m].num ELSE top + 1 IN
          /\ Registered(m) \/ top < MaxReg
          /\ top' = IF Registered(m) THEN top ELSE num
          /\ regs' = [regs EXCEPT ![m] =
                [num |-> num, timereg |-> 0, seen |-> 0, ban |-> TRUE, vac |-> FALSE,
                 acl |-> {}, host |-> NoHost]]
    BY <1>19 DEF OperBanish
  <2>2. Registered(m) => regs[m].num \in Nat
    BY DEF Registered, TypeOK, Names, Reg
  <2>3. \A num \in Nat : [num |-> num, timereg |-> 0, seen |-> 0, ban |-> TRUE, vac |-> FALSE,
                           acl |-> {}, host |-> NoHost] \in Reg
    BY DEF Reg
  <2>4. top' \in Nat /\ (IF Registered(m) THEN regs[m].num ELSE top + 1) \in Nat
    BY <2>1, <2>2 DEF TypeOK
  <2>5. regs' \in [Names -> Reg \cup {NoReg}]
    BY <2>1, <2>3, <2>4 DEF TypeOK
  <2> QED BY <1>19, <2>4, <2>5 DEF OperBanish, TypeOK
<1>20. CASE Expire
  <2>1. ASSUME NEW n \in Names, Registered(n)
        PROVE  /\ [regs[n] EXCEPT !.seen = now] \in Reg
               /\ [regs[n] EXCEPT !.seen = regs[n].seen] \in Reg
    BY <2>1 DEF Registered, TypeOK, Reg
  <2>2. regs' \in [Names -> Reg \cup {NoReg}]
    BY <1>20, <2>1 DEF Expire
  <2> QED BY <1>20, <2>2 DEF Expire, TypeOK
<1>21. CASE TimerRuns
  <2>1. PICK t \in timers : GhostExpires(t) \/ KillId(t)
    BY <1>21 DEF TimerRuns
  <2>2. UNCHANGED <<now, regs, top, aborted>> /\ t \in Timer
    BY <1>21 DEF TimerRuns, TypeOK
  <2>3. CASE GhostExpires(t)
    BY <2>2, <2>3 DEF GhostExpires, TypeOK
  <2>4. CASE KillId(t)
    <3>1. Left(t.left) \in Nat /\ t.nick \in Names /\ t.host \in Hosts \cup {NoHost}
      BY <1>0, <2>2 DEF Left, Timer
    <3>2. timers' \subseteq Timer
      BY <1>0, <2>4, <3>1, TimerTypes DEF KillId, TypeOK
    <3>3. CASE UNCHANGED <<users, sent>>
      BY <2>2, <2>4, <3>2, <3>3 DEF KillId, TypeOK
    <3>4. CASE Found(t) /\ Enforce(t.nick)
      <4>1. users[t.nick] \in User
        BY <3>1, <3>4 DEF Found, Online, TypeOK
      <4>2. [users[t.nick] EXCEPT !.cnick = TRUE] \in User
        BY <4>1 DEF User
      <4> QED BY <2>2, <2>4, <3>1, <3>2, <3>4, <4>2 DEF KillId, Enforce, TypeOK
    <3> QED BY <2>4, <3>3, <3>4 DEF KillId
  <2> QED BY <2>1, <2>3, <2>4
<1> QED BY <1>1, <1>2, <1>3, <1>4, <1>5, <1>6, <1>7, <1>8, <1>9, <1>10, <1>11, <1>12, <1>13,
           <1>14, <1>15, <1>16, <1>17, <1>18, <1>19, <1>20, <1>21
        DEF Next, Signons, Commands, Upkeep

\* Users, registrations, enforcers and timers keep their types, whatever the
\* users, the operators and the clock do.
THEOREM TypeCorrect == Spec => []TypeOK
<1>1. ASSUME Init PROVE TypeOK
  <2>1. users \in [Names -> User \cup {NoUser}] /\ regs \in [Names -> Reg \cup {NoReg}]
    BY <1>1 DEF Init
  <2>2. now \in Nat /\ top \in Nat /\ ghosts = {} /\ timers = {} /\ sent = {} /\ aborted = FALSE
    BY <1>1 DEF Init
  <2> QED BY <2>1, <2>2 DEF TypeOK
<1> QED BY <1>1, TypeStep, PTL DEF Spec
-----------------------------------------------------------------------------
(***************************************************************************)
(* The enforcers.                                                          *)
(***************************************************************************)

\* Nobody uses the nick that an enforcer holds, and the enforcer will go, unless
\* an autokill keeps somebody from the nick: changeNick() then starts no timer.
GhostsInv ==
    \A n \in ghosts :
        /\ ~Online(n)
        /\ (\E t \in timers : t.kind = "ghost" /\ t.nick = n) \/ (\E h \in Hosts : <<n, h>> \in Akilled)

\* changeNick() leaves an enforcer on the nick it frees, with a timer, and on the
\* nick an autokill refuses.
LEMMA ChangeGhosts ==
    ASSUME TypeOK, GhostsInv,
           NEW n \in Names, NEW m \in Names, NEW intact \in BOOLEAN,
           Live(n), n = m \/ ~Online(m), ChangeNick(n, m, intact)
    PROVE  GhostsInv'
<1> DEFINE asked == IF users[n].cnick THEN {n} ELSE {}
           held == IF users[n].cnick THEN timers \cup {GhostTimer(n, EnforceTime)} ELSE timers
           gone == [users EXCEPT ![n] = NoUser]
           refused == <<m, users[n].host>> \in Akilled \/ isGhost(m) \/ m \in asked
<1>1. held \subseteq timers' /\ gone \in [Names -> User \cup {NoUser}]
  BY DEF ChangeNick, TypeOK
<1>2. ~isGhost(n) /\ \A k \in Names : k # n => gone[k] = users[k]
  BY DEF GhostsInv, Live, isGhost, TypeOK
<1>3. GhostTimer(n, EnforceTime).kind = "ghost" /\ GhostTimer(n, EnforceTime).nick = n
  BY DEF GhostTimer
<1>4. \A k \in ghosts \cup asked :
        (\E t \in held : t.kind = "ghost" /\ t.nick = k) \/ (\E h \in Hosts : <<k, h>> \in Akilled)
  BY <1>3 DEF GhostsInv
<1>5. \A k \in ghosts \cup asked : k \in Names /\ gone[k] = NoUser
  BY <1>2 DEF GhostsInv, TypeOK, Online
<1>6. CASE refused
  <2>1. users' = gone /\ ghosts' = ghosts \cup asked \cup {m}
        /\ (m \in ghosts \cup asked \/ <<m, users[n].host>> \in Akilled)
    BY <1>6 DEF ChangeNick, isGhost
  <2>2. gone[m] = NoUser /\ users[n].host \in Hosts
    BY <1>1, <1>2 DEF Live, Online, TypeOK, User
  <2> QED BY <1>1, <1>4, <1>5, <2>1, <2>2 DEF GhostsInv, Online
<1>7. CASE ~refused
  <2>1. ghosts' = ghosts \cup asked /\ \E u : users' = [gone EXCEPT ![m] = u]
    BY <1>7 DEF ChangeNick
  <2>2. m \notin ghosts \cup asked
    BY <1>7 DEF isGhost
  <2>3. \A k \in ghosts' : users'[k] = NoUser
    BY <1>1, <1>5, <2>1, <2>2
  <2> QED BY <1>1, <1>4, <2>1, <2>3 DEF GhostsInv, Online
<1> QED BY <1>6, <1>7

\* A step that signs nobody on and adds no enforcer.
LEMMA FewerGhosts ==
    ASSUME GhostsInv, ghosts' \subseteq ghosts, timers \subseteq timers',
           \A k \in ghosts' : users'[k] = users[k]
    PROVE  GhostsInv'
BY DEF GhostsInv, Online

\* An enforcer signed on for a nick nobody uses, with its timer.
LEMMA NewGhost ==
    ASSUME GhostsInv, NEW n \in Names, ~Online(n), NEW time, users' = users,
           ghosts' = ghosts \cup {n}, timers' = timers \cup {GhostTimer(n, time)}
    PROVE  GhostsInv'
<1>1. GhostTimer(n, time) \in timers' /\ GhostTimer(n, time).kind = "ghost"
      /\ GhostTimer(n, time).nick = n
  BY DEF GhostTimer
<1>2. \A k \in ghosts' : (\E t \in timers' : t.kind = "ghost" /\ t.nick = k)
                           \/ (\E h \in Hosts : <<k, h>> \in Akilled)
  BY <1>1 DEF GhostsInv
<1> QED BY <1>2 DEF GhostsInv, Online

\* The enforcers through every step.
THEOREM GhostsHeld == Spec => []GhostsInv
<1>1. Init => GhostsInv
  BY DEF Init, GhostsInv
<1>2. TypeOK /\ GhostsInv /\ [Next]_vars => GhostsInv'
  <2> SUFFICES ASSUME TypeOK, GhostsInv, [Next]_vars
               PROVE  GhostsInv'
    OBVIOUS
  <2>0. ghosts \subseteq Names /\ (\A k \in ghosts : users[k] = NoUser) /\ Nicks \subseteq Names
    BY DEF GhostsInv, Online, TypeOK, Names
  <2>1. CASE UNCHANGED vars
    BY <2>1, FewerGhosts DEF vars
  <2>2. CASE Tick
    BY <2>2, FewerGhosts DEF Tick
  <2>3. CASE NewUser
    <3>1. PICK n \in Names, h \in Hosts :
            /\ ~Online(n)
            /\ RejectUser(n, h) \/ \E clone \in {FALSE, CloneKills} : AcceptUser(n, h, clone)
      BY <2>3 DEF NewUser
    <3>2. CASE RejectUser(n, h)
      <4>1. CASE isGhost(n)
        BY <3>2, <4>1, FewerGhosts DEF RejectUser
      <4>2. CASE ~isGhost(n)
        BY <3>1, <3>2, <4>2, NewGhost DEF RejectUser
      <4> QED BY <4>1, <4>2
    <3>3. ASSUME NEW clone \in {FALSE, CloneKills}, AcceptUser(n, h, clone)
          PROVE  GhostsInv'
      <4>1. \A k \in ghosts' : k # n /\ users'[k] = users[k]
        BY <2>0, <3>3 DEF AcceptUser, isGhost, TypeOK
      <4> QED BY <3>3, <4>1, FewerGhosts DEF AcceptUser
    <3> QED BY <3>1, <3>2, <3>3
  <2>4. CASE BadIdent
    <3>1. PICK n \in Names :
            /\ ~Online(n)
            /\ ghosts' = ghosts \cup {n}
            /\ timers' = timers \cup {GhostTimer(n, RejectTime)}
      BY <2>4 DEF BadIdent
    <3> QED BY <2>4, <3>1, NewGhost DEF BadIdent
  <2>5. CASE Nick
    <3>1. PICK n \in Names, m \in Names, intact \in BOOLEAN :
            Live(n) /\ (~Online(m) \/ n = m) /\ ChangeNick(n, m, intact)
      BY <2>5 DEF Nick
    <3> QED BY <3>1, ChangeGhosts
  <2>6. CASE Cnick
    <3>1. PICK n \in sent :
            IF Online(n) THEN Live(n) /\ \E g \in Guests : ~Online(g) /\ ChangeNick(n, g, TRUE)
            ELSE UNCHANGED <<users, regs, ghosts, timers>>
      BY <2>6 DEF Cnick
    <3>2. n \in Names /\ Guests \subseteq Names
      BY DEF TypeOK, Names
    <3>3. CASE Online(n)
      BY <3>1, <3>2, <3>3, ChangeGhosts
    <3>4. CASE ~Online(n)
      BY <3>1, <3>4, FewerGhosts
    <3> QED BY <3>3, <3>4
  <2>7. CASE Quit
    BY <2>0, <2>7, FewerGhosts DEF Quit, RemUser, TypeOK
  <2>8. CASE KillGhost
    BY <2>8, FewerGhosts DEF KillGhost
  <2>9. CASE Identify \/ Register \/ Drop \/ Logoff
    <3>1. ASSUME NEW k \in ghosts PROVE users'[k] = users[k]
      <4>1. k \in Names /\ users[k] = NoUser
        BY <2>0
      <4>2. CASE Identify
        BY <4>1, <4>2 DEF Identify, Live, Online, TypeOK
      <4>3. CASE Register
        BY <4>1, <4>3 DEF Register, Online, TypeOK
      <4>4. CASE Drop
        BY <4>1, <4>4 DEF Drop, Live, Online, TypeOK
      <4>5. CASE Logoff
        BY <4>1, <4>5 DEF Logoff, Live, Online, TypeOK
      <4> QED BY <2>9, <4>2, <4>3, <4>4, <4>5
    <3> QED BY <2>9, <3>1, FewerGhosts DEF Identify, Register, Drop, Logoff
  <2>10. CASE Masks \/ Vacation
    BY <2>10, FewerGhosts DEF Masks, Vacation
  <2>11. CASE GhostCommand
    <3>1. PICK n \in Names, m \in Nicks, password \in BOOLEAN : Ghost(n, m, password)
      BY <2>11 DEF GhostCommand
    <3>2. ghosts' \subseteq ghosts /\ timers' = timers
          /\ users' \in {users, [users EXCEPT ![m] = NoUser]}
      BY <3>1 DEF Ghost, RemUser
    <3>3. \A k \in ghosts : users'[k] = users[k]
      BY <2>0, <3>2 DEF TypeOK
    <3> QED BY <3>2, <3>3, FewerGhosts
  <2>12. CASE Recover
    <3>1. PICK m \in Nicks : ~isGhost(m) /\ Enforce(m)
      BY <2>12 DEF Recover
    <3>2. \A k \in ghosts : users'[k] = users[k]
      BY <2>0, <3>1 DEF Enforce, isGhost, TypeOK
    <3> QED BY <2>12, <3>2, FewerGhosts DEF Recover
  <2>13. CASE Release
    BY <2>13, FewerGhosts DEF Release
  <2>14. CASE OperDelete \/ OperBanish \/ Expire
    BY <2>14, FewerGhosts DEF OperDelete, OperBanish, Expire
  <2>15. CASE TimerRuns
    <3>1. PICK t \in timers : GhostExpires(t) \/ KillId(t)
      BY <2>15 DEF TimerRuns
    <3>2. CASE GhostExpires(t)
      BY <3>2 DEF GhostExpires, GhostsInv, Online
    <3>3. CASE KillId(t)
      <4>1. t.kind = "killide" /\ ghosts' = ghosts /\ timers \ {t} \subseteq timers'
        BY <3>3 DEF KillId
      <4>2. users' = users \/ (Found(t) /\ users' = [users EXCEPT ![t.nick].cnick = TRUE])
        BY <3>3 DEF KillId, Enforce
      <4>3. \A k \in ghosts : users'[k] = users[k]
        BY <2>0, <4>2 DEF Found, Online, TypeOK
      <4> QED BY <4>1, <4>3 DEF GhostsInv, Online
    <3> QED BY <3>1, <3>2, <3>3
  <2> QED BY <2>1, <2>2, <2>3, <2>4, <2>5, <2>6, <2>7, <2>8, <2>9, <2>10, <2>11, <2>12, <2>13,
             <2>14, <2>15
          DEF Next, Signons, Commands, Upkeep
<1> QED BY <1>1, <1>2, TypeCorrect, PTL DEF Spec

\* With no autokill on a nick, every enforcer holds a nick that nobody is using,
\* and delTimedGhost() will be called for it: however the users, killide(), CNICK
\* and KILL follow each other.
THEOREM GhostsLeave ==
    ASSUME Akilled = {}
    PROVE  Spec => []GhostsTimed
<1>1. GhostsInv => GhostsTimed
  BY DEF GhostsInv, GhostsTimed
<1> QED BY <1>1, GhostsHeld, PTL
-----------------------------------------------------------------------------
(***************************************************************************)
(* Who is identified.                                                      *)
(***************************************************************************)

\* A registration number is given once: two registrations never share one, and
\* nobody has proved one that has not been given yet.
Numbered ==
    /\ \A m \in Names : Registered(m) =>
          /\ regs[m].num \in 1 .. top
          /\ \A k \in Names : Registered(k) /\ k # m => regs[k].num # regs[m].num
    /\ \A n \in Names : Online(n) => users[n].proved \subseteq 1 .. top

\* Three events that together make an owner of somebody who is not.
Confusing == {"drop", "banish", "case"} \subseteq Cmds

\* What the session of user n may be taken for.  The access that DROP leaves
\* behind is what BANISH and a change of case would turn into an owner's.
Session(n) ==
    /\ users[n].reg # 0 /\ users[n].acc = IdentifiedAcc =>
          users[n].reg \in users[n].proved \/ Confusing
    /\ users[n].id # NoId => users[n].id.num \in users[n].proved
    /\ users[n].reg = 0 /\ users[n].acc = IdentifiedAcc => "drop" \in Cmds
    /\ users[n].reg = 0 /\ Registered(n) => "banish" \in Cmds

SessionInv == \A n \in Names : Online(n) => Session(n)

\* The registrations keep their numbers, or go.
KeepNumbers == \A m \in Names : regs'[m] # NoReg =>
                    regs[m] # NoReg /\ regs'[m].num = regs[m].num

\* User n is the user of before, or has lost something.
KeepUser(n) == users'[n] # NoUser =>
    /\ users[n] # NoUser
    /\ users'[n].reg = users[n].reg /\ users'[n].proved = users[n].proved
    /\ users'[n].acc = IdentifiedAcc => users[n].acc = IdentifiedAcc
    /\ users'[n].id # NoId => users'[n].id = users[n].id

\* Most steps give nobody anything.
LEMMA LosingStep ==
    ASSUME Numbered, SessionInv, KeepNumbers, top' = top, \A n \in Names : KeepUser(n)
    PROVE  Numbered' /\ SessionInv'
<1>1. Numbered'
  BY DEF Numbered, KeepNumbers, KeepUser, Registered, Online
<1>2. SessionInv'
  BY DEF SessionInv, Session, KeepNumbers, KeepUser, Registered, Online
<1> QED BY <1>1, <1>2

\* NickSeeUser() and the other changes of a record keep its number.
LEMMA SeenNumbers ==
    ASSUME TypeOK
    PROVE  /\ \A r \in Reg, h \in Hosts, t \in Nat :
                SeeUser(r, h).num = r.num /\ [r EXCEPT !.seen = t].num = r.num
           /\ \A n \in Names, h \in Hosts :
                (regs' = [regs EXCEPT ![n] = SeeUser(@, h)] /\ Registered(n)) => KeepNumbers
           /\ \A n \in Names :
                regs' = (IF Identified(n, n) THEN [regs EXCEPT ![n].seen = now] ELSE regs)
                   => KeepNumbers
<1>1. \A r \in Reg, h \in Hosts, t \in Nat :
        SeeUser(r, h).num = r.num /\ [r EXCEPT !.seen = t].num = r.num
  BY DEF SeeUser, Reg
<1>2. ASSUME NEW n \in Names, NEW h \in Hosts,
             regs' = [regs EXCEPT ![n] = SeeUser(@, h)], Registered(n)
      PROVE  KeepNumbers
  <2>1. regs[n] \in Reg
    BY <1>2 DEF Registered, TypeOK
  <2>2. SeeUser(regs[n], h).num = regs[n].num
    BY <1>1, <2>1 DEF TypeOK
  <2> QED BY <1>2, <2>2 DEF KeepNumbers, Registered, TypeOK
<1>3. ASSUME NEW n \in Names,
             regs' = (IF Identified(n, n) THEN [regs EXCEPT ![n].seen = now] ELSE regs)
      PROVE  KeepNumbers
  <2>1. CASE Identified(n, n)
    <3>1. regs[n] \in Reg /\ Registered(n)
      BY <2>1 DEF Identified, Registered, TypeOK
    <3>2. [regs[n] EXCEPT !.seen = now].num = regs[n].num
      BY <1>1, <3>1 DEF TypeOK
    <3>3. regs' = [regs EXCEPT ![n] = [regs[n] EXCEPT !.seen = now]]
      BY <1>3, <2>1
    <3> QED BY <3>1, <3>2, <3>3 DEF KeepNumbers, Registered, TypeOK
  <2>2. CASE ~Identified(n, n)
    BY <1>3, <2>2 DEF KeepNumbers
  <2> QED BY <2>1, <2>2
<1> QED BY <1>1, <1>2, <1>3

\* A change of nick gives what the session has proved, and no more.
LEMMA ChangeSession ==
    ASSUME TypeOK, Numbered, SessionInv,
           NEW n \in Names, NEW m \in Names, NEW intact \in BOOLEAN,
           Live(n), ~Online(m) \/ (n = m /\ "case" \in Cmds), ChangeNick(n, m, intact),
           top' = top
    PROVE  Numbered' /\ SessionInv'
<1> DEFINE u == users[n]
           id == CarryId(u.id)
           asked == IF u.cnick THEN {n} ELSE {}
           seen == IF Identified(n, n) THEN [regs EXCEPT ![n].seen = now] ELSE regs
           gone == [users EXCEPT ![n] = NoUser]
           refused == <<m, u.host>> \in Akilled \/ isGhost(m) \/ m \in asked
<1>1. u \in User /\ u.proved \in SUBSET Nat /\ u.acc \in 0 .. 3 /\ u.host \in Hosts /\ Online(n)
  BY DEF Live, Online, TypeOK, User, Offline, IdentifiedAcc
<1>2. seen \in [Names -> Reg \cup {NoReg}]
      /\ \A k \in Names : seen[k] # NoReg => regs[k] # NoReg /\ seen[k].num = regs[k].num
  <2>1. CASE Identified(n, n)
    <3>1. regs[n] \in Reg /\ Registered(n)
      BY <2>1 DEF Identified, Registered, TypeOK
    <3>2. [regs[n] EXCEPT !.seen = now].num = regs[n].num
          /\ [regs[n] EXCEPT !.seen = now] \in Reg
      BY <3>1 DEF TypeOK, Reg
    <3>3. seen = [regs EXCEPT ![n] = [regs[n] EXCEPT !.seen = now]]
      BY <2>1
    <3> QED BY <3>1, <3>2, <3>3 DEF Registered, TypeOK
  <2>2. CASE ~Identified(n, n)
    BY <2>2 DEF TypeOK
  <2> QED BY <2>1, <2>2
<1>3. gone[n] = NoUser /\ \A k \in Names : k # n => gone[k] = users[k]
  BY DEF TypeOK
<1>4. id # NoId => id.num \in u.proved
  <2>1. u.id # NoId => u.id.num \in u.proved /\ u.id \in Id
    BY <1>1 DEF SessionInv, Session, User
  <2> QED BY <2>1 DEF CarryId, Id
<1>5. CASE refused
  <2>1. users' = gone /\ regs' = seen
    BY <1>5 DEF ChangeNick
  <2> QED BY <1>2, <1>3, <2>1, LosingStep DEF KeepNumbers, KeepUser
<1>6. CASE ~refused
  <2>1. PICK new :
          /\ users' = [gone EXCEPT ![m] = new]
          /\ new.proved = u.proved
          /\ new.id # NoId => new.id = id
          /\ Registered(m) => new.reg = regs[m].num /\ new.acc = NewAccess(n, m, intact)
          /\ ~Registered(m) => new.reg = 0 /\ new.acc = Offline
    <3> DEFINE matched == IdMatches(id, m)
               kept == n = m /\ intact
               thief == ~matched /\ ~kept /\ ~CheckAccess(u.host, m)
               x == [host |-> u.host, id |-> IF matched THEN NoId ELSE id, cnick |-> FALSE,
                proved |-> u.proved, reg |-> regs[m].num, acc |-> NewAccess(n, m, intact),
                deadline |-> IF thief \/ regs[m].ban THEN Deadline(m)
                             ELSE IF kept /\ ~matched THEN u.deadline ELSE 0]
               y == [host |-> u.host, id |-> id, cnick |-> FALSE, proved |-> u.proved,
                  reg |-> 0, acc |-> Offline, deadline |-> 0]
    <3>1. users' = [gone EXCEPT ![m] = IF Registered(m) THEN x ELSE y]
      BY <1>6 DEF ChangeNick
    <3>2. x.proved = u.proved /\ (x.id # NoId => x.id = id) /\ x.reg = regs[m].num
          /\ x.acc = NewAccess(n, m, intact)
      OBVIOUS
    <3>3. y.proved = u.proved /\ (y.id # NoId => y.id = id) /\ y.reg = 0 /\ y.acc = Offline
      OBVIOUS
    <3> HIDE DEF x, y, gone
    <3>4. CASE Registered(m)
      BY <3>1, <3>2, <3>4
    <3>5. CASE ~Registered(m)
      BY <3>1, <3>3, <3>5
    <3> QED BY <3>4, <3>5
  <2>2. gone \in [Names -> User \cup {NoUser}]
    BY DEF TypeOK
  <2>3. users'[m] = new /\ \A k \in Names : k # m => users'[k] = gone[k]
    BY <2>1, <2>2
  <2>4. \A k \in Names : k # m => users'[k] = users[k] \/ users'[k] = NoUser
    BY <1>3, <2>3
  <2>5. regs' = seen \/ (Registered(m) /\ regs' = [seen EXCEPT ![m] = SeeUser(@, u.host)])
    BY <1>6 DEF ChangeNick
  <2>6. KeepNumbers
    <3>1. CASE regs' = seen
      BY <1>2, <3>1 DEF KeepNumbers
    <3>2. CASE Registered(m) /\ regs' = [seen EXCEPT ![m] = SeeUser(@, u.host)]
      <4>1. seen[m] \in Reg
        <5>1. CASE Identified(n, n) /\ m = n
          <6>1. regs[n] \in Reg
            BY <5>1 DEF Identified, Registered, TypeOK
          <6> QED BY <5>1, <6>1 DEF TypeOK, Reg
        <5>2. CASE ~(Identified(n, n) /\ m = n)
          BY <3>2, <5>2 DEF Registered, TypeOK
        <5> QED BY <5>1, <5>2
      <4>2. SeeUser(seen[m], u.host).num = seen[m].num
        BY <1>1, <4>1, SeenNumbers
      <4>3. seen[m].num = regs[m].num
        BY <3>2, <4>1 DEF Registered, TypeOK, Reg
      <4> QED BY <1>2, <3>2, <4>2, <4>3 DEF KeepNumbers, Registered
    <3> QED BY <2>5, <3>1, <3>2
  <2>7. Numbered'
    <3>1. \A k \in Names : Online(k)' => users'[k].proved \subseteq 1 .. top
      <4>1. u.proved \subseteq 1 .. top
        BY <1>1 DEF Numbered
      <4>2. users'[m].proved \subseteq 1 .. top
        BY <2>1, <2>3, <4>1
      <4> QED BY <2>4, <4>2 DEF Numbered, Online
    <3> QED BY <2>6, <3>1 DEF Numbered, KeepNumbers, Registered
  <2>8. SessionInv'
    <3>1. ASSUME NEW k \in Names, k # m, Online(k)' PROVE Session(k)'
      BY <2>4, <2>6, <3>1 DEF SessionInv, Session, KeepNumbers, Registered, Online
    <3>2. Session(m)'
      <4>1. CASE Registered(m)
        <5>1. new.reg = regs[m].num /\ new.reg # 0
          <6>1. regs[m].num \in 1 .. top /\ top \in Nat
            BY <4>1 DEF Numbered, TypeOK
          <6> QED BY <2>1, <4>1, <6>1
        <5>2. ASSUME new.acc = IdentifiedAcc PROVE new.reg \in new.proved \/ Confusing
          <6>1. CASE IdMatches(id, m)
            BY <1>4, <2>1, <5>1, <6>1 DEF IdMatches
          <6>2. CASE ~IdMatches(id, m) /\ n = m /\ intact
            <7>1. u.acc = IdentifiedAcc
              BY <2>1, <4>1, <5>2, <6>2 DEF NewAccess
            <7>2. "case" \in Cmds
              BY <1>1, <6>2
            <7>3. u.reg = regs[m].num \/ Confusing
              BY <1>1, <4>1, <6>2, <7>1, <7>2 DEF Live, SessionInv, Session, Confusing
            <7> QED BY <1>1, <2>1, <5>1, <6>2, <7>1, <7>3 DEF SessionInv, Session
          <6>3. CASE ~IdMatches(id, m) /\ ~(n = m /\ intact)
            BY <2>1, <4>1, <5>2, <6>3 DEF NewAccess, IdentifiedAcc, Recognized, Offline
          <6> QED BY <6>1, <6>2, <6>3
        <5> QED BY <1>4, <2>1, <2>3, <5>1, <5>2 DEF Session
      <4>2. CASE ~Registered(m)
        <5>1. ~Registered(m)'
          BY <2>6, <4>2 DEF KeepNumbers, Registered
        <5> QED BY <1>4, <2>1, <2>3, <4>2, <5>1 DEF Session, Offline, IdentifiedAcc
      <4> QED BY <4>1, <4>2
    <3> QED BY <3>1, <3>2 DEF SessionInv
  <2> QED BY <2>7, <2>8
<1> QED BY <1>5, <1>6

\* A registration under a new number.
LEMMA FreshNumber ==
    ASSUME TypeOK, Numbered, SessionInv, top' = top + 1, NEW n \in Names, ~Registered(n), NEW r,
           r.num = top + 1, regs' = [regs EXCEPT ![n] = r],
           \A k \in Names : users'[k] # NoUser => users'[k].proved \subseteq 1 .. top + 1,
           \A k \in Names : users'[k] # NoUser => Session(k)'
    PROVE  Numbered' /\ SessionInv'
<1>1. \A k \in Names : regs'[k] = IF k = n THEN r ELSE regs[k]
  BY DEF TypeOK
<1>2. top \in Nat /\ \A k \in Names : Registered(k) => regs[k].num \in 1 .. top
  BY DEF TypeOK, Numbered
<1>3. Numbered'
  BY <1>1, <1>2 DEF Numbered, Registered, Online
<1> QED BY <1>3 DEF SessionInv, Online

\* The numbers and the sessions through every step.
LEMMA SessionStep ==
    ASSUME TypeOK, Numbered, SessionInv, [Next]_vars
    PROVE  Numbered' /\ SessionInv'
<1>0. Nicks \subseteq Names /\ Guests \subseteq Names
  BY DEF Names
<1>1. ASSUME UNCHANGED <<users, regs, top>> PROVE Numbered' /\ SessionInv'
  BY <1>1, LosingStep DEF KeepNumbers, KeepUser
<1>2. CASE UNCHANGED vars \/ Tick \/ BadIdent \/ KillGhost \/ Release
  BY <1>1, <1>2 DEF vars, Tick, BadIdent, KillGhost, Release
<1>3. CASE NewUser
  <2>1. PICK n \in Names, h \in Hosts :
          RejectUser(n, h) \/ \E clone \in {FALSE, CloneKills} : AcceptUser(n, h, clone)
    BY <1>3 DEF NewUser
  <2>2. top' = top
    BY <1>3 DEF NewUser
  <2>3. CASE RejectUser(n, h)
    BY <1>1, <2>2, <2>3 DEF RejectUser
  <2>4. ASSUME NEW clone \in {FALSE, CloneKills}, AcceptUser(n, h, clone)
        PROVE  Numbered' /\ SessionInv'
    <3>1. KeepNumbers
      <4>1. CASE Registered(n) /\ CheckAccess(h, n)
        BY <2>4, <4>1, SeenNumbers DEF AcceptUser
      <4>2. CASE ~(Registered(n) /\ CheckAccess(h, n))
        BY <2>4, <4>2 DEF AcceptUser, KeepNumbers
      <4> QED BY <4>1, <4>2
    <3>2. CASE clone
      BY <2>2, <2>4, <3>1, <3>2, LosingStep DEF AcceptUser, KeepUser
    <3>3. CASE ~clone
      <4>1. PICK new :
              /\ users' = [users EXCEPT ![n] = new]
              /\ new.id = NoId /\ new.proved = {}
              /\ new.acc # IdentifiedAcc
              /\ new.reg = IF Registered(n) THEN regs[n].num ELSE 0
        <5> DEFINE known == Registered(n) /\ CheckAccess(h, n)
                   thief == Registered(n) /\ ~known
                   x == [host |-> h, id |-> NoId, cnick |-> FALSE, proved |-> {},
                         reg |-> IF Registered(n) THEN regs[n].num ELSE 0,
                         acc |-> IF known THEN Recognized ELSE IF thief THEN NotRecognized
                                 ELSE Offline,
                         deadline |-> IF thief THEN Deadline(n) ELSE 0]
        <5>1. users' = [users EXCEPT ![n] = x]
          BY <2>4, <3>3 DEF AcceptUser
        <5>2. x.id = NoId /\ x.proved = {} /\ x.reg = (IF Registered(n) THEN regs[n].num ELSE 0)
          OBVIOUS
        <5>3. x.acc # IdentifiedAcc
          BY DEF Recognized, NotRecognized, Offline, IdentifiedAcc
        <5> HIDE DEF x
        <5> QED BY <5>1, <5>2, <5>3
      <4>2. users'[n] = new /\ \A k \in Names : k # n => users'[k] = users[k]
        BY <4>1 DEF TypeOK
      <4>3. Registered(n) => new.reg # 0
        BY <4>1 DEF Numbered, TypeOK
      <4>4. ~Registered(n) => ~Registered(n)'
        BY <3>1 DEF KeepNumbers, Registered
      <4>5. Session(n)'
        BY <4>1, <4>2, <4>3, <4>4 DEF Session
      <4>6. ASSUME NEW k \in Names, k # n, Online(k)' PROVE Session(k)'
        BY <3>1, <4>2, <4>6 DEF SessionInv, Session, KeepNumbers, Registered, Online
      <4>7. Numbered'
        BY <2>2, <3>1, <4>1, <4>2 DEF Numbered, KeepNumbers, Registered, Online
      <4> QED BY <4>5, <4>6, <4>7 DEF SessionInv
    <3> QED BY <3>2, <3>3
  <2> QED BY <2>1, <2>3, <2>4
<1>4. CASE Nick
  <2>1. PICK n \in Names, m \in Names, intact \in BOOLEAN :
          Live(n) /\ (~Online(m) \/ (n = m /\ "case" \in Cmds)) /\ ChangeNick(n, m, intact)
    BY <1>4 DEF Nick
  <2> QED BY <1>4, <2>1, ChangeSession DEF Nick
<1>5. CASE Cnick
  <2>1. PICK n \in sent :
          IF Online(n) THEN Live(n) /\ \E g \in Guests : ~Online(g) /\ ChangeNick(n, g, TRUE)
          ELSE UNCHANGED <<users, regs, ghosts, timers>>
    BY <1>5 DEF Cnick
  <2>2. n \in Names /\ top' = top
    BY <1>5 DEF Cnick, TypeOK
  <2>3. CASE Online(n)
    BY <1>0, <2>1, <2>2, <2>3, ChangeSession
  <2>4. CASE ~Online(n)
    BY <1>1, <2>1, <2>2, <2>4
  <2> QED BY <2>3, <2>4
<1>6. ASSUME NEW n \in Names, RemUser(n), top' = top PROVE Numbered' /\ SessionInv'
  <2>1. KeepNumbers
    BY <1>6, SeenNumbers DEF RemUser
  <2>2. \A k \in Names : KeepUser(k)
    BY <1>6 DEF RemUser, KeepUser, TypeOK
  <2> QED BY <1>6, <2>1, <2>2, LosingStep
<1>7. CASE Quit
  BY <1>6, <1>7 DEF Quit
<1>8. CASE Identify
  <2>1. PICK n \in Names, m \in Nicks, valid \in BOOLEAN :
          /\ Live(n) /\ Registered(m) /\ ~regs[m].ban
          /\ LET local == users[n].reg = regs[m].num IN
             IF valid THEN
                /\ users' = [users EXCEPT
                     ![n].acc = IF local THEN IdentifiedAcc ELSE @,
                     ![n].deadline = IF local THEN 0 ELSE @,
                     ![n].id = IF local THEN @
                               ELSE [nick |-> m, ts |-> now, num |-> regs[m].num],
                     ![n].proved = @ \cup {regs[m].num}]
                /\ regs' = [regs EXCEPT ![m] = SeeUser(@, users[n].host)]
             ELSE
                /\ local
                /\ users' = [users EXCEPT ![n].acc = NotRecognized]
                /\ UNCHANGED regs
    BY <1>8 DEF Identify
  <2>2. users[n] \in User /\ users[n].host \in Hosts /\ Online(n) /\ top' = top
    BY <1>8, <2>1 DEF Identify, Live, Online, TypeOK, User
  <2>3. CASE valid
    <3>1. KeepNumbers
      BY <1>0, <2>1, <2>2, <2>3, SeenNumbers
    <3> DEFINE local == users[n].reg = regs[m].num
    <3>2. /\ users'[n].acc = IF local THEN IdentifiedAcc ELSE users[n].acc
          /\ users'[n].id = IF local THEN users[n].id
                            ELSE [nick |-> m, ts |-> now, num |-> regs[m].num]
          /\ users'[n].proved = users[n].proved \cup {regs[m].num}
          /\ users'[n].reg = users[n].reg
          /\ \A k \in Names : k # n => users'[k] = users[k]
      BY <2>1, <2>2, <2>3 DEF TypeOK, User
    <3>3. Session(n) /\ users[n].proved \subseteq 1 .. top /\ regs[m].num \in 1 .. top
      BY <1>0, <2>1, <2>2 DEF SessionInv, Numbered
    <3>4. Numbered'
      BY <2>2, <3>1, <3>2, <3>3 DEF Numbered, KeepNumbers, Registered, Online
    <3>5. Session(n)'
      <4>1. regs[m].num # 0 /\ (Registered(n)' => Registered(n))
        BY <3>1, <3>3 DEF KeepNumbers, Registered, TypeOK
      <4> QED BY <3>2, <3>3, <4>1 DEF Session
    <3>6. ASSUME NEW k \in Names, k # n, Online(k)' PROVE Session(k)'
      BY <3>1, <3>2, <3>6 DEF SessionInv, Session, KeepNumbers, Registered, Online
    <3> QED BY <3>4, <3>5, <3>6 DEF SessionInv
  <2>4. CASE ~valid
    <3>1. \A k \in Names : KeepUser(k)
      BY <2>1, <2>2, <2>4 DEF KeepUser, TypeOK, User, Online, NotRecognized, IdentifiedAcc
    <3> QED BY <2>1, <2>2, <2>4, <3>1, LosingStep DEF KeepNumbers
  <2> QED BY <2>3, <2>4
<1>9. CASE Register
  <2>1. PICK n \in Nicks :
          /\ Online(n) /\ users[n].reg = 0
          /\ IF Registered(n) THEN UNCHANGED <<users, regs>>
             ELSE /\ users' = [users EXCEPT ![n].reg = top + 1, ![n].acc = IdentifiedAcc,
                                            ![n].proved = @ \cup {top + 1}]
                  /\ regs' = [regs EXCEPT ![n] =
                        [num |-> top + 1, timereg |-> now, seen |-> now, ban |-> FALSE,
                         vac |-> FALSE, acl |-> {}, host |-> users[n].host]]
    BY <1>9 DEF Register
  <2>2. n \in Names /\ users[n] \in User /\ top \in Nat /\ top' = top + 1
    BY <1>0, <1>9, <2>1 DEF Register, Online, TypeOK
  <2>3. \A k \in Names : Online(k) => users[k].proved \subseteq 1 .. top + 1
    BY <2>2 DEF Numbered
  <2>4. CASE Registered(n)
    <3>1. Numbered'
      BY <2>1, <2>2, <2>3, <2>4 DEF Numbered, Registered, Online
    <3> QED BY <2>1, <2>4, <3>1 DEF SessionInv, Session, Registered, Online
  <2>5. CASE ~Registered(n)
    <3> DEFINE r == [num |-> top + 1, timereg |-> now, seen |-> now, ban |-> FALSE,
                     vac |-> FALSE, acl |-> {}, host |-> users[n].host]
    <3>1. r.num = top + 1 /\ regs' = [regs EXCEPT ![n] = r]
      BY <2>1, <2>5
    <3>2. /\ users'[n].reg = top + 1 /\ users'[n].proved = users[n].proved \cup {top + 1}
          /\ users'[n].id = users[n].id
          /\ \A k \in Names : k # n => users'[k] = users[k]
      BY <2>1, <2>2, <2>5 DEF TypeOK, User
    <3>3. \A k \in Names : users'[k] # NoUser => users'[k].proved \subseteq 1 .. top + 1
      <4>1. users[n].proved \cup {top + 1} \subseteq 1 .. top + 1
        BY <2>1, <2>2, <2>3
      <4> QED BY <2>3, <3>2, <4>1 DEF Online
    <3>4. Session(n)'
      BY <2>1, <2>2, <3>2 DEF SessionInv, Session
    <3>5. \A k \in Names : k # n => (Registered(k)' <=> Registered(k))
      BY <3>1 DEF Registered, TypeOK
    <3>6. ASSUME NEW k \in Names, k # n, Online(k)' PROVE Session(k)'
      BY <3>2, <3>5, <3>6 DEF SessionInv, Session, Online
    <3>7. \A k \in Names : users'[k] # NoUser => Session(k)'
      BY <3>4, <3>6 DEF Online
    <3> HIDE DEF r
    <3> QED BY <2>2, <2>5, <3>1, <3>3, <3>7, FreshNumber
  <2> QED BY <2>4, <2>5
<1>10. CASE Drop
  <2>1. PICK n \in Nicks :
          Live(n) /\ regs' = [regs EXCEPT ![n] = NoReg] /\ users' = [users EXCEPT ![n].reg = 0]
    BY <1>10 DEF Drop
  <2>2. n \in Names /\ users[n] \in User /\ top' = top /\ "drop" \in Cmds /\ Online(n)
    BY <1>0, <1>10, <2>1 DEF Drop, Live, Online, TypeOK
  <2>3. /\ users'[n].reg = 0 /\ users'[n].id = users[n].id /\ users'[n].proved = users[n].proved
        /\ \A k \in Names : k # n => users'[k] = users[k]
    BY <2>1, <2>2 DEF TypeOK, User
  <2>4. KeepNumbers /\ ~Registered(n)'
    BY <2>1, <2>2 DEF KeepNumbers, Registered, TypeOK
  <2>5. Session(n)'
    BY <2>2, <2>3, <2>4 DEF SessionInv, Session
  <2>6. ASSUME NEW k \in Names, k # n, Online(k)' PROVE Session(k)'
    BY <2>3, <2>4, <2>6 DEF SessionInv, Session, KeepNumbers, Registered, Online
  <2>7. Numbered'
    BY <2>2, <2>3, <2>4 DEF Numbered, KeepNumbers, Registered, Online
  <2> QED BY <2>5, <2>6, <2>7 DEF SessionInv
<1>11. ASSUME NEW n \in Names, Registered(n), NEW r, r.num = regs[n].num,
              regs' = [regs EXCEPT ![n] = r], UNCHANGED <<users, top>>
       PROVE  Numbered' /\ SessionInv'
  <2>1. KeepNumbers
    BY <1>11 DEF KeepNumbers, Registered, TypeOK
  <2> QED BY <1>11, <2>1, LosingStep DEF KeepUser
<1>12. CASE Masks
  <2>1. PICK n \in Nicks : Identified(n, n) /\ \E acl : regs' = [regs EXCEPT ![n].acl = acl]
    BY <1>12 DEF Masks
  <2>3. PICK acl : regs' = [regs EXCEPT ![n].acl = acl]
    BY <2>1
  <2>2. n \in Names /\ Registered(n) /\ [regs[n] EXCEPT !.acl = acl].num = regs[n].num
    BY <1>0, <2>1 DEF Identified, Registered, TypeOK, Reg
  <2> QED BY <1>11, <1>12, <2>1, <2>2, <2>3 DEF Masks
<1>13. CASE Vacation
  <2>1. PICK n \in Nicks : Identified(n, n) /\ regs' = [regs EXCEPT ![n].vac = TRUE]
    BY <1>13 DEF Vacation
  <2>2. n \in Names /\ Registered(n) /\ [regs[n] EXCEPT !.vac = TRUE].num = regs[n].num
    BY <1>0, <2>1 DEF Identified, Registered, TypeOK, Reg
  <2> QED BY <1>11, <1>13, <2>1, <2>2 DEF Vacation
<1>14. CASE Logoff
  <2>1. PICK n \in Names :
          /\ Live(n)
          /\ users' = [users EXCEPT ![n].id = NoId,
                                    ![n].acc = IF @ > Recognized THEN Recognized ELSE @]
    BY <1>14 DEF Logoff
  <2>2. users[n] \in User /\ Online(n)
    BY <2>1 DEF Live, Online, TypeOK
  <2>3. /\ users'[n].acc # IdentifiedAcc /\ users'[n].id = NoId
        /\ users'[n].reg = users[n].reg /\ users'[n].proved = users[n].proved
        /\ \A k \in Names : k # n => users'[k] = users[k]
    BY <2>1, <2>2 DEF TypeOK, User, Offline, Recognized, IdentifiedAcc
  <2>4. \A k \in Names : KeepUser(k)
    BY <2>2, <2>3 DEF KeepUser, Online
  <2> QED BY <1>14, <2>4, LosingStep DEF Logoff, KeepNumbers
<1>15. CASE GhostCommand
  <2>1. PICK n \in Names, m \in Nicks, password \in BOOLEAN : Ghost(n, m, password)
    BY <1>15 DEF GhostCommand
  <2> QED BY <1>0, <1>1, <1>6, <2>1 DEF Ghost
<1>16. ASSUME NEW n \in Names, Online(n), Enforce(n), UNCHANGED <<regs, top>>
       PROVE  Numbered' /\ SessionInv'
  <2>1. users[n] \in User
    BY <1>16 DEF Online, TypeOK
  <2>2. \A k \in Names : KeepUser(k)
    BY <1>16, <2>1 DEF Enforce, KeepUser, Online, TypeOK, User
  <2> QED BY <1>16, <2>2, LosingStep DEF KeepNumbers
<1>17. CASE Recover
  BY <1>0, <1>16, <1>17 DEF Recover
<1>18. CASE OperDelete
  BY <1>18, LosingStep DEF OperDelete, KeepNumbers, KeepUser, TypeOK
<1>19. CASE OperBanish
  <2> DEFINE Num(m) == IF Registered(m) THEN regs[m].num ELSE top + 1
  <2>5. PICK m \in Nicks :
          /\ top' = IF Registered(m) THEN top ELSE Num(m)
          /\ \E r : r.num = Num(m) /\ regs' = [regs EXCEPT ![m] = r]
    BY <1>19 DEF OperBanish
  <2>6. PICK r : r.num = Num(m) /\ regs' = [regs EXCEPT ![m] = r]
    BY <2>5
  <2>1. /\ top' = IF Registered(m) THEN top ELSE Num(m)
        /\ r.num = Num(m) /\ regs' = [regs EXCEPT ![m] = r]
    BY <2>5, <2>6
  <2>2. m \in Names /\ users' = users /\ top \in Nat /\ "banish" \in Cmds
    BY <1>0, <1>19 DEF OperBanish, TypeOK
  <2>3. CASE Registered(m)
    BY <1>11, <2>1, <2>2, <2>3
  <2>4. CASE ~Registered(m)
    <3>1. \A k \in Names : users'[k] # NoUser => users'[k].proved \subseteq 1 .. top + 1
      BY <2>2 DEF Numbered, Online
    <3>2. \A k \in Names : users'[k] # NoUser => Session(k)'
      BY <2>2 DEF SessionInv, Session, Online
    <3> QED BY <2>1, <2>2, <2>4, <3>1, <3>2, FreshNumber
  <2> QED BY <2>3, <2>4
<1>20. CASE Expire
  <2>1. KeepNumbers
    <3> SUFFICES ASSUME NEW n \in Names, regs'[n] # NoReg
                 PROVE  regs[n] # NoReg /\ regs'[n].num = regs[n].num
      BY DEF KeepNumbers
    <3>1. Registered(n) /\ \E seen : regs'[n] = [regs[n] EXCEPT !.seen = seen]
      BY <1>20 DEF Expire
    <3> QED BY <3>1 DEF Registered, TypeOK, Reg
  <2> QED BY <1>20, <2>1, LosingStep DEF Expire, KeepUser
<1>21. CASE TimerRuns
  <2>1. PICK t \in timers : GhostExpires(t) \/ KillId(t)
    BY <1>21 DEF TimerRuns
  <2>2. UNCHANGED <<regs, top>> /\ t.nick \in Names
    BY <1>21 DEF TimerRuns, TypeOK, Timer
  <2>3. UNCHANGED users \/ (Online(t.nick) /\ Enforce(t.nick))
    BY <2>1 DEF GhostExpires, KillId, Found
  <2> QED BY <1>1, <1>16, <2>2, <2>3
<1> QED BY <1>2, <1>3, <1>4, <1>5, <1>7, <1>8, <1>9, <1>10, <1>12, <1>13,
           <1>14, <1>15, <1>17, <1>18, <1>19, <1>20, <1>21
        DEF Next, Signons, Commands, Upkeep

\* The number of a registration names it for good, and nobody has given the
\* password of a registration that is still to come.
THEOREM NumbersUnique == Spec => [](Numbered /\ SessionInv)
<1>1. Init => Numbered /\ SessionInv
  BY DEF Init, Numbered, SessionInv, Registered, Online
<1>2. TypeOK /\ Numbered /\ SessionInv /\ [Next]_vars => Numbered' /\ SessionInv'
  BY SessionStep
<1> QED BY <1>1, <1>2, TypeCorrect, PTL DEF Spec

\* isIdentified() says yes only of a session that gave the password of that very
\* registration, as long as one of DROP, BANISH and a change of a nick's case
\* never happens: the three together are the one way round it.
THEOREM IdentifiedProved ==
    ASSUME ~Confusing
    PROVE  Spec => []IdentifiedMeansProved
<1>1. TypeOK /\ Numbered /\ SessionInv => IdentifiedMeansProved
  <2> SUFFICES ASSUME TypeOK, Numbered, SessionInv, NEW n \in Names, NEW m \in Names,
                      Identified(n, m)
               PROVE  regs[m].num \in users[n].proved
    BY DEF IdentifiedMeansProved
  <2>1. Session(n) /\ regs[m].num # 0 /\ users[n].acc \in 0 .. 3
    BY DEF Identified, SessionInv, Numbered, TypeOK, Online, User, Offline, IdentifiedAcc
  <2> QED BY <2>1 DEF Identified, Session, Recognized, IdentifiedAcc
<1> QED BY <1>1, NumbersUnique, TypeCorrect, PTL
-----------------------------------------------------------------------------
(***************************************************************************)
(* The network of servers (Net).  Every operator of the model takes a      *)
(* world that is Good to one that is.                                      *)
(***************************************************************************)

\* The lines that may be on the way from p[1] to p[2]: a server is told only of
\* those that it does not reach itself without the other.
LineOn(p) == {m \in Line : /\ m.kind = "SERVER" => Route[p[1]][m.nick] # p[2]
                           /\ m.kind = "NICK" => m.server = Home[m.user]}

Worlds == [tab : [Servers -> [Users -> Client]],
           dir : [Servers -> [Servers -> Servers \cup {None}]],
           was : [Servers -> Seq(Past)],
           q : [Pairs -> Seq(Line)],
           watch : [Users -> [NickNames -> {"", "on", "off"}]]]

\* Who is there has a nick; who has not registered is here.
Named(w) == \A s \in Servers : \A u \in Users :
    Here(w, s, u) => w.tab[s][u].nick \in NickNames /\ (w.tab[s][u].person \/ w.tab[s][u].from = s)

\* A server knows its own users as local.
AtHome(w) == \A u \in Users : Here(w, Home[u], u) => w.tab[Home[u]][u].from = Home[u]

Alone(w) == \A s \in Servers : \A u, v \in Users :
    Here(w, s, u) /\ Here(w, s, v) /\ w.tab[s][u].nick = w.tab[s][v].nick => u = v

\* The history points to those who have registered and are there.
Points(w) == \A s \in Servers :
    /\ Len(w.was[s]) <= History
    /\ \A k \in DOMAIN w.was[s] : w.was[s][k].who # None => w.tab[s][w.was[s][k].who].person

\* A server is reached over the tree or not at all.
Routed(w) == \A s, t \in Servers : w.dir[s][t] \in {None, Route[s][t]}

Lines(w) == \A p \in Pairs : w.q[p] \in Seq(LineOn(p))

Lists(w) == \A u \in Users :
    /\ Cardinality(Watched(w, u)) <= MaxWatch
    /\ Watched(w, u) # {} => w.tab[Home[u]][u].person
    /\ \A k \in Watched(w, u) : w.watch[u][k] = Status(w, Home[u], k)

\* L are users who have not connected.
Good(w, L) ==
    /\ w \in Worlds /\ Named(w) /\ AtHome(w) /\ Alone(w) /\ Points(w) /\ Routed(w) /\ Lines(w) /\ Lists(w)
    /\ \A u \in L : ~Here(w, Home[u], u)

\* What depends only on the tables.
LEMMA SameTab ==
    ASSUME NEW w, NEW v, v.tab = w.tab
    PROVE  /\ \A s, u : Here(v, s, u) <=> Here(w, s, u)
           /\ Named(w) => Named(v)
           /\ AtHome(w) => AtHome(v)
           /\ Alone(w) => Alone(v)
<1>1. \A s, u : Here(v, s, u) <=> Here(w, s, u)
  BY DEF Here
<1>2. Named(w) => Named(v)
  BY <1>1 DEF Named
<1>3. AtHome(w) => AtHome(v)
  BY <1>1 DEF AtHome
<1>4. Alone(w) => Alone(v)
  BY <1>1 DEF Alone
<1> QED BY <1>1, <1>2, <1>3, <1>4

\* The world with other lines on the way.
LEMMA OtherLines ==
    ASSUME NEW w, NEW L \in SUBSET Users, Good(w, L), NEW Q \in [Pairs -> Seq(Line)],
           \A p \in Pairs : Q[p] \in Seq(LineOn(p))
    PROVE  Good([w EXCEPT !.q = Q], L)
<1> DEFINE v == [w EXCEPT !.q = Q]
<1>1. /\ v \in Worlds /\ v.tab = w.tab /\ v.dir = w.dir /\ v.was = w.was /\ v.watch = w.watch /\ v.q = Q
  BY DEF Good, Worlds
<1> HIDE DEF v
<1>2. Named(v) /\ AtHome(v) /\ Alone(v)
  BY <1>1, SameTab DEF Good
<1>3. Points(v) /\ Routed(v) /\ Lines(v)
  BY <1>1 DEF Good, Points, Routed, Lines
<1>4. Lists(v)
  <2>1. \A u \in Users : Watched(v, u) = Watched(w, u)
    BY <1>1 DEF Watched
  <2>2. \A s \in Servers, k \in NickNames : Status(v, s, k) = Status(w, s, k)
    BY <1>1 DEF Status, find_person
  <2>3. \A u \in Users : Watched(w, u) \subseteq NickNames /\ Home[u] \in Servers
    BY NetAssumption DEF Watched
  <2> QED BY <1>1, <2>1, <2>2, <2>3 DEF Good, Lists
<1>5. \A u \in L : ~Here(v, Home[u], u)
  BY <1>1 DEF Good, Here
<1> QED BY <1>1, <1>2, <1>3, <1>4, <1>5 DEF Good, v

\* A line to every linked server but some.
LEMMA Sent ==
    ASSUME NEW w, NEW L \in SUBSET Users, Good(w, L), NEW s \in Servers, NEW but, NEW m \in Line,
           \A p \in Pairs : p[1] = s /\ p[2] \in Linked(w, s) \ but => m \in LineOn(p)
    PROVE  LET v == sendto_serv_butone(w, s, but, m)
           IN Good(v, L) /\ v.tab = w.tab /\ v.dir = w.dir /\ v.was = w.was /\ v.watch = w.watch
<1> DEFINE Q == [p \in Pairs |-> IF p[1] = s /\ p[2] \in Linked(w, s) \ but THEN Append(w.q[p], m) ELSE w.q[p]]
           v == sendto_serv_butone(w, s, but, m)
<1>1. \A p \in Pairs : w.q[p] \in Seq(Line) /\ w.q[p] \in Seq(LineOn(p))
  BY DEF Good, Worlds, Lines
<1>2. \A p \in Pairs : Q[p] \in Seq(Line)
  BY <1>1
<1>3. \A p \in Pairs : Q[p] \in Seq(LineOn(p))
  BY <1>1
<1>4. Q \in [Pairs -> Seq(Line)]
  BY <1>2
<1>5. v = [w EXCEPT !.q = Q]
  BY DEF sendto_serv_butone
<1>6. v.tab = w.tab /\ v.dir = w.dir /\ v.was = w.was /\ v.watch = w.watch
  BY <1>5 DEF Good, Worlds
<1> HIDE DEF Q
<1>7. Good(v, L)
  BY <1>3, <1>4, <1>5, OtherLines
<1> QED BY <1>6, <1>7

\* A line of a kind that may go anywhere.
LEMMA AnyLine ==
    ASSUME NEW m \in Line, m.kind \notin {"SERVER", "NICK"}, NEW p \in Pairs
    PROVE  m \in LineOn(p)
BY DEF LineOn

\* Lines to one server.
LEMMA SentOne ==
    ASSUME NEW w, NEW L \in SUBSET Users, Good(w, L), NEW s, NEW n,
           NEW ms \in Seq(Line), ms \in Seq(LineOn(<<s, n>>))
    PROVE  LET v == sendto_one(w, s, n, ms)
           IN Good(v, L) /\ v.tab = w.tab /\ v.dir = w.dir /\ v.was = w.was /\ v.watch = w.watch
<1> DEFINE Q == [w.q EXCEPT ![<<s, n>>] = @ \o ms]
           v == sendto_one(w, s, n, ms)
<1>1. \A p \in Pairs : w.q[p] \in Seq(Line) /\ w.q[p] \in Seq(LineOn(p))
  BY DEF Good, Worlds, Lines
<1>2. w.q \in [Pairs -> Seq(Line)]
  BY DEF Good, Worlds
<1>3. \A p \in Pairs : Q[p] \in Seq(Line)
  <2>1. \A p \in Pairs : Q[p] = IF p = <<s, n>> THEN w.q[p] \o ms ELSE w.q[p]
    BY <1>2
  <2>2. \A p \in Pairs : w.q[p] \o ms \in Seq(Line)
    BY <1>1
  <2> HIDE DEF Q
  <2> QED BY <1>1, <2>1, <2>2
<1>4. \A p \in Pairs : Q[p] \in Seq(LineOn(p))
  <2> SUFFICES ASSUME NEW p \in Pairs PROVE Q[p] \in Seq(LineOn(p))
    OBVIOUS
  <2>1. CASE p = <<s, n>>
    <3>1. Q[p] = w.q[p] \o ms /\ ms \in Seq(LineOn(p)) /\ w.q[p] \in Seq(LineOn(p))
      BY <1>1, <1>2, <2>1
    <3> QED BY <3>1
  <2>2. CASE p # <<s, n>>
    <3>1. Q[p] = w.q[p]
      BY <1>2, <2>2
    <3> QED BY <1>1, <3>1
  <2> QED BY <2>1, <2>2
<1>5. Q \in [Pairs -> Seq(Line)]
  BY <1>2, <1>3
<1>6. v = [w EXCEPT !.q = Q]
  BY DEF sendto_one
<1>7. v.tab = w.tab /\ v.dir = w.dir /\ v.was = w.was /\ v.watch = w.watch
  BY <1>6 DEF Good, Worlds
<1> HIDE DEF Q
<1>8. Good([w EXCEPT !.q = Q], L)
  BY <1>4, <1>5, OtherLines
<1>9. Good(v, L)
  BY <1>6, <1>8
<1> QED BY <1>7, <1>9

\* Who is found under a nick has it.
LEMMA FoundIs ==
    ASSUME NEW w, NEW s, NEW nick
    PROVE  LET v == find_client(w, s, nick)
           IN /\ v = None => \A u \in Users : ~(Here(w, s, u) /\ w.tab[s][u].nick = nick)
              /\ v # None => v \in Users /\ Here(w, s, v) /\ w.tab[s][v].nick = nick
<1> DEFINE us == {u \in Users : Here(w, s, u) /\ w.tab[s][u].nick = nick}
<1>1. \A u \in Users : u # None
  BY NetAssumption
<1>2. CASE us = {}
  <2>1. find_client(w, s, nick) = None
    BY <1>2 DEF find_client
  <2> QED BY <1>2, <2>1
<1>3. CASE us # {}
  <2>1. find_client(w, s, nick) \in us
    BY <1>3 DEF find_client
  <2> QED BY <1>1, <2>1
<1> QED BY <1>2, <1>3

\* Who has registered is there.
LEMMA PersonHere ==
    ASSUME NEW w, NEW s, NEW u, w.tab[s][u].person
    PROVE  Here(w, s, u)
<1>1. Gone.person = FALSE
  BY DEF Gone
<1> QED BY <1>1 DEF Here

\* A new entry of a history, whose oldest entry goes when it is full.
LEMMA Taken ==
    ASSUME NEW h \in Seq(Past), NEW e \in Past
    PROVE  /\ Take(<<e>> \o h) \in Seq(Past) /\ Len(Take(<<e>> \o h)) <= History
           /\ \A k \in DOMAIN Take(<<e>> \o h) :
                Take(<<e>> \o h)[k] = e \/ \E j \in DOMAIN h : Take(<<e>> \o h)[k] = h[j]
<1> DEFINE r == <<e>> \o h
<1>1. History \in Nat /\ History > 0
  BY NetAssumption
<1>2. r \in Seq(Past) /\ Len(r) = Len(h) + 1 /\ Len(h) \in Nat
  OBVIOUS
<1>3. \A k \in 1 .. Len(r) : r[k] = IF k = 1 THEN e ELSE h[k - 1]
  OBVIOUS
<1>4. \A k \in 1 .. Len(r) : r[k] = e \/ \E j \in DOMAIN h : r[k] = h[j]
  <2> SUFFICES ASSUME NEW k \in 1 .. Len(r) PROVE r[k] = e \/ \E j \in DOMAIN h : r[k] = h[j]
    OBVIOUS
  <2>1. k # 1 => k - 1 \in DOMAIN h
    BY <1>2
  <2> HIDE DEF r
  <2> QED BY <1>3, <2>1
<1> HIDE DEF r
<1>5. /\ Take(r) \in Seq(Past) /\ Len(Take(r)) <= History
      /\ \A k \in DOMAIN Take(r) : k \in 1 .. Len(r) /\ Take(r)[k] = r[k]
  <2>1. CASE Len(r) > History
    <3>1. Take(r) = SubSeq(r, 1, History)
      BY <2>1 DEF Take
    <3>2. SubSeq(r, 1, History) \in Seq(Past) /\ Len(SubSeq(r, 1, History)) = History
      BY <1>1, <1>2, <2>1
    <3>3. \A k \in 1 .. History : SubSeq(r, 1, History)[k] = r[k] /\ k \in 1 .. Len(r)
      BY <1>1, <1>2, <2>1
    <3> QED BY <1>1, <3>1, <3>2, <3>3
  <2>2. CASE ~(Len(r) > History)
    <3>1. Take(r) = r
      BY <2>2 DEF Take
    <3> QED BY <1>1, <1>2, <2>2, <3>1
  <2> QED BY <2>1, <2>2
<1> QED BY <1>4, <1>5 DEF r

\* The world with another history of a server that points to registered users.
LEMMA OtherPast ==
    ASSUME NEW w, NEW L \in SUBSET Users, Good(w, L), NEW s \in Servers, NEW h \in Seq(Past),
           Len(h) <= History, \A k \in DOMAIN h : h[k].who # None => w.tab[s][h[k].who].person
    PROVE  LET v == [w EXCEPT !.was[s] = h]
           IN Good(v, L) /\ v.tab = w.tab /\ v.dir = w.dir /\ v.watch = w.watch /\ v.was[s] = h
<1> DEFINE v == [w EXCEPT !.was[s] = h]
<1>1. /\ v \in Worlds /\ v.tab = w.tab /\ v.dir = w.dir /\ v.q = w.q /\ v.watch = w.watch
      /\ v.was[s] = h /\ \A t \in Servers \ {s} : v.was[t] = w.was[t]
  BY DEF Good, Worlds
<1> HIDE DEF v
<1>2. Named(v) /\ AtHome(v) /\ Alone(v)
  BY <1>1, SameTab DEF Good
<1>3. Routed(v) /\ Lines(v)
  BY <1>1 DEF Good, Routed, Lines
<1>4. Points(v)
  BY <1>1 DEF Good, Points
<1>5. Lists(v)
  <2>1. \A u \in Users : Watched(v, u) = Watched(w, u)
    BY <1>1 DEF Watched
  <2>2. \A t \in Servers, k \in NickNames : Status(v, t, k) = Status(w, t, k)
    BY <1>1 DEF Status, find_person
  <2>3. \A u \in Users : Watched(w, u) \subseteq NickNames /\ Home[u] \in Servers
    BY NetAssumption DEF Watched
  <2> QED BY <1>1, <2>1, <2>2, <2>3 DEF Good, Lists
<1>6. \A u \in L : ~Here(v, Home[u], u)
  BY <1>1 DEF Good, Here
<1> QED BY <1>1, <1>2, <1>3, <1>4, <1>5, <1>6 DEF Good, v

\* add_history() for a registered user.
LEMMA Noted ==
    ASSUME NEW w, NEW L \in SUBSET Users, Good(w, L), NEW s \in Servers, NEW u \in Users,
           w.tab[s][u].person, NEW online \in BOOLEAN
    PROVE  LET v == add_history(w, s, u, online)
           IN Good(v, L) /\ v.tab = w.tab /\ v.dir = w.dir /\ v.watch = w.watch
<1> DEFINE e == [nick |-> w.tab[s][u].nick, who |-> IF online THEN u ELSE None]
           h == Take(<<e>> \o w.was[s])
<1>1. w.was[s] \in Seq(Past) /\ w.tab[s][u] \in Client
  <2>1. w.was \in [Servers -> Seq(Past)] /\ w.tab \in [Servers -> [Users -> Client]]
    BY DEF Good, Worlds
  <2> QED BY <2>1
<1>2. w.tab[s][u].nick \in NickNames \cup {""}
  BY <1>1 DEF Client
<1>3. e \in Past
  BY <1>2 DEF Past
<1>4. e.who # None => w.tab[s][e.who].person
  OBVIOUS
<1> HIDE DEF e
<1>5. h \in Seq(Past) /\ Len(h) <= History /\ \A k \in DOMAIN h : h[k] = e \/ \E j \in DOMAIN w.was[s] : h[k] = w.was[s][j]
  BY <1>1, <1>3, Taken
<1>6. \A j \in DOMAIN w.was[s] : w.was[s][j].who # None => w.tab[s][w.was[s][j].who].person
  BY DEF Good, Points
<1> HIDE DEF h
<1>7. \A k \in DOMAIN h : h[k].who # None => w.tab[s][h[k].who].person
  BY <1>4, <1>5, <1>6
<1>8. add_history(w, s, u, online) = [w EXCEPT !.was[s] = h]
  BY DEF add_history, h, e
<1> QED BY <1>5, <1>7, <1>8, OtherPast

\* off_history()
LEMMA Offed ==
    ASSUME NEW w, NEW L \in SUBSET Users, Good(w, L), NEW s \in Servers, NEW u \in Users
    PROVE  LET v == off_history(w, s, u)
           IN /\ Good(v, L) /\ v.tab = w.tab /\ v.dir = w.dir /\ v.watch = w.watch
              /\ \A k \in DOMAIN v.was[s] : v.was[s][k].who # u
<1> DEFINE g == w.was[s]
           h == [k \in DOMAIN g |-> IF g[k].who = u THEN [g[k] EXCEPT !.who = None] ELSE g[k]]
<1>1. g \in Seq(Past) /\ Len(g) <= History
  BY DEF Good, Worlds, Points
<1>2. \A k \in DOMAIN g : g[k].who # None => w.tab[s][g[k].who].person
  BY DEF Good, Points
<1> HIDE DEF g
<1>3. \A k \in DOMAIN g : g[k] \in Past
  BY <1>1
<1>4. \A k \in DOMAIN g : h[k] \in Past /\ h[k].who # u /\ (h[k].who # None => h[k] = g[k])
  <2> SUFFICES ASSUME NEW k \in DOMAIN g
               PROVE  h[k] \in Past /\ h[k].who # u /\ (h[k].who # None => h[k] = g[k])
    OBVIOUS
  <2>1. g[k] \in Past /\ u # None
    BY <1>3, NetAssumption
  <2>2. CASE g[k].who = u
    BY <2>1, <2>2 DEF Past
  <2>3. CASE g[k].who # u
    BY <2>1, <2>3
  <2> QED BY <2>2, <2>3
<1>5. DOMAIN h = 1 .. Len(g) /\ Len(g) \in Nat /\ DOMAIN g = 1 .. Len(g)
  BY <1>1
<1>6. h \in [1 .. Len(g) -> Past]
  BY <1>4, <1>5
<1>7. h \in Seq(Past) /\ Len(h) <= History
  <2>1. h \in Seq(Past) /\ Len(h) = Len(g)
    BY <1>5, <1>6, IsASeq
  <2> QED BY <1>1, <2>1
<1>8. off_history(w, s, u) = [w EXCEPT !.was[s] = h]
  BY DEF off_history, g
<1> HIDE DEF h
<1>9. \A k \in DOMAIN h : h[k].who # None => w.tab[s][h[k].who].person
  BY <1>2, <1>4, <1>5
<1>10. LET v == [w EXCEPT !.was[s] = h]
       IN Good(v, L) /\ v.tab = w.tab /\ v.dir = w.dir /\ v.watch = w.watch /\ v.was[s] = h
  BY <1>7, <1>9, OtherPast
<1>11. \A k \in DOMAIN h : h[k].who # u
  BY <1>4, <1>5
<1> QED BY <1>8, <1>10, <1>11

\* What two worlds with the same tables and links say of the watched nicks.
LEMMA SameStatus ==
    ASSUME NEW w, NEW v, v.tab = w.tab
    PROVE  \A s, k : Status(v, s, k) = Status(w, s, k)
BY DEF Status, find_person

\* The world with other watch lists.
LEMMA OtherLists ==
    ASSUME NEW w, NEW L \in SUBSET Users, Good(w, L), NEW W \in [Users -> [NickNames -> {"", "on", "off"}]]
    PROVE  LET v == [w EXCEPT !.watch = W]
           IN /\ v.tab = w.tab /\ v.dir = w.dir /\ v.was = w.was /\ v.watch = W
              /\ Lists(v) => Good(v, L)
<1> DEFINE v == [w EXCEPT !.watch = W]
<1>1. v \in Worlds /\ v.tab = w.tab /\ v.dir = w.dir /\ v.q = w.q /\ v.was = w.was /\ v.watch = W
  BY DEF Good, Worlds
<1> HIDE DEF v
<1>2. Named(v) /\ AtHome(v) /\ Alone(v)
  BY <1>1, SameTab DEF Good
<1>3. Routed(v) /\ Lines(v) /\ Points(v)
  BY <1>1 DEF Good, Routed, Lines, Points
<1>4. \A u \in L : ~Here(v, Home[u], u)
  BY <1>1 DEF Good, Here
<1>5. Lists(v) => Good(v, L)
  BY <1>1, <1>2, <1>3, <1>4 DEF Good
<1> QED BY <1>1, <1>5 DEF v

\* WATCH -nick, WATCH C, and the list of one who leaves.
LEMMA Unlisted ==
    ASSUME NEW w, NEW L \in SUBSET Users, Good(w, L), NEW u \in Users, NEW nicks
    PROVE  LET v == del_from_watch(w, u, nicks)
           IN /\ Good(v, L) /\ v.tab = w.tab /\ v.dir = w.dir /\ v.was = w.was
              /\ Watched(v, u) = Watched(w, u) \ nicks
<1> DEFINE W == [w.watch EXCEPT ![u] = [k \in NickNames |-> IF k \in nicks THEN "" ELSE @[k]]]
           v == [w EXCEPT !.watch = W]
<1>0. w.watch \in [Users -> [NickNames -> {"", "on", "off"}]]
  BY DEF Good, Worlds
<1>1. /\ W \in [Users -> [NickNames -> {"", "on", "off"}]]
      /\ \A x \in Users : \A k \in NickNames : W[x][k] = IF x = u /\ k \in nicks THEN "" ELSE w.watch[x][k]
  BY <1>0
<1>2. v = del_from_watch(w, u, nicks)
  BY DEF del_from_watch
<1> HIDE DEF W
<1>3. v.tab = w.tab /\ v.dir = w.dir /\ v.was = w.was /\ v.watch = W /\ (Lists(v) => Good(v, L))
  BY <1>1, OtherLists
<1> HIDE DEF v
<1>4. \A x \in Users : Watched(v, x) = IF x = u THEN Watched(w, x) \ nicks ELSE Watched(w, x)
  BY <1>1, <1>3 DEF Watched
<1>5. \A x \in Users : /\ IsFiniteSet(Watched(w, x)) /\ Watched(v, x) \subseteq Watched(w, x)
                       /\ Watched(w, x) \subseteq NickNames
  <2>1. \A x \in Users : Watched(w, x) \subseteq NickNames
    BY DEF Watched
  <2>2. IsFiniteSet(NickNames)
    BY NetAssumption
  <2> QED BY <1>4, <2>1, <2>2, FS_Subset
<1>6. \A x \in Users : Cardinality(Watched(v, x)) <= MaxWatch
  <2> SUFFICES ASSUME NEW x \in Users PROVE Cardinality(Watched(v, x)) <= MaxWatch
    OBVIOUS
  <2>1. /\ Cardinality(Watched(v, x)) <= Cardinality(Watched(w, x))
        /\ Cardinality(Watched(v, x)) \in Nat /\ Cardinality(Watched(w, x)) \in Nat
    BY <1>5, FS_Subset, FS_CardinalityType
  <2>2. Cardinality(Watched(w, x)) <= MaxWatch /\ MaxWatch \in Nat
    BY NetAssumption DEF Good, Lists
  <2> QED BY <2>1, <2>2
<1>7. \A x \in Users : /\ Watched(v, x) # {} => v.tab[Home[x]][x].person
                       /\ \A k \in Watched(v, x) : v.watch[x][k] = Status(v, Home[x], k)
  <2> SUFFICES ASSUME NEW x \in Users
               PROVE  /\ Watched(v, x) # {} => v.tab[Home[x]][x].person
                      /\ \A k \in Watched(v, x) : v.watch[x][k] = Status(v, Home[x], k)
    OBVIOUS
  <2>1. Watched(v, x) # {} => v.tab[Home[x]][x].person
    BY <1>3, <1>5 DEF Good, Lists
  <2>2. ASSUME NEW k \in Watched(v, x) PROVE v.watch[x][k] = Status(v, Home[x], k)
    <3>1. k \in Watched(w, x) /\ k \in NickNames /\ v.watch[x][k] # ""
      BY <1>5 DEF Watched
    <3>2. v.watch[x][k] = w.watch[x][k]
      BY <1>1, <1>3, <3>1
    <3>3. Status(v, Home[x], k) = Status(w, Home[x], k)
      BY <1>3, SameStatus
    <3> QED BY <3>1, <3>2, <3>3 DEF Good, Lists
  <2> QED BY <2>1, <2>2
<1>8. Lists(v)
  BY <1>6, <1>7 DEF Lists
<1> QED BY <1>2, <1>3, <1>4, <1>8

\* WATCH +nick by a registered user of the server.
LEMMA Listed ==
    ASSUME NEW w, NEW L \in SUBSET Users, Good(w, L), NEW u \in Users, NEW nick \in NickNames,
           w.tab[Home[u]][u].person
    PROVE  Good(watch_add(w, Home[u], u, nick), L)
<1> DEFINE W == [w.watch EXCEPT ![u][nick] = Status(w, Home[u], nick)]
           v == [w EXCEPT !.watch = W]
<1>0. w.watch \in [Users -> [NickNames -> {"", "on", "off"}]]
  BY DEF Good, Worlds
<1>1. Status(w, Home[u], nick) \in {"on", "off"}
  BY DEF Status
<1>2. /\ W \in [Users -> [NickNames -> {"", "on", "off"}]]
      /\ \A x \in Users : \A k \in NickNames :
            W[x][k] = IF x = u /\ k = nick THEN Status(w, Home[u], nick) ELSE w.watch[x][k]
  BY <1>0, <1>1
<1>3. watch_add(w, Home[u], u, nick) = IF Cardinality(Watched(w, u)) >= MaxWatch THEN w ELSE v
  BY DEF watch_add
<1>4. SUFFICES ASSUME ~(Cardinality(Watched(w, u)) >= MaxWatch) PROVE Good(v, L)
  BY <1>3
<1> HIDE DEF W
<1>5. v.tab = w.tab /\ v.dir = w.dir /\ v.was = w.was /\ v.watch = W /\ (Lists(v) => Good(v, L))
  BY <1>2, OtherLists
<1> HIDE DEF v
<1>6. \A x \in Users : Watched(v, x) = IF x = u THEN Watched(w, x) \cup {nick} ELSE Watched(w, x)
  BY <1>1, <1>2, <1>5 DEF Watched
<1>7. IsFiniteSet(Watched(w, u))
  <2>1. Watched(w, u) \subseteq NickNames
    BY DEF Watched
  <2>2. IsFiniteSet(NickNames)
    BY NetAssumption
  <2> QED BY <2>1, <2>2, FS_Subset
<1>8. \A x \in Users : Cardinality(Watched(v, x)) <= MaxWatch
  <2>1. Cardinality(Watched(w, u) \cup {nick}) <= Cardinality(Watched(w, u)) + 1
        /\ Cardinality(Watched(w, u) \cup {nick}) \in Nat /\ Cardinality(Watched(w, u)) \in Nat
    <3>1. Cardinality(Watched(w, u)) \in Nat
      BY <1>7, FS_CardinalityType
    <3>2. Cardinality(Watched(w, u) \cup {nick}) =
             IF nick \in Watched(w, u) THEN Cardinality(Watched(w, u)) ELSE Cardinality(Watched(w, u)) + 1
      BY <1>7, FS_AddElement
    <3> QED BY <3>1, <3>2
  <2>2. MaxWatch \in Nat /\ \A x \in Users : Cardinality(Watched(w, x)) <= MaxWatch
    BY NetAssumption DEF Good, Lists
  <2>3. Cardinality(Watched(w, u) \cup {nick}) <= MaxWatch
    BY <1>4, <2>1, <2>2
  <2> QED BY <1>6, <2>2, <2>3
<1>9. \A x \in Users : /\ Watched(v, x) # {} => v.tab[Home[x]][x].person
                       /\ \A k \in Watched(v, x) : v.watch[x][k] = Status(v, Home[x], k)
  <2> SUFFICES ASSUME NEW x \in Users
               PROVE  /\ Watched(v, x) # {} => v.tab[Home[x]][x].person
                      /\ \A k \in Watched(v, x) : v.watch[x][k] = Status(v, Home[x], k)
    OBVIOUS
  <2>1. Watched(v, x) # {} => v.tab[Home[x]][x].person
    BY <1>5, <1>6 DEF Good, Lists
  <2>2. ASSUME NEW k \in Watched(v, x) PROVE v.watch[x][k] = Status(v, Home[x], k)
    <3>1. k \in NickNames
      BY DEF Watched
    <3>0. Status(v, Home[x], k) = Status(w, Home[x], k)
      BY <1>5, SameStatus
    <3>2. CASE x = u /\ k = nick
      BY <1>2, <1>5, <3>0, <3>1, <3>2
    <3>3. CASE ~(x = u /\ k = nick)
      <4>1. v.watch[x][k] = w.watch[x][k] /\ k \in Watched(w, x)
        BY <1>2, <1>5, <1>6, <3>1, <3>3
      <4> QED BY <3>0, <4>1 DEF Good, Lists
    <3> QED BY <3>2, <3>3
  <2> QED BY <2>1, <2>2
<1>10. Lists(v)
  BY <1>8, <1>9 DEF Lists
<1> QED BY <1>5, <1>10

\* hash_check_watch() changes what the users of the server were told of one nick.
LEMMA Checked ==
    ASSUME NEW w \in Worlds, NEW s \in Servers, NEW nick \in NickNames, NEW reply \in {"on", "off"}
    PROVE  LET v == hash_check_watch(w, s, nick, reply)
           IN /\ v \in Worlds /\ v.tab = w.tab /\ v.dir = w.dir /\ v.was = w.was /\ v.q = w.q
              /\ \A x \in Users : \A k \in NickNames :
                    v.watch[x][k] = IF Home[x] = s /\ k = nick /\ k \in Watched(w, x) THEN reply
                                    ELSE w.watch[x][k]
              /\ \A x \in Users : Watched(v, x) = Watched(w, x)
<1> DEFINE W == [u \in Users |-> IF Home[u] = s /\ nick \in Watched(w, u) THEN [w.watch[u] EXCEPT ![nick] = reply]
                                 ELSE w.watch[u]]
           v == [w EXCEPT !.watch = W]
<1>1. w.watch \in [Users -> [NickNames -> {"", "on", "off"}]]
  BY DEF Worlds
<1>2. W \in [Users -> [NickNames -> {"", "on", "off"}]]
  BY <1>1
<1>3. \A x \in Users : \A k \in NickNames :
         W[x][k] = IF Home[x] = s /\ k = nick /\ k \in Watched(w, x) THEN reply ELSE w.watch[x][k]
  BY <1>1
<1>4. hash_check_watch(w, s, nick, reply) = v
  BY DEF hash_check_watch
<1> HIDE DEF W
<1>5. v \in Worlds /\ v.tab = w.tab /\ v.dir = w.dir /\ v.was = w.was /\ v.q = w.q /\ v.watch = W
  BY <1>2 DEF Worlds
<1> HIDE DEF v
<1>6. \A x \in Users : Watched(v, x) = Watched(w, x)
  <2> SUFFICES ASSUME NEW x \in Users PROVE Watched(v, x) = Watched(w, x)
    OBVIOUS
  <2>1. \A k \in NickNames : v.watch[x][k] # "" <=> w.watch[x][k] # ""
    <3> SUFFICES ASSUME NEW k \in NickNames PROVE v.watch[x][k] # "" <=> w.watch[x][k] # ""
      OBVIOUS
    <3>1. CASE Home[x] = s /\ k = nick /\ k \in Watched(w, x)
      BY <1>3, <1>5, <3>1 DEF Watched
    <3>2. CASE ~(Home[x] = s /\ k = nick /\ k \in Watched(w, x))
      BY <1>3, <1>5, <3>2
    <3> QED BY <3>1, <3>2
  <2> QED BY <2>1 DEF Watched
<1> QED BY <1>3, <1>4, <1>5, <1>6

\* One place of a table changes, and the watchers there have been told.
LEMMA Changed ==
    ASSUME NEW w, NEW L \in SUBSET Users, Good(w, L), NEW s \in Servers, NEW u \in Users, NEW rec \in Client,
           rec # Gone => /\ rec.nick \in NickNames /\ (rec.person \/ rec.from = s)
                         /\ (Home[u] = s => rec.from = s /\ u \notin L)
                         /\ \A x \in Users \ {u} : Here(w, s, x) => w.tab[s][x].nick # rec.nick,
           \A k \in DOMAIN w.was[s] : w.was[s][k].who = u => rec.person,
           Home[u] = s /\ Watched(w, u) # {} => rec.person,
           NEW v \in Worlds, v.tab = [w.tab EXCEPT ![s][u] = rec],
           v.dir = w.dir, v.was = w.was, v.q = w.q,
           \A x \in Users : Watched(v, x) = Watched(w, x),
           \A x \in Users : \A k \in Watched(w, x) :
               v.watch[x][k] = IF Home[x] = s THEN Status(v, s, k) ELSE w.watch[x][k]
    PROVE  Good(v, L)
<1>1. w.tab \in [Servers -> [Users -> Client]]
  BY DEF Good, Worlds
<1>2. \A t \in Servers : \A x \in Users : v.tab[t][x] = IF t = s /\ x = u THEN rec ELSE w.tab[t][x]
  BY <1>1
<1>3. \A t \in Servers : \A x \in Users : ~(t = s /\ x = u) => (Here(v, t, x) <=> Here(w, t, x))
  BY <1>2 DEF Here
<1>4. Here(v, s, u) <=> rec # Gone
  BY <1>2 DEF Here
<1>5. Named(v)
  <2> SUFFICES ASSUME NEW t \in Servers, NEW x \in Users, Here(v, t, x)
               PROVE  v.tab[t][x].nick \in NickNames /\ (v.tab[t][x].person \/ v.tab[t][x].from = t)
    BY DEF Named
  <2>1. CASE t = s /\ x = u
    BY <1>2, <1>4, <2>1
  <2>2. CASE ~(t = s /\ x = u)
    BY <1>2, <1>3, <2>2 DEF Good, Named
  <2> QED BY <2>1, <2>2
<1>6. \A x \in Users : Home[x] \in Servers
  BY NetAssumption
<1>7. AtHome(v)
  <2> SUFFICES ASSUME NEW x \in Users, Here(v, Home[x], x) PROVE v.tab[Home[x]][x].from = Home[x]
    BY DEF AtHome
  <2>1. CASE Home[x] = s /\ x = u
    BY <1>2, <1>4, <2>1
  <2>2. CASE ~(Home[x] = s /\ x = u)
    BY <1>2, <1>3, <1>6, <2>2 DEF Good, AtHome
  <2> QED BY <2>1, <2>2
<1>8. Alone(v)
  <2> SUFFICES ASSUME NEW t \in Servers, NEW x \in Users, NEW y \in Users, Here(v, t, x), Here(v, t, y),
                      v.tab[t][x].nick = v.tab[t][y].nick
               PROVE  x = y
    BY DEF Alone
  <2>1. CASE t # s \/ (x # u /\ y # u)
    <3>1. Here(w, t, x) /\ Here(w, t, y) /\ w.tab[t][x].nick = w.tab[t][y].nick
      BY <1>2, <1>3, <2>1
    <3> QED BY <3>1 DEF Good, Alone
  <2>2. CASE t = s /\ x = u /\ y # u
    <3>1. Here(w, s, y) /\ w.tab[s][y].nick = rec.nick /\ rec # Gone
      BY <1>2, <1>3, <1>4, <2>2
    <3> QED BY <2>2, <3>1
  <2>3. CASE t = s /\ x # u /\ y = u
    <3>1. Here(w, s, x) /\ w.tab[s][x].nick = rec.nick /\ rec # Gone
      BY <1>2, <1>3, <1>4, <2>3
    <3> QED BY <2>3, <3>1
  <2> QED BY <2>1, <2>2, <2>3
<1>9. Points(v)
  <2> SUFFICES ASSUME NEW t \in Servers
               PROVE  /\ Len(v.was[t]) <= History
                      /\ \A k \in DOMAIN v.was[t] : v.was[t][k].who # None => v.tab[t][v.was[t][k].who].person
    BY DEF Points
  <2>1. /\ Len(w.was[t]) <= History
        /\ \A k \in DOMAIN w.was[t] : w.was[t][k].who # None => w.tab[t][w.was[t][k].who].person
    BY DEF Good, Points
  <2>2. ASSUME NEW k \in DOMAIN w.was[t], w.was[t][k].who # None
        PROVE  v.tab[t][w.was[t][k].who].person
    <3>1. w.was[t] \in Seq(Past)
      BY DEF Good, Worlds
    <3>2. w.was[t][k] \in Past
      BY <3>1
    <3>3. w.was[t][k].who \in Users
      BY <2>2, <3>2 DEF Past
    <3>4. w.tab[t][w.was[t][k].who].person
      BY <2>1, <2>2
    <3>5. CASE t = s /\ w.was[t][k].who = u
      BY <1>2, <3>5
    <3>6. CASE ~(t = s /\ w.was[t][k].who = u)
      <4>1. v.tab[t][w.was[t][k].who] = w.tab[t][w.was[t][k].who]
        BY <1>2, <3>3, <3>6
      <4> QED BY <3>4, <4>1
    <3> QED BY <3>5, <3>6
  <2> QED BY <2>1, <2>2
<1>10. Routed(v) /\ Lines(v)
  BY DEF Good, Routed, Lines
<1>11. Lists(v)
  <2> SUFFICES ASSUME NEW x \in Users
               PROVE  /\ Cardinality(Watched(v, x)) <= MaxWatch
                      /\ Watched(v, x) # {} => v.tab[Home[x]][x].person
                      /\ \A k \in Watched(v, x) : v.watch[x][k] = Status(v, Home[x], k)
    BY DEF Lists
  <2>1. Cardinality(Watched(v, x)) <= MaxWatch
    BY DEF Good, Lists
  <2>2. Watched(v, x) # {} => v.tab[Home[x]][x].person
    BY <1>2, <1>6 DEF Good, Lists
  <2>3. ASSUME NEW k \in Watched(v, x), Home[x] # s PROVE v.watch[x][k] = Status(v, Home[x], k)
    <3>1. v.watch[x][k] = w.watch[x][k] /\ w.watch[x][k] = Status(w, Home[x], k)
      BY <2>3 DEF Good, Lists
    <3>2. \A y \in Users : v.tab[Home[x]][y] = w.tab[Home[x]][y]
      BY <1>2, <1>6, <2>3
    <3>3. Status(v, Home[x], k) = Status(w, Home[x], k)
      BY <3>2 DEF Status, find_person
    <3> QED BY <3>1, <3>3
  <2> QED BY <2>1, <2>2, <2>3
<1>12. \A x \in L : ~Here(v, Home[x], x)
  <2> SUFFICES ASSUME NEW x \in L, Here(v, Home[x], x) PROVE FALSE
    OBVIOUS
  <2>1. CASE x = u /\ Home[x] = s
    BY <1>4, <2>1
  <2>2. CASE ~(x = u /\ Home[x] = s)
    BY <1>3, <1>6, <2>2 DEF Good
  <2> QED BY <2>1, <2>2
<1> QED BY <1>5, <1>7, <1>8, <1>9, <1>10, <1>11, <1>12 DEF Good

\* Who leaves is Gone, and the watchers of the nick are told.
LEMMA Cleared ==
    ASSUME NEW w, NEW L \in SUBSET Users, Good(w, L), NEW s \in Servers, NEW u \in Users, Here(w, s, u),
           \A k \in DOMAIN w.was[s] : w.was[s][k].who # u,
           Home[u] = s => Watched(w, u) = {}
    PROVE  LET v == hash_check_watch([w EXCEPT !.tab[s][u] = Gone], s, w.tab[s][u].nick, "off")
           IN Good(v, L) /\ v.tab = [w.tab EXCEPT ![s][u] = Gone] /\ v.dir = w.dir
<1> DEFINE nick == w.tab[s][u].nick
           w1 == [w EXCEPT !.tab[s][u] = Gone]
           v == hash_check_watch(w1, s, nick, "off")
<1>0. w.tab \in [Servers -> [Users -> Client]] /\ nick \in NickNames
  BY DEF Good, Worlds, Named
<1>1. Gone \in Client
  <2>1. MaxClock \in Nat
    BY NetAssumption
  <2> QED BY <2>1 DEF Gone, Client
<1>2. /\ w1 \in Worlds /\ w1.tab = [w.tab EXCEPT ![s][u] = Gone] /\ w1.dir = w.dir /\ w1.was = w.was
      /\ w1.q = w.q /\ w1.watch = w.watch
  BY <1>1 DEF Good, Worlds
<1>3. \A x \in Users : Watched(w1, x) = Watched(w, x)
  BY <1>2 DEF Watched
<1> HIDE DEF w1, nick
<1>4. /\ v \in Worlds /\ v.tab = w1.tab /\ v.dir = w1.dir /\ v.was = w1.was /\ v.q = w1.q
      /\ \A x \in Users : \A k \in NickNames :
            v.watch[x][k] = IF Home[x] = s /\ k = nick /\ k \in Watched(w1, x) THEN "off" ELSE w1.watch[x][k]
      /\ \A x \in Users : Watched(v, x) = Watched(w1, x)
  BY <1>0, <1>2, Checked
<1> HIDE DEF v
<1>5. \A x \in Users : v.tab[s][x] = IF x = u THEN Gone ELSE w.tab[s][x]
  BY <1>0, <1>2, <1>4
<1>6. Gone.person = FALSE
  BY DEF Gone
<1>7. Status(v, s, nick) = "off"
  <2> SUFFICES ASSUME NEW x \in Users, v.tab[s][x].person, v.tab[s][x].nick = nick PROVE FALSE
    BY DEF Status, find_person
  <2>1. x # u /\ w.tab[s][x].person /\ w.tab[s][x].nick = w.tab[s][u].nick
    BY <1>5, <1>6 DEF nick
  <2>2. Here(w, s, x)
    BY <2>1, PersonHere
  <2> QED BY <2>1, <2>2 DEF Good, Alone
<1>8. ASSUME NEW k \in NickNames, k # nick PROVE Status(v, s, k) = Status(w, s, k)
  <2>1. \A x \in Users : (v.tab[s][x].person /\ v.tab[s][x].nick = k) <=> (w.tab[s][x].person /\ w.tab[s][x].nick = k)
    BY <1>5, <1>6, <1>8 DEF nick
  <2> QED BY <2>1 DEF Status, find_person
<1>9. ASSUME NEW x \in Users, NEW k \in Watched(w, x)
      PROVE  v.watch[x][k] = IF Home[x] = s THEN Status(v, s, k) ELSE w.watch[x][k]
  <2>1. k \in NickNames /\ w.watch[x][k] = Status(w, Home[x], k)
    BY DEF Watched, Good, Lists
  <2>2. v.watch[x][k] = IF Home[x] = s /\ k = nick THEN "off" ELSE w.watch[x][k]
    BY <1>2, <1>3, <1>4, <2>1
  <2> QED BY <1>7, <1>8, <2>1, <2>2
<1>10. Good(v, L)
  <2>1. /\ v \in Worlds /\ v.tab = [w.tab EXCEPT ![s][u] = Gone] /\ v.dir = w.dir /\ v.was = w.was /\ v.q = w.q
        /\ \A x \in Users : Watched(v, x) = Watched(w, x)
    BY <1>2, <1>3, <1>4
  <2> QED BY <1>1, <1>9, <2>1, Changed
<1> QED BY <1>2, <1>4, <1>10 DEF v, w1, nick

\* exit_one_client() for a user who is there.
LEMMA Exits ==
    ASSUME NEW w, NEW L \in SUBSET Users, Good(w, L), NEW s \in Servers, NEW u \in Users, Here(w, s, u),
           NEW but, NEW killed
    PROVE  LET v == exit_one_client(w, s, u, but, killed)
           IN Good(v, L) /\ v.tab = [w.tab EXCEPT ![s][u] = Gone] /\ v.dir = w.dir
<1> DEFINE me == w.tab[s][u]
           told == IF killed THEN w ELSE sendto_serv_butone(w, s, but, Msg("QUIT", me.nick))
           noted == add_history(told, s, u, me.from # s)
           past == off_history(noted, s, u)
           unwatched == IF me.from = s THEN del_from_watch(past, u, NickNames) ELSE past
           last == IF me.person THEN unwatched ELSE w
           v == hash_check_watch([last EXCEPT !.tab[s][u] = Gone], s, me.nick, "off")
<1>0. me.nick \in NickNames /\ w.tab \in [Servers -> [Users -> Client]] /\ (me.person \/ me.from = s)
  BY DEF Good, Named, Worlds
<1>1. exit_one_client(w, s, u, but, killed) = v
  BY DEF exit_one_client
<1>2. Good(told, L) /\ told.tab = w.tab /\ told.dir = w.dir /\ told.watch = w.watch
  <2> DEFINE m == Msg("QUIT", me.nick)
  <2>1. m \in Line /\ m.kind = "QUIT"
    BY <1>0 DEF Msg, Line
  <2> HIDE DEF m
  <2>2. \A p \in Pairs : m \in LineOn(p)
    BY <2>1, AnyLine
  <2>3. LET x == sendto_serv_butone(w, s, but, m)
        IN Good(x, L) /\ x.tab = w.tab /\ x.dir = w.dir /\ x.was = w.was /\ x.watch = w.watch
    BY <2>1, <2>2, Sent
  <2> QED BY <2>3 DEF m
<1>3. /\ Good(last, L) /\ last.tab = w.tab /\ last.dir = w.dir
      /\ \A k \in DOMAIN last.was[s] : last.was[s][k].who # u
      /\ Home[u] = s => Watched(last, u) = {}
  <2>1. CASE me.person
    <3> HIDE DEF told
    <3>1. Good(noted, L) /\ noted.tab = told.tab /\ noted.dir = told.dir /\ noted.watch = told.watch
      BY <1>2, <2>1, Noted
    <3> HIDE DEF noted
    <3>2. /\ Good(past, L) /\ past.tab = noted.tab /\ past.dir = noted.dir /\ past.watch = noted.watch
          /\ \A k \in DOMAIN past.was[s] : past.was[s][k].who # u
      BY <3>1, Offed
    <3> HIDE DEF past
    <3>3. CASE me.from = s
      <4>1. /\ Good(unwatched, L) /\ unwatched.tab = past.tab /\ unwatched.dir = past.dir /\ unwatched.was = past.was
            /\ Watched(unwatched, u) = Watched(past, u) \ NickNames
        BY <3>2, <3>3, Unlisted
      <4>2. Watched(past, u) \ NickNames = {}
        BY DEF Watched
      <4> HIDE DEF unwatched
      <4> QED BY <1>2, <2>1, <3>1, <3>2, <4>1, <4>2
    <3>4. CASE me.from # s
      <4>1. Home[u] # s
        BY <3>4 DEF Good, AtHome
      <4> QED BY <1>2, <2>1, <3>1, <3>2, <3>4, <4>1
    <3> QED BY <3>3, <3>4
  <2>2. CASE ~me.person
    <3>1. last = w
      BY <2>2
    <3>2. Home[u] = s => Watched(w, u) = {}
      BY <2>2 DEF Good, Lists
    <3>3. \A k \in DOMAIN w.was[s] : w.was[s][k].who # u
      <4>1. u # None
        BY NetAssumption
      <4> QED BY <2>2, <4>1 DEF Good, Points
    <3> HIDE DEF last
    <3> QED BY <3>1, <3>2, <3>3
  <2> QED BY <2>1, <2>2
<1> HIDE DEF last
<1>4. Here(last, s, u)
  BY <1>3 DEF Here
<1>5. LET x == hash_check_watch([last EXCEPT !.tab[s][u] = Gone], s, last.tab[s][u].nick, "off")
      IN Good(x, L) /\ x.tab = [last.tab EXCEPT ![s][u] = Gone] /\ x.dir = last.dir
  BY <1>3, <1>4, Cleared
<1>6. last.tab[s][u].nick = me.nick
  BY <1>3
<1> HIDE DEF me
<1> QED BY <1>1, <1>3, <1>5, <1>6

\* exit_one_client() with a QUIT to the other servers, and without.
Quitting(w, s, u, but) == exit_one_client(w, s, u, but, FALSE)
Dropped(w, s, u, but) == exit_one_client(w, s, u, but, TRUE)

LEMMA Leaves ==
    ASSUME NEW w, NEW L \in SUBSET Users, Good(w, L), NEW s \in Servers, NEW u \in Users, Here(w, s, u), NEW but
    PROVE  /\ LET v == Dropped(w, s, u, but)
              IN Good(v, L) /\ v.tab = [w.tab EXCEPT ![s][u] = Gone] /\ v.dir = w.dir
           /\ LET v == Quitting(w, s, u, but)
              IN Good(v, L) /\ v.tab = [w.tab EXCEPT ![s][u] = Gone] /\ v.dir = w.dir
<1>1. \A b : LET v == exit_one_client(w, s, u, but, b)
             IN Good(v, L) /\ v.tab = [w.tab EXCEPT ![s][u] = Gone] /\ v.dir = w.dir
  BY Exits
<1> QED BY ONLY <1>1, Zenon DEF Dropped, Quitting

\* KILL by the server.
LEMMA Kills ==
    ASSUME NEW w, NEW L \in SUBSET Users, Good(w, L), NEW s \in Servers, NEW u \in Users, Here(w, s, u), NEW but
    PROVE  LET v == kill_client(w, s, u, but)
           IN Good(v, L) /\ v.tab = [w.tab EXCEPT ![s][u] = Gone] /\ v.dir = w.dir
<1> DEFINE m == Msg("KILL", w.tab[s][u].nick)
           told == sendto_serv_butone(w, s, but, m)
<1>1. m \in Line /\ m.kind = "KILL"
  <2>1. w.tab[s][u].nick \in NickNames
    BY DEF Good, Named
  <2> QED BY <2>1 DEF Msg, Line
<1>2. kill_client(w, s, u, but) = Dropped(told, s, u, but)
  BY Zenon DEF kill_client, Dropped
<1> HIDE DEF m
<1>3. \A p \in Pairs : m \in LineOn(p)
  BY <1>1, AnyLine
<1>4. Good(told, L) /\ told.tab = w.tab /\ told.dir = w.dir
  BY <1>1, <1>3, Sent
<1> HIDE DEF told
<1>5. Here(told, s, u)
  BY <1>4 DEF Here
<1>6. LET v == Dropped(told, s, u, but)
      IN Good(v, L) /\ v.tab = [told.tab EXCEPT ![s][u] = Gone] /\ v.dir = told.dir
  BY <1>4, <1>5, Leaves
<1> QED BY <1>2, <1>4, <1>6

\* A user who is there registers, or one who has registered comes over a link.
LEMMA Seated ==
    ASSUME NEW w, NEW L \in SUBSET Users, Good(w, L), NEW s \in Servers, NEW u \in Users, NEW rec \in Client,
           rec.nick \in NickNames, rec.person, ~w.tab[s][u].person,
           Home[u] = s => rec.from = s /\ u \notin L,
           \A x \in Users \ {u} : Here(w, s, x) => w.tab[s][x].nick # rec.nick
    PROVE  LET v == hash_check_watch([w EXCEPT !.tab[s][u] = rec], s, rec.nick, "on")
           IN Good(v, L) /\ v.dir = w.dir
<1> DEFINE w1 == [w EXCEPT !.tab[s][u] = rec]
           v == hash_check_watch(w1, s, rec.nick, "on")
<1>0. w.tab \in [Servers -> [Users -> Client]]
  BY DEF Good, Worlds
<1>2. /\ w1 \in Worlds /\ w1.tab = [w.tab EXCEPT ![s][u] = rec] /\ w1.dir = w.dir /\ w1.was = w.was
      /\ w1.q = w.q /\ w1.watch = w.watch
  BY DEF Good, Worlds
<1>3. \A x \in Users : Watched(w1, x) = Watched(w, x)
  BY <1>2 DEF Watched
<1> HIDE DEF w1
<1>4. /\ v \in Worlds /\ v.tab = w1.tab /\ v.dir = w1.dir /\ v.was = w1.was /\ v.q = w1.q
      /\ \A x \in Users : \A k \in NickNames :
            v.watch[x][k] = IF Home[x] = s /\ k = rec.nick /\ k \in Watched(w1, x) THEN "on" ELSE w1.watch[x][k]
      /\ \A x \in Users : Watched(v, x) = Watched(w1, x)
  BY <1>2, Checked
<1> HIDE DEF v
<1>5. \A x \in Users : v.tab[s][x] = IF x = u THEN rec ELSE w.tab[s][x]
  BY <1>0, <1>2, <1>4
<1>7. Status(v, s, rec.nick) = "on"
  BY <1>5 DEF Status, find_person
<1>8. ASSUME NEW k \in NickNames, k # rec.nick PROVE Status(v, s, k) = Status(w, s, k)
  <2>1. \A x \in Users : (v.tab[s][x].person /\ v.tab[s][x].nick = k) <=> (w.tab[s][x].person /\ w.tab[s][x].nick = k)
    BY <1>5, <1>8
  <2> QED BY <2>1 DEF Status, find_person
<1>9. ASSUME NEW x \in Users, NEW k \in Watched(w, x)
      PROVE  v.watch[x][k] = IF Home[x] = s THEN Status(v, s, k) ELSE w.watch[x][k]
  <2>1. k \in NickNames /\ w.watch[x][k] = Status(w, Home[x], k)
    BY DEF Watched, Good, Lists
  <2>2. v.watch[x][k] = IF Home[x] = s /\ k = rec.nick THEN "on" ELSE w.watch[x][k]
    BY <1>2, <1>3, <1>4, <2>1
  <2> QED BY <1>7, <1>8, <2>1, <2>2
<1>10. Good(v, L)
  <2>1. /\ v \in Worlds /\ v.tab = [w.tab EXCEPT ![s][u] = rec] /\ v.dir = w.dir /\ v.was = w.was /\ v.q = w.q
        /\ \A x \in Users : Watched(v, x) = Watched(w, x)
    BY <1>2, <1>3, <1>4
  <2> QED BY <1>9, <2>1, Changed
<1> QED BY <1>2, <1>4, <1>10 DEF v, w1

\* A user connects who has not registered.
LEMMA Connected ==
    ASSUME NEW w, NEW L \in SUBSET Users, Good(w, L), NEW s \in Servers, NEW u \in Users, NEW rec \in Client,
           rec.nick \in NickNames, ~rec.person, rec.from = s, ~w.tab[s][u].person, u \notin L,
           \A x \in Users \ {u} : Here(w, s, x) => w.tab[s][x].nick # rec.nick
    PROVE  Good([w EXCEPT !.tab[s][u] = rec], L)
<1> DEFINE v == [w EXCEPT !.tab[s][u] = rec]
<1>0. w.tab \in [Servers -> [Users -> Client]]
  BY DEF Good, Worlds
<1>2. /\ v \in Worlds /\ v.tab = [w.tab EXCEPT ![s][u] = rec] /\ v.dir = w.dir /\ v.was = w.was
      /\ v.q = w.q /\ v.watch = w.watch
  BY DEF Good, Worlds
<1> HIDE DEF v
<1>3. \A x \in Users : Watched(v, x) = Watched(w, x)
  BY <1>2 DEF Watched
<1>5. \A x \in Users : v.tab[s][x] = IF x = u THEN rec ELSE w.tab[s][x]
  BY <1>0, <1>2
<1>8. ASSUME NEW k \in NickNames PROVE Status(v, s, k) = Status(w, s, k)
  <2>1. \A x \in Users : (v.tab[s][x].person /\ v.tab[s][x].nick = k) <=> (w.tab[s][x].person /\ w.tab[s][x].nick = k)
    BY <1>5
  <2> QED BY <2>1 DEF Status, find_person
<1>9. ASSUME NEW x \in Users, NEW k \in Watched(w, x)
      PROVE  v.watch[x][k] = IF Home[x] = s THEN Status(v, s, k) ELSE w.watch[x][k]
  <2>1. k \in NickNames /\ w.watch[x][k] = Status(w, Home[x], k)
    BY DEF Watched, Good, Lists
  <2> QED BY <1>2, <1>8, <2>1
<1>10. Home[u] = s /\ Watched(w, u) # {} => rec.person
  BY DEF Good, Lists
<1>11. \A k \in DOMAIN w.was[s] : w.was[s][k].who = u => rec.person
  <2>1. u # None
    BY NetAssumption
  <2> QED BY <2>1 DEF Good, Points
<1>12. Good(v, L)
  <2>1. rec # Gone => /\ rec.nick \in NickNames /\ (rec.person \/ rec.from = s)
                      /\ (Home[u] = s => rec.from = s /\ u \notin L)
                      /\ \A x \in Users \ {u} : Here(w, s, x) => w.tab[s][x].nick # rec.nick
    OBVIOUS
  <2> QED BY <1>2, <1>3, <1>9, <1>10, <1>11, <2>1, Changed
<1> QED BY <1>12 DEF v

\* The end of m_nick() for a registered user, who takes a nick that is free.
LEMMA Renamed ==
    ASSUME NEW w, NEW L \in SUBSET Users, Good(w, L), NEW s \in Servers, NEW u \in Users, w.tab[s][u].person,
           NEW nick \in NickNames, NEW ts \in 0 .. MaxClock, NEW but,
           \A x \in Users \ {u} : Here(w, s, x) => w.tab[s][x].nick # nick
    PROVE  Good(rename(w, s, u, but, nick, ts), L)
<1> DEFINE me == w.tab[s][u]
           past == add_history(w, s, u, TRUE)
           m == [kind |-> "CHANGE", old |-> me.nick, nick |-> nick, ts |-> ts]
           told == sendto_serv_butone(past, s, but, m)
           off == hash_check_watch(told, s, me.nick, "off")
           w1 == [off EXCEPT !.tab[s][u] = [@ EXCEPT !.nick = nick, !.ts = ts]]
           v == hash_check_watch(w1, s, nick, "on")
           rec == [me EXCEPT !.nick = nick, !.ts = ts]
<1>0. /\ w.tab \in [Servers -> [Users -> Client]] /\ me \in Client /\ Here(w, s, u) /\ me.nick \in NickNames
      /\ rec \in Client /\ rec.nick = nick /\ rec.person /\ rec.from = me.from
  <2>1. w.tab \in [Servers -> [Users -> Client]] /\ Here(w, s, u)
    BY PersonHere DEF Good, Worlds
  <2>2. me.nick \in NickNames
    BY <2>1 DEF Good, Named
  <2>3. me \in Client /\ me.person
    BY <2>1
  <2> HIDE DEF me
  <2>4. rec \in Client /\ rec.nick = nick /\ rec.person /\ rec.from = me.from
    BY <2>3 DEF Client
  <2> QED BY <2>1, <2>2, <2>3, <2>4
<1>1. rename(w, s, u, but, nick, ts) = v
  BY DEF rename
<1>2. Good(past, L) /\ past.tab = w.tab /\ past.dir = w.dir /\ past.watch = w.watch
  <2>1. \A b \in BOOLEAN : LET x == add_history(w, s, u, b)
                           IN Good(x, L) /\ x.tab = w.tab /\ x.dir = w.dir /\ x.watch = w.watch
    BY Noted
  <2>2. TRUE \in BOOLEAN
    OBVIOUS
  <2> QED BY ONLY <2>1, <2>2, Zenon
<1> HIDE DEF past
<1>3. m \in Line /\ m.kind = "CHANGE"
  BY <1>0 DEF Line
<1> HIDE DEF m
<1>4. Good(told, L) /\ told.tab = w.tab /\ told.dir = w.dir /\ told.watch = w.watch
  <2>1. \A p \in Pairs : m \in LineOn(p)
    BY <1>3, AnyLine
  <2> QED BY <1>2, <1>3, <2>1, Sent
<1> HIDE DEF told
<1>5. /\ off \in Worlds /\ off.tab = told.tab /\ off.dir = told.dir /\ off.was = told.was /\ off.q = told.q
      /\ \A x \in Users : \A k \in NickNames :
            off.watch[x][k] = IF Home[x] = s /\ k = me.nick /\ k \in Watched(told, x) THEN "off" ELSE told.watch[x][k]
      /\ \A x \in Users : Watched(off, x) = Watched(told, x)
  <2>1. told \in Worlds /\ me.nick \in NickNames
    BY <1>0, <1>4 DEF Good
  <2> HIDE DEF me
  <2> QED BY <2>1, Checked, SMTT(60)
<1> HIDE DEF off
<1>6. /\ w1 \in Worlds /\ w1.tab = [w.tab EXCEPT ![s][u] = rec] /\ w1.dir = off.dir /\ w1.was = off.was
      /\ w1.q = off.q /\ w1.watch = off.watch
  <2>1. off.tab = w.tab
    BY <1>4, <1>5
  <2>2. w1 = [off EXCEPT !.tab = [w.tab EXCEPT ![s][u] = rec]]
    BY <1>0, <1>5, <2>1 DEF Worlds
  <2>3. [w.tab EXCEPT ![s][u] = rec] \in [Servers -> [Users -> Client]]
    BY <1>0
  <2> HIDE DEF w1, rec
  <2> QED BY <1>5, <2>2, <2>3 DEF Worlds
<1>7. \A x \in Users : Watched(w1, x) = Watched(off, x)
  BY <1>6 DEF Watched
<1> HIDE DEF w1
<1>8. /\ v \in Worlds /\ v.tab = w1.tab /\ v.dir = w1.dir /\ v.was = w1.was /\ v.q = w1.q
      /\ \A x \in Users : \A k \in NickNames :
            v.watch[x][k] = IF Home[x] = s /\ k = nick /\ k \in Watched(w1, x) THEN "on" ELSE w1.watch[x][k]
      /\ \A x \in Users : Watched(v, x) = Watched(w1, x)
  BY <1>6, Checked
<1> HIDE DEF v, rec
<1>9. \A x \in Users : v.tab[s][x] = IF x = u THEN rec ELSE w.tab[s][x]
  BY <1>0, <1>6, <1>8
<1>10. Status(v, s, nick) = "on"
  BY <1>0, <1>9 DEF Status, find_person
<1>11. me.nick # nick => Status(v, s, me.nick) = "off"
  <2> SUFFICES ASSUME me.nick # nick, NEW x \in Users, v.tab[s][x].person, v.tab[s][x].nick = me.nick PROVE FALSE
    BY DEF Status, find_person
  <2>1. x # u /\ w.tab[s][x].person /\ w.tab[s][x].nick = w.tab[s][u].nick
    BY <1>0, <1>9
  <2>2. Here(w, s, x)
    BY <2>1, PersonHere
  <2> QED BY <1>0, <2>1, <2>2 DEF Good, Alone
<1>12. ASSUME NEW k \in NickNames, k # nick, k # me.nick PROVE Status(v, s, k) = Status(told, s, k)
  <2>1. \A x \in Users : (v.tab[s][x].person /\ v.tab[s][x].nick = k) <=> (told.tab[s][x].person /\ told.tab[s][x].nick = k)
    BY <1>0, <1>4, <1>9, <1>12
  <2> QED BY <2>1 DEF Status, find_person
<1>13. ASSUME NEW x \in Users, NEW k \in Watched(told, x)
       PROVE  v.watch[x][k] = IF Home[x] = s THEN Status(v, s, k) ELSE told.watch[x][k]
  <2>1. k \in NickNames /\ told.watch[x][k] = Status(told, Home[x], k)
    BY <1>4 DEF Watched, Good, Lists
  <2>2. v.watch[x][k] = IF Home[x] = s /\ k = nick THEN "on"
                        ELSE IF Home[x] = s /\ k = me.nick THEN "off" ELSE told.watch[x][k]
    <3> HIDE DEF me
    <3> QED BY <1>5, <1>6, <1>7, <1>8, <2>1
  <2> HIDE DEF me
  <2> QED BY <1>10, <1>11, <1>12, <2>1, <2>2
<1>14. Good(v, L)
  <2>1. /\ v \in Worlds /\ v.tab = [told.tab EXCEPT ![s][u] = rec] /\ v.dir = told.dir /\ v.was = told.was
        /\ v.q = told.q /\ \A x \in Users : Watched(v, x) = Watched(told, x)
    BY <1>4, <1>5, <1>6, <1>7, <1>8
  <2>2. \A x \in Users \ {u} : Here(told, s, x) => told.tab[s][x].nick # rec.nick
    BY <1>0, <1>4 DEF Here
  <2>3. Home[u] = s => rec.from = s /\ u \notin L
    BY <1>0 DEF Good, AtHome
  <2>4. rec # Gone => /\ rec.nick \in NickNames /\ (rec.person \/ rec.from = s)
                      /\ (Home[u] = s => rec.from = s /\ u \notin L)
                      /\ \A x \in Users \ {u} : Here(told, s, x) => told.tab[s][x].nick # rec.nick
    BY <1>0, <2>2, <2>3
  <2>5. \A k \in DOMAIN told.was[s] : told.was[s][k].who = u => rec.person
    BY <1>0
  <2>6. Home[u] = s /\ Watched(told, u) # {} => rec.person
    BY <1>0
  <2>7. rec \in Client
    BY <1>0
  <2>8. Good(told, L) /\ v \in Worlds
    BY <1>4, <2>1
  <2> HIDE DEF me
  <2>9. \A x \in Users : \A k \in Watched(told, x) :
            v.watch[x][k] = IF Home[x] = s THEN Status(v, s, k) ELSE told.watch[x][k]
    BY <1>13
  <2> QED BY ONLY <2>1, <2>4, <2>5, <2>6, <2>7, <2>8, <2>9, Changed,
                  L \in SUBSET Users, s \in Servers, u \in Users, SMTT(100)
<1> QED BY <1>1, <1>14

\* m_nick() for a line of a link, of a new user and of one who is here: who is in
\* the way is gone when the nick is to be taken.
CollideNew(w, s, n, u, nick, ts) == collide(w, s, n, u, nick, ts, FALSE)
CollideChange(w, s, n, u, nick, ts) == collide(w, s, n, u, nick, ts, TRUE)

LEMMA Collides ==
    ASSUME NEW w, NEW L \in SUBSET Users, Good(w, L), NEW s \in Servers, NEW n \in Servers, NEW u \in Users,
           NEW nick \in NickNames, NEW ts, NEW changes,
           changes => Here(w, s, u) /\ w.tab[s][u].nick # nick
    PROVE  LET c == collide(w, s, n, u, nick, ts, changes)
           IN /\ Good(c.w, L) /\ c.w.dir = w.dir
              /\ \A x \in Users : Here(c.w, s, x) => c.w.tab[s][x] = w.tab[s][x]
              /\ c.in => /\ \A x \in Users : Here(c.w, s, x) => c.w.tab[s][x].nick # nick
                         /\ changes => c.w.tab[s][u] = w.tab[s][u]
<1> DEFINE v == find_client(w, s, nick)
           loses == w.tab[s][v].from # n /\ Loses(u, ts, v, w, s)
           w1 == IF loses /\ changes THEN kill_client(w, s, u, {n}) ELSE w
           even == ts = w.tab[s][v].ts
           c == collide(w, s, n, u, nick, ts, changes)
           Fine(d) == /\ Good(d.w, L) /\ d.w.dir = w.dir
                      /\ \A x \in Users : Here(d.w, s, x) => d.w.tab[s][x] = w.tab[s][x]
                      /\ d.in => /\ \A x \in Users : Here(d.w, s, x) => d.w.tab[s][x].nick # nick
                                 /\ changes => d.w.tab[s][u] = w.tab[s][u]
<1>0. SUFFICES Fine(c)
  OBVIOUS
<1>1. w.tab \in [Servers -> [Users -> Client]]
  BY DEF Good, Worlds
<1>2. /\ v = None => \A x \in Users : ~(Here(w, s, x) /\ w.tab[s][x].nick = nick)
      /\ v # None => v \in Users /\ Here(w, s, v) /\ w.tab[s][v].nick = nick
  BY FoundIs
<1>3. CASE v = None
  <2>1. c = [in |-> TRUE, w |-> w]
    BY <1>3 DEF collide
  <2>2. c.w = w /\ c.in
    BY <2>1
  <2> HIDE DEF c, v
  <2> QED BY <1>2, <1>3, <2>2
<1> HIDE DEF v
\* whom one exit takes out
<1>4. ASSUME NEW a, Good(a, L), a.dir = w.dir, NEW x \in Users, a.tab = [w.tab EXCEPT ![s][x] = Gone]
      PROVE  /\ \A y \in Users : Here(a, s, y) => a.tab[s][y] = w.tab[s][y]
             /\ ~Here(a, s, x) /\ \A y \in Users \ {x} : a.tab[s][y] = w.tab[s][y]
  BY <1>1, <1>4 DEF Here
<1>5. CASE v # None /\ Unregistered(w, s, v)
  <2> DEFINE a == Dropped(w, s, v, {})
  <2>1. c = [in |-> TRUE, w |-> a]
    BY <1>5 DEF collide, Dropped, v
  <2>2. Good(a, L) /\ a.tab = [w.tab EXCEPT ![s][v] = Gone] /\ a.dir = w.dir
    BY <1>2, <1>5, Leaves
  <2> HIDE DEF a, c
  <2>3. /\ \A y \in Users : Here(a, s, y) => a.tab[s][y] = w.tab[s][y]
        /\ ~Here(a, s, v) /\ \A y \in Users \ {v} : a.tab[s][y] = w.tab[s][y]
    BY <1>2, <1>4, <1>5, <2>2
  <2>4. \A x \in Users : Here(a, s, x) => a.tab[s][x].nick # nick
    <3> SUFFICES ASSUME NEW x \in Users, Here(a, s, x), a.tab[s][x].nick = nick PROVE FALSE
      OBVIOUS
    <3>1. x # v /\ w.tab[s][x] = a.tab[s][x]
      BY <2>3
    <3>2. Here(w, s, x) /\ Here(w, s, v) /\ w.tab[s][x].nick = w.tab[s][v].nick
      BY <1>2, <1>5, <3>1 DEF Here
    <3> QED BY <1>2, <1>5, <3>1, <3>2 DEF Good, Alone
  <2>5. changes => u # v
    BY <1>2, <1>5
  <2>6. c.w = a /\ c.in
    BY <2>1
  <2> QED BY <2>2, <2>3, <2>4, <2>5, <2>6
<1>6. /\ Good(w1, L) /\ w1.dir = w.dir
      /\ \A y \in Users : Here(w1, s, y) => w1.tab[s][y] = w.tab[s][y]
      /\ \A y \in Users \ {u} : w1.tab[s][y] = w.tab[s][y]
      /\ ~loses => w1 = w
  <2>1. CASE loses /\ changes
    <3>1. w1 = kill_client(w, s, u, {n})
      BY <2>1
    <3>2. Good(w1, L) /\ w1.tab = [w.tab EXCEPT ![s][u] = Gone] /\ w1.dir = w.dir
      BY <2>1, <3>1, Kills
    <3> HIDE DEF w1
    <3> QED BY <1>4, <2>1, <3>2
  <2>2. CASE ~(loses /\ changes)
    BY <2>2
  <2> QED BY <2>1, <2>2
<1>7. CASE v # None /\ ~Unregistered(w, s, v) /\ loses /\ ~even
  <2>1. c = [in |-> FALSE, w |-> w1]
    BY <1>7 DEF collide, v
  <2>2. c.w = w1 /\ c.in = FALSE
    BY <2>1
  <2> HIDE DEF c, w1
  <2> QED BY <1>6, <2>2
<1>8. CASE v # None /\ ~Unregistered(w, s, v) /\ ~(loses /\ ~even)
  <2> DEFINE a == kill_client(w1, s, v, {n})
  <2>1. c = [in |-> ~even, w |-> a]
    <3>1. c = CASE v = None -> [in |-> TRUE, w |-> w]
                [] v # None /\ Unregistered(w, s, v) -> [in |-> TRUE, w |-> exit_one_client(w, s, v, {}, TRUE)]
                [] v # None /\ ~Unregistered(w, s, v) /\ loses /\ ~even -> [in |-> FALSE, w |-> w1]
                [] OTHER -> [in |-> ~even, w |-> a]
      BY DEF collide, v
    <3> HIDE DEF a, c, loses, even, w1
    <3> QED BY <1>8, <3>1
  <2>2. c.w = a /\ (c.in <=> ~even)
    <3> HIDE DEF a, c
    <3> QED BY <2>1
  <2> HIDE DEF c
  <2>3. CASE v = u /\ changes
    BY <1>2, <1>8, <2>3
  <2>4. CASE ~(v = u /\ changes)
    <3>1. Here(w1, s, v) /\ v \in Users
      <4>1. CASE v # u
        BY <1>2, <1>6, <1>8, <4>1 DEF Here
      <4>2. CASE ~changes
        BY <1>2, <1>8, <4>2
      <4> QED BY <2>4, <4>1, <4>2
    <3> HIDE DEF w1
    <3>2. Good(a, L) /\ a.tab = [w1.tab EXCEPT ![s][v] = Gone] /\ a.dir = w1.dir
      BY <1>6, <3>1, Kills
    <3> HIDE DEF a
    <3>3. w1.tab \in [Servers -> [Users -> Client]]
      BY <1>6 DEF Good, Worlds
    <3>4. \A y \in Users : a.tab[s][y] = IF y = v THEN Gone ELSE w1.tab[s][y]
      BY <3>2, <3>3
    <3>5. \A y \in Users : Here(a, s, y) => y # v /\ Here(w1, s, y) /\ a.tab[s][y] = w.tab[s][y] /\ Here(w, s, y)
      BY <1>6, <3>4 DEF Here
    <3>6. \A x \in Users : Here(a, s, x) => a.tab[s][x].nick # nick
      BY <1>2, <1>8, <3>5 DEF Good, Alone
    <3>7. c.in /\ changes => c.w.tab[s][u] = w.tab[s][u]
      <4> SUFFICES ASSUME ~even, changes PROVE a.tab[s][u] = w.tab[s][u]
        BY <2>2
      <4>1. ~loses /\ w1 = w
        BY <1>6, <1>8
      <4> QED BY <2>4, <3>4, <4>1
    <3> QED BY <1>6, <2>2, <3>2, <3>5, <3>6, <3>7
  <2> QED BY <2>3, <2>4
<1> HIDE DEF c, loses, even, w1
<1> QED BY <1>3, <1>5, <1>7, <1>8

LEMMA CollidesBoth ==
    ASSUME NEW w, NEW L \in SUBSET Users, Good(w, L), NEW s \in Servers, NEW n \in Servers, NEW u \in Users,
           NEW nick \in NickNames, NEW ts
    PROVE  /\ LET c == CollideNew(w, s, n, u, nick, ts)
              IN /\ Good(c.w, L) /\ c.w.dir = w.dir
                 /\ \A x \in Users : Here(c.w, s, x) => c.w.tab[s][x] = w.tab[s][x]
                 /\ c.in => \A x \in Users : Here(c.w, s, x) => c.w.tab[s][x].nick # nick
           /\ Here(w, s, u) /\ w.tab[s][u].nick # nick =>
                LET c == CollideChange(w, s, n, u, nick, ts)
                IN /\ Good(c.w, L) /\ c.w.dir = w.dir
                   /\ c.in => /\ \A x \in Users : Here(c.w, s, x) => c.w.tab[s][x].nick # nick
                              /\ c.w.tab[s][u] = w.tab[s][u]
<1>1. \A b : (b => Here(w, s, u) /\ w.tab[s][u].nick # nick) =>
             LET c == collide(w, s, n, u, nick, ts, b)
             IN /\ Good(c.w, L) /\ c.w.dir = w.dir
                /\ \A x \in Users : Here(c.w, s, x) => c.w.tab[s][x] = w.tab[s][x]
                /\ c.in => /\ \A x \in Users : Here(c.w, s, x) => c.w.tab[s][x].nick # nick
                           /\ b => c.w.tab[s][u] = w.tab[s][u]
  BY Collides
<1> QED BY ONLY <1>1, Zenon DEF CollideNew, CollideChange

\* The ends of a link are two servers, each reached directly by the other.
LEMMA Ends ==
    ASSUME NEW p \in Pairs
    PROVE  /\ p[1] \in Servers /\ p[2] \in Servers /\ p[1] # p[2] /\ p = <<p[1], p[2]>>
           /\ {p[1], p[2]} \in Wires /\ Route[p[1]][p[2]] = p[2]
           /\ \A t \in Servers : Route[p[1]][t] # p[2] => Route[p[2]][t] = p[1]
<1>1. p[1] \in Servers /\ p[2] \in Servers /\ p = <<p[1], p[2]>> /\ {p[1], p[2]} \in Wires
  BY DEF Pairs
<1>2. p[1] # p[2]
  <2> SUFFICES ASSUME p[1] = p[2] PROVE FALSE
    OBVIOUS
  <2>1. {p[1], p[2]} = {p[1]}
    OBVIOUS
  <2>2. Cardinality({p[1]}) = 1
    BY FS_Singleton
  <2>3. Cardinality({p[1], p[2]}) = 2
    BY <1>1, NetAssumption
  <2> QED BY <2>1, <2>2, <2>3
<1>3. Route[p[1]][p[2]] = p[2] /\ \A t \in Servers : Route[p[1]][t] # p[2] => Route[p[2]][t] = p[1]
  BY <1>1, NetAssumption
<1> QED BY <1>1, <1>2, <1>3

\* NICK of a new user.
LEMMA Introduces ==
    ASSUME NEW w, NEW L \in SUBSET Users, Good(w, L), NEW s, NEW n, <<n, s>> \in Pairs,
           NEW m \in LineOn(<<n, s>>), m.kind = "NICK",
           w.dir[s][m.server] = n /\ Here(w, s, m.user) => w.tab[s][m.user].nick = m.nick
    PROVE  Good(m_nick_new(w, s, n, m), L)
<1> DEFINE c == CollideNew(w, s, n, m.user, m.nick, m.ts)
           rec == [nick |-> m.nick, ts |-> m.ts, from |-> n, person |-> TRUE]
           on == hash_check_watch([c.w EXCEPT !.tab[s][m.user] = rec], s, m.nick, "on")
           u == m.user
<1>1. s \in Servers /\ n \in Servers /\ n # s
  BY Ends
<1>2. m \in Line /\ m.nick \in NickNames /\ m.ts \in 0 .. MaxClock /\ u \in Users /\ m.server = Home[u]
  BY DEF LineOn, Line
<1>3. m_nick_new(w, s, n, m) = IF w.dir[s][m.server] # n THEN w
                               ELSE IF c.in THEN sendto_serv_butone(on, s, {n}, m) ELSE c.w
  BY Zenon DEF m_nick_new, CollideNew
<1>4. /\ Good(c.w, L) /\ c.w.dir = w.dir
      /\ \A x \in Users : Here(c.w, s, x) => c.w.tab[s][x] = w.tab[s][x]
      /\ c.in => \A x \in Users : Here(c.w, s, x) => c.w.tab[s][x].nick # m.nick
  BY <1>1, <1>2, CollidesBoth
<1> HIDE DEF c
<1>5. CASE w.dir[s][m.server] = n /\ c.in
  <2>1. rec \in Client /\ rec.nick = m.nick /\ rec.person /\ rec.from = n
    BY <1>1, <1>2 DEF Client
  <2>2. ~c.w.tab[s][u].person
    <3> SUFFICES ASSUME c.w.tab[s][u].person PROVE FALSE
      OBVIOUS
    <3>1. Here(c.w, s, u)
      BY PersonHere
    <3>2. c.w.tab[s][u] = w.tab[s][u] /\ c.w.tab[s][u].nick # m.nick
      BY <1>2, <1>4, <1>5, <3>1
    <3>3. Here(w, s, u)
      BY <3>1, <3>2 DEF Here
    <3> QED BY <1>5, <3>2, <3>3
  <2>3. Home[u] # s
    <3> SUFFICES ASSUME Home[u] = s PROVE FALSE
      OBVIOUS
    <3>1. Route[s][s] = s /\ n # None
      BY <1>1, NetAssumption
    <3>2. w.dir[s][s] \in {None, s}
      BY <1>1, <3>1 DEF Good, Routed
    <3> QED BY <1>1, <1>2, <1>5, <3>1, <3>2
  <2> HIDE DEF rec, u
  <2>4. LET v == hash_check_watch([c.w EXCEPT !.tab[s][u] = rec], s, rec.nick, "on")
        IN Good(v, L) /\ v.dir = c.w.dir
    BY <1>1, <1>2, <1>4, <1>5, <2>1, <2>2, <2>3, Seated, SMTT(60)
  <2>5. Good(on, L)
    BY <2>1, <2>4 DEF u
  <2> HIDE DEF on
  <2>6. \A p \in Pairs : m \in LineOn(p)
    BY <1>2 DEF LineOn, u
  <2>7. Good(sendto_serv_butone(on, s, {n}, m), L)
    BY <1>1, <1>2, <2>5, <2>6, Sent
  <2> QED BY <1>3, <1>5, <2>7
<1>6. CASE ~(w.dir[s][m.server] = n /\ c.in)
  BY <1>3, <1>4, <1>6
<1> QED BY <1>5, <1>6

\* NICK of a user who is here.
LEMMA Changes ==
    ASSUME NEW w, NEW L \in SUBSET Users, Good(w, L), NEW s, NEW n, <<n, s>> \in Pairs,
           NEW m \in LineOn(<<n, s>>), m.kind = "CHANGE",
           NEW u \in Users, Here(w, s, u), w.tab[s][u].nick = m.old, w.tab[s][u].from = n
    PROVE  Good(m_nick_change(w, s, n, u, m), L)
<1> DEFINE c == CollideChange(w, s, n, u, m.nick, m.ts)
<1>1. s \in Servers /\ n \in Servers /\ n # s
  BY Ends
<1>2. m.nick \in NickNames /\ m.ts \in 0 .. MaxClock
  BY DEF LineOn, Line
<1>3. m_nick_change(w, s, n, u, m) = IF m.nick = m.old THEN w
                                     ELSE IF c.in THEN rename(c.w, s, u, {n}, m.nick, m.ts) ELSE c.w
  BY Zenon DEF m_nick_change, CollideChange
<1>4. SUFFICES ASSUME m.nick # m.old PROVE Good(IF c.in THEN rename(c.w, s, u, {n}, m.nick, m.ts) ELSE c.w, L)
  BY <1>3
<1>5. /\ Good(c.w, L) /\ c.w.dir = w.dir
      /\ c.in => /\ \A x \in Users : Here(c.w, s, x) => c.w.tab[s][x].nick # m.nick
                 /\ c.w.tab[s][u] = w.tab[s][u]
  BY <1>1, <1>2, <1>4, CollidesBoth
<1> HIDE DEF c
<1>6. CASE c.in
  <2>1. c.w.tab[s][u].person
    BY <1>1, <1>5, <1>6 DEF Good, Named
  <2>2. Good(rename(c.w, s, u, {n}, m.nick, m.ts), L)
    BY <1>1, <1>2, <1>5, <1>6, <2>1, Renamed
  <2> QED BY <1>6, <2>2
<1>7. CASE ~c.in
  BY <1>5, <1>7
<1> QED BY <1>6, <1>7

\* Who gave up a nick last is there, when the history points to one.
LEMMA Chased ==
    ASSUME NEW w, NEW L \in SUBSET Users, Good(w, L), NEW s \in Servers, NEW nick, get_history(w, s, nick) # None
    PROVE  get_history(w, s, nick) \in Users /\ Here(w, s, get_history(w, s, nick))
<1> DEFINE I == {i \in 1 .. Len(w.was[s]) : w.was[s][i].nick = nick}
           k == IF I # {} THEN Min(I) ELSE 0
<1>1. w.was[s] \in Seq(Past)
  BY DEF Good, Worlds
<1>2. get_history(w, s, nick) = IF k = 0 THEN None ELSE w.was[s][k].who
  BY DEF get_history, SelectInSeq
<1>3. I # {} /\ Min(I) \in I
  <2>1. I \in SUBSET (1 .. Len(w.was[s])) /\ Len(w.was[s]) \in Nat
    BY <1>1
  <2>2. I # {}
    <3> SUFFICES ASSUME I = {} PROVE FALSE
      OBVIOUS
    <3>1. k = 0
      OBVIOUS
    <3> HIDE DEF k, I
    <3> QED BY <1>2, <3>1
  <2> HIDE DEF I
  <2> QED BY <2>1, <2>2, FirstIs
<1>4. k \in DOMAIN w.was[s] /\ k # 0
  <2>1. k = Min(I) /\ Min(I) \in 1 .. Len(w.was[s])
    BY <1>3
  <2> HIDE DEF k, I
  <2> QED BY <1>1, <2>1
<1> HIDE DEF k
<1>5. w.was[s][k] \in Past /\ get_history(w, s, nick) = w.was[s][k].who
  BY <1>1, <1>2, <1>4
<1>6. w.was[s][k].who \in Users
  BY <1>5 DEF Past
<1>7. w.tab[s][w.was[s][k].who].person
  BY <1>4, <1>5 DEF Good, Points
<1>8. Here(w, s, w.was[s][k].who)
  BY <1>7, PersonHere
<1> QED BY <1>5, <1>6, <1>8

\* KILL of a line.
LEMMA KillLine ==
    ASSUME NEW w, NEW L \in SUBSET Users, Good(w, L), NEW s, NEW n, <<n, s>> \in Pairs, NEW nick \in NickNames
    PROVE  Good(m_kill(w, s, n, nick), L)
<1> DEFINE v == find_client(w, s, nick)
           u == IF v # None THEN v ELSE get_history(w, s, nick)
           m == Msg("KILL", w.tab[s][u].nick)
           w1 == IF v # None THEN w ELSE sendto_one(w, s, n, <<m>>)
<1>1. s \in Servers /\ n \in Servers
  BY Ends
<1>2. m_kill(w, s, n, nick) = IF u = None THEN w ELSE kill_client(w1, s, u, {n})
  BY DEF m_kill
<1>3. SUFFICES ASSUME u # None PROVE Good(kill_client(w1, s, u, {n}), L)
  BY <1>2
<1>4. u \in Users /\ Here(w, s, u)
  <2>1. CASE v # None
    BY <2>1, FoundIs
  <2>2. CASE v = None
    <3>1. u = get_history(w, s, nick)
      BY <2>2
    <3> HIDE DEF u
    <3> QED BY <1>1, <1>3, <3>1, Chased
  <2> QED BY <2>1, <2>2
<1> HIDE DEF u
<1>5. m \in Line /\ m.kind = "KILL"
  <2>1. w.tab[s][u].nick \in NickNames
    BY <1>1, <1>4 DEF Good, Named
  <2> QED BY <2>1 DEF Msg, Line
<1> HIDE DEF m
<1>6. <<m>> \in Seq(Line) /\ <<m>> \in Seq(LineOn(<<s, n>>))
  <2>1. m \in LineOn(<<s, n>>)
    BY <1>5 DEF LineOn
  <2> QED BY <1>5, <2>1
<1>7. Good(w1, L) /\ w1.tab = w.tab
  <2>1. LET x == sendto_one(w, s, n, <<m>>)
        IN Good(x, L) /\ x.tab = w.tab /\ x.dir = w.dir /\ x.was = w.was /\ x.watch = w.watch
    BY <1>6, SentOne
  <2> QED BY <2>1
<1> HIDE DEF w1
<1>8. Here(w1, s, u)
  BY <1>4, <1>7 DEF Here
<1> QED BY <1>1, <1>4, <1>7, <1>8, Kills

\* The world with a link made or broken.
LEMMA Relinked ==
    ASSUME NEW w, NEW L \in SUBSET Users, Good(w, L), NEW s \in Servers, NEW t \in Servers,
           NEW n, n = None \/ n = Route[s][t]
    PROVE  LET v == [w EXCEPT !.dir[s][t] = n]
           IN /\ Good(v, L) /\ v.tab = w.tab /\ v.was = w.was /\ v.q = w.q /\ v.watch = w.watch
              /\ \A x \in Servers : v.dir[s][x] = IF x = t THEN n ELSE w.dir[s][x]
<1> DEFINE v == [w EXCEPT !.dir[s][t] = n]
<1>1. /\ v \in Worlds /\ v.tab = w.tab /\ v.q = w.q /\ v.watch = w.watch /\ v.was = w.was
      /\ \A x, y \in Servers : v.dir[x][y] = IF x = s /\ y = t THEN n ELSE w.dir[x][y]
  <2>1. n \in Servers \cup {None} /\ w.dir \in [Servers -> [Servers -> Servers \cup {None}]]
    <3>1. Route[s][t] \in Servers
      <4>1. Route \in [Servers -> [Servers -> Servers]]
        BY NetAssumption
      <4> QED BY <4>1
    <3>2. w.dir \in [Servers -> [Servers -> Servers \cup {None}]]
      BY DEF Good, Worlds
    <3> QED BY <3>1, <3>2
  <2> QED BY <2>1 DEF Good, Worlds
<1> HIDE DEF v
<1>2. Named(v) /\ AtHome(v) /\ Alone(v)
  BY <1>1, SameTab DEF Good
<1>3. Points(v) /\ Lines(v)
  BY <1>1 DEF Good, Points, Lines
<1>4. Routed(v)
  BY <1>1 DEF Good, Routed
<1>5. Lists(v)
  <2>1. \A u \in Users : Watched(v, u) = Watched(w, u)
    BY <1>1 DEF Watched
  <2>2. \A x, k : Status(v, x, k) = Status(w, x, k)
    BY <1>1, SameStatus
  <2> QED BY <1>1, <2>1, <2>2 DEF Good, Lists
<1>6. \A u \in L : ~Here(v, Home[u], u)
  BY <1>1 DEF Good, Here
<1> QED BY <1>1, <1>2, <1>3, <1>4, <1>5, <1>6 DEF Good, v

\* A set as a list.
LEMMA Listing ==
    ASSUME NEW S, IsFiniteSet(S)
    PROVE  SetToSeq(S) \in Seq(S)
<1>1. Cardinality(S) \in Nat /\ ExistsBijection(1 .. Cardinality(S), S)
  BY FS_CardinalityType
<1>2. \E f \in [1 .. Cardinality(S) -> S] : IsInjective(f)
  <2>1. PICK f \in Bijection(1 .. Cardinality(S), S) : TRUE
    BY <1>1 DEF ExistsBijection
  <2>2. f \in [1 .. Cardinality(S) -> S] /\ IsInjective(f)
    BY <2>1 DEF Bijection, Injection, IsInjective
  <2> QED BY <2>2
<1>3. SetToSeq(S) \in [1 .. Cardinality(S) -> S]
  BY <1>2 DEF SetToSeq
<1> QED BY <1>1, <1>3, IsASeq

\* SERVER for a server that s reaches without n goes to n.
LEMMA ServerLine ==
    ASSUME NEW p \in Pairs, NEW t \in Servers, Route[p[1]][t] # p[2]
    PROVE  Msg("SERVER", t) \in Line /\ Msg("SERVER", t) \in LineOn(p)
BY DEF Msg, Line, LineOn

\* A server behind the link of n is told of to the others.
LEMMA Server ==
    ASSUME NEW w, NEW L \in SUBSET Users, Good(w, L), NEW s \in Servers, NEW n, NEW t \in Servers, Route[s][t] = n
    PROVE  Good(sendto_serv_butone([w EXCEPT !.dir[s][t] = n], s, {n}, Msg("SERVER", t)), L)
<1> DEFINE v == [w EXCEPT !.dir[s][t] = n]
           m == Msg("SERVER", t)
<1>1. Good(v, L)
  BY Relinked
<1>2. m \in Line
  BY DEF Msg, Line
<1>3. \A p \in Pairs : p[1] = s /\ p[2] \in Linked(v, s) \ {n} => m \in LineOn(p)
  <2> SUFFICES ASSUME NEW p \in Pairs, p[1] = s, p[2] # n PROVE m \in LineOn(p)
    OBVIOUS
  <2> QED BY ServerLine
<1> HIDE DEF v, m
<1>4. Good(sendto_serv_butone(v, s, {n}, m), L)
  BY <1>1, <1>2, <1>3, Sent
<1> QED BY <1>4 DEF v, m

\* SQUIT of a server that is not reached any more.
LEMMA Squit ==
    ASSUME NEW w, NEW L \in SUBSET Users, Good(w, L), NEW s \in Servers, NEW t \in Servers, NEW but
    PROVE  LET v == sendto_serv_butone([w EXCEPT !.dir[s][t] = None], s, but, Msg("SQUIT", t))
           IN Good(v, L) /\ v.tab = w.tab
<1> DEFINE v == [w EXCEPT !.dir[s][t] = None]
           m == Msg("SQUIT", t)
<1>1. Good(v, L) /\ v.tab = w.tab
  BY Relinked
<1>2. m \in Line /\ m.kind = "SQUIT"
  BY DEF Msg, Line
<1> HIDE DEF v, m
<1>3. \A p \in Pairs : m \in LineOn(p)
  BY <1>2, AnyLine
<1>4. LET x == sendto_serv_butone(v, s, but, m)
      IN Good(x, L) /\ x.tab = v.tab /\ x.dir = v.dir /\ x.was = v.was /\ x.watch = v.watch
  BY <1>1, <1>2, <1>3, Sent
<1> QED BY <1>1, <1>4 DEF v, m

\* m_server_estab()
LEMMA Established ==
    ASSUME NEW w, NEW L \in SUBSET Users, Good(w, L), NEW s, NEW n, <<s, n>> \in Pairs,
           NEW hello \in Seq(Line), hello \in Seq(LineOn(<<s, n>>))
    PROVE  Good(m_server_estab(w, s, n, hello), L)
<1> DEFINE servers == {t \in Servers : w.dir[s][t] \notin {None, n} /\ t # s}
           folk == Introduced(w, s, n)
           intro(u) == [kind |-> "NICK", nick |-> w.tab[s][u].nick, ts |-> w.tab[s][u].ts,
                        user |-> u, server |-> Home[u]]
           told == sendto_serv_butone([w EXCEPT !.dir[s][n] = n], s, {n}, Msg("SERVER", n))
           A == {Msg("SERVER", t) : t \in servers}
           B == {intro(u) : u \in folk}
           ms == hello \o SetToSeq(A) \o SetToSeq(B)
           On == LineOn(<<s, n>>)
<1>1. /\ s \in Servers /\ n \in Servers /\ s # n /\ Route[s][n] = n
  BY Ends
<1>2. m_server_estab(w, s, n, hello) = sendto_one(told, s, n, ms)
  BY DEF m_server_estab
<1>3. Good(told, L)
  BY <1>1, Server
<1>4. A \subseteq Line /\ A \subseteq On
  <2> SUFFICES ASSUME NEW t \in servers PROVE Msg("SERVER", t) \in Line /\ Msg("SERVER", t) \in On
    OBVIOUS
  <2>1. w.dir[s][t] \in {None, Route[s][t]}
    BY <1>1 DEF Good, Routed
  <2>2. Route[s][t] # n
    BY <2>1
  <2> QED BY <2>2, ServerLine
<1>5. B \subseteq Line /\ B \subseteq On
  <2> SUFFICES ASSUME NEW u \in folk PROVE intro(u) \in Line /\ intro(u) \in On
    OBVIOUS
  <2>1. u \in Users /\ Here(w, s, u) /\ w.tab[s][u] \in Client /\ Home[u] \in Servers
    <3>1. u \in Users /\ Here(w, s, u)
      BY DEF Introduced
    <3>2. w.tab \in [Servers -> [Users -> Client]] /\ Home \in [Users -> Servers]
      BY NetAssumption DEF Good, Worlds
    <3> QED BY <1>1, <3>1, <3>2
  <2>2. w.tab[s][u].nick \in NickNames /\ w.tab[s][u].ts \in 0 .. MaxClock
    <3>1. w.tab[s][u].nick \in NickNames
      BY <1>1, <2>1 DEF Good, Named
    <3> QED BY <2>1, <3>1 DEF Client
  <2> QED BY <2>1, <2>2 DEF Line, LineOn
<1>6. IsFiniteSet(A) /\ IsFiniteSet(B)
  <2>1. IsFiniteSet(servers) /\ IsFiniteSet(folk)
    BY NetAssumption, FS_Subset DEF Introduced
  <2> DEFINE f == [t \in servers |-> Msg("SERVER", t)]
             g == [u \in folk |-> intro(u)]
  <2>2. f \in Surjection(servers, A) /\ g \in Surjection(folk, B)
    BY DEF Surjection
  <2>3. IsFiniteSet(A)
    <3> HIDE DEF servers, A, f
    <3> QED BY <2>1, <2>2, FS_Surjection
  <2>4. IsFiniteSet(B)
    <3> HIDE DEF folk, B, g
    <3> QED BY <2>1, <2>2, FS_Surjection
  <2> QED BY <2>3, <2>4
<1> HIDE DEF A, B, On
<1>7. SetToSeq(A) \in Seq(A) /\ SetToSeq(B) \in Seq(B)
  BY <1>6, Listing
<1>8. ms \in Seq(Line) /\ ms \in Seq(On)
  <2>1. SetToSeq(A) \in Seq(Line) /\ SetToSeq(A) \in Seq(On)
    BY <1>4, <1>7
  <2>2. SetToSeq(B) \in Seq(Line) /\ SetToSeq(B) \in Seq(On)
    BY <1>5, <1>7
  <2>3. hello \in Seq(Line) /\ hello \in Seq(On)
    BY DEF On
  <2> QED BY <2>1, <2>2, <2>3
<1> HIDE DEF ms, told
<1>9. Good(sendto_one(told, s, n, ms), L)
  BY <1>3, <1>8, SentOne DEF On
<1> QED BY <1>2, <1>9

\* The users behind a link that breaks leave one after the other.
LEMMA UsersBehind ==
    ASSUME NEW w, NEW L \in SUBSET Users, Good(w, L), NEW s \in Servers, NEW US \in SUBSET Users,
           \A u \in US : Here(w, s, u)
    PROVE  Good(FoldSet(LAMBDA u, v : exit_one_client(v, s, u, {}, FALSE), w, US), L)
<1> DEFINE pick == [T \in SUBSET US |-> CHOOSE x \in T : TRUE]
           A == {v \in Worlds : Good(v, L)}
           W == [T \in SUBSET US |-> {v \in A : \A u \in US \ T : v.tab[s][u] = w.tab[s][u]}]
           leave(v, u) == Quitting(v, s, u, {})
           G == [p \in US \X A |-> leave(p[2], p[1])]
<1>1. IsFiniteSet(US) /\ Picks(pick, US)
  BY FS_Subset, NetAssumption DEF Picks
<1>2. \A T \in SUBSET US : W[T] \subseteq A
  OBVIOUS
<1>3. w \in W[{}]
  BY DEF Good
<1>4. ASSUME NEW T \in SUBSET US, NEW u \in T, NEW v \in W[T \ {u}]
      PROVE  leave(v, u) \in W[T]
  <2> DEFINE x == Quitting(v, s, u, {})
  <2>1. v \in Worlds /\ Good(v, L) /\ u \in Users /\ \A y \in US \ (T \ {u}) : v.tab[s][y] = w.tab[s][y]
    OBVIOUS
  <2>2. Here(v, s, u)
    BY <2>1 DEF Here
  <2>3. Good(x, L) /\ x.tab = [v.tab EXCEPT ![s][u] = Gone]
    BY <2>1, <2>2, Leaves
  <2> HIDE DEF x
  <2>4. v.tab \in [Servers -> [Users -> Client]]
    BY <2>1 DEF Worlds
  <2>5. \A y \in US \ T : x.tab[s][y] = w.tab[s][y]
    BY <2>1, <2>3, <2>4
  <2>6. x \in Worlds
    BY <2>3 DEF Good
  <2> HIDE DEF pick, G
  <2> QED BY <2>3, <2>5, <2>6 DEF x
<1> HIDE DEF leave
<1>5. ASSUME NEW T \in SUBSET US, T # {}, NEW v \in W[T \ {pick[T]}]
      PROVE  G[<<pick[T], v>>] \in W[T] /\ G[<<pick[T], v>>] = leave(v, pick[T])
  <2> DEFINE k == pick[T]
  <2>1. k \in T
    BY <1>1, <1>5 DEF Picks
  <2> HIDE DEF k, pick
  <2>2. <<k, v>> \in US \X A
    BY <2>1 DEF k
  <2> HIDE DEF A
  <2>3. G[<<k, v>>] = leave(v, k)
    BY <2>2
  <2>4. leave(v, k) \in W[T]
    <3> HIDE DEF W, G
    <3> QED BY <1>4, <1>5, <2>1 DEF k
  <2> HIDE DEF G, W
  <2> QED BY <2>3, <2>4 DEF k
<1> HIDE DEF A, W, G
<1>6. PICK g \in [SUBSET US -> A] : Folds(g, US, pick, w, G) /\ \A T \in SUBSET US : g[T] \in W[T]
  <2> HIDE DEF pick
  <2>1. StepsKeep(US, pick, A, W, G)
    BY <1>2, <1>5 DEF StepsKeep
  <2> QED BY <1>1, <1>3, <2>1, FoldStays
<1>7. g = [T \in SUBSET US |-> IF T = {} THEN w
             ELSE leave(g[T \ {CHOOSE x \in T : TRUE}], CHOOSE x \in T : TRUE)]
  <2>1. ASSUME NEW T \in SUBSET US, T # {}
        PROVE  g[T] = leave(g[T \ {pick[T]}], pick[T])
    <3>1. T \ {pick[T]} \in SUBSET US
      OBVIOUS
    <3>2. g[T \ {pick[T]}] \in W[T \ {pick[T]}]
      BY <1>6, <3>1
    <3> HIDE DEF pick
    <3> QED BY <1>5, <1>6, <2>1, <3>2 DEF Folds
  <2>2. \A T \in SUBSET US : pick[T] = CHOOSE x \in T : TRUE
    OBVIOUS
  <2> HIDE DEF pick
  <2>3. \A T \in SUBSET US : g[T] = IF T = {} THEN w ELSE leave(g[T \ {pick[T]}], pick[T])
    BY <1>6, <2>1 DEF Folds
  <2> QED BY <2>2, <2>3
<1>8. PICK h : /\ h = [T \in SUBSET US |-> IF T = {} THEN w
                         ELSE leave(h[T \ {CHOOSE x \in T : TRUE}], CHOOSE x \in T : TRUE)]
               /\ FoldSet(LAMBDA u, v : leave(v, u), w, US) = h[US]
  BY ONLY <1>7, ZenonT(60) DEF FoldSet, MapThenFoldSet
<1>9. h[{}] \in W[{}]
  BY <1>3, <1>8
<1>10. ASSUME NEW T \in SUBSET US, T # {}, h[T \ {pick[T]}] \in W[T \ {pick[T]}]
       PROVE  h[T] \in W[T]
  <2>1. h[T] = leave(h[T \ {pick[T]}], pick[T])
    BY <1>8, <1>10
  <2> HIDE DEF pick
  <2> QED BY <1>5, <1>10, <2>1
<1>11. h[US] \in W[US]
  <2> HIDE DEF pick
  <2> QED BY <1>1, <1>9, <1>10, FoldInduct
<1>12. Good(h[US], L)
  BY <1>2, <1>11 DEF A
<1>13. FoldSet(LAMBDA u, v : exit_one_client(v, s, u, {}, FALSE), w, US)
         = FoldSet(LAMBDA u, v : Quitting(v, s, u, {}), w, US)
  BY Zenon DEF Quitting
<1> QED BY <1>8, <1>12, <1>13 DEF leave

\* The servers behind a link that breaks are given up one after the other.
LEMMA ServersBehind ==
    ASSUME NEW w, NEW L \in SUBSET Users, Good(w, L), NEW s \in Servers, NEW TS \in SUBSET Servers
    PROVE  Good(FoldSet(LAMBDA t, v : sendto_serv_butone([v EXCEPT !.dir[s][t] = None], s, {}, Msg("SQUIT", t)),
                        w, TS), L)
<1> DEFINE step(v, t) == sendto_serv_butone([v EXCEPT !.dir[s][t] = None], s, {}, Msg("SQUIT", t))
           pick == [T \in SUBSET TS |-> CHOOSE x \in T : TRUE]
           A == {v \in Worlds : Good(v, L)}
           W == [T \in SUBSET TS |-> A]
           G == [p \in TS \X A |-> step(p[2], p[1])]
<1>1. IsFiniteSet(TS) /\ Picks(pick, TS)
  BY FS_Subset, NetAssumption DEF Picks
<1>2. \A T \in SUBSET TS : W[T] = A
  OBVIOUS
<1>3. w \in A
  BY DEF Good
<1>4. ASSUME NEW t \in TS, NEW v \in A PROVE step(v, t) \in A
  <2>1. Good(v, L)
    OBVIOUS
  <2>2. Good(step(v, t), L)
    BY <2>1, Squit
  <2> HIDE DEF step
  <2> QED BY <2>2 DEF Good
<1> HIDE DEF step
<1>5. ASSUME NEW T \in SUBSET TS, T # {}, NEW v \in A
      PROVE  G[<<pick[T], v>>] \in A /\ G[<<pick[T], v>>] = step(v, pick[T])
  <2>1. pick[T] \in TS
    BY <1>1, <1>5 DEF Picks
  <2> HIDE DEF pick
  <2>2. G[<<pick[T], v>>] = step(v, pick[T])
    <3> HIDE DEF A
    <3>1. <<pick[T], v>> \in TS \X A
      BY <2>1
    <3> QED BY <3>1
  <2> HIDE DEF A, G
  <2> QED BY <1>4, <2>1, <2>2
<1> HIDE DEF A, W, G
<1>6. PICK g \in [SUBSET TS -> A] : Folds(g, TS, pick, w, G) /\ \A T \in SUBSET TS : g[T] \in W[T]
  <2> HIDE DEF pick
  <2>1. \A T \in SUBSET TS : T \ {pick[T]} \in SUBSET TS
    OBVIOUS
  <2>2. StepsKeep(TS, pick, A, W, G) /\ w \in W[{}]
    BY <1>2, <1>3, <1>5, <2>1 DEF StepsKeep
  <2> QED BY <1>1, <2>2, FoldStays
<1>7. g = [T \in SUBSET TS |-> IF T = {} THEN w
             ELSE step(g[T \ {CHOOSE x \in T : TRUE}], CHOOSE x \in T : TRUE)]
  <2>1. ASSUME NEW T \in SUBSET TS, T # {}
        PROVE  g[T] = step(g[T \ {pick[T]}], pick[T])
    <3>1. g[T \ {pick[T]}] \in A
      OBVIOUS
    <3> HIDE DEF pick
    <3> QED BY <1>5, <1>6, <2>1, <3>1 DEF Folds
  <2>2. \A T \in SUBSET TS : pick[T] = CHOOSE x \in T : TRUE
    OBVIOUS
  <2> HIDE DEF pick
  <2>3. \A T \in SUBSET TS : g[T] = IF T = {} THEN w ELSE step(g[T \ {pick[T]}], pick[T])
    BY <1>6, <2>1 DEF Folds
  <2> QED BY <2>2, <2>3
<1>8. PICK h : /\ h = [T \in SUBSET TS |-> IF T = {} THEN w
                         ELSE step(h[T \ {CHOOSE x \in T : TRUE}], CHOOSE x \in T : TRUE)]
               /\ FoldSet(LAMBDA t, v : step(v, t), w, TS) = h[TS]
  BY <1>7 DEF FoldSet, MapThenFoldSet
<1>9. h[{}] \in W[{}]
  <2>1. h[{}] = w
    BY <1>8
  <2>2. {} \in SUBSET TS
    OBVIOUS
  <2> QED BY <1>2, <1>3, <2>1, <2>2
<1>10. ASSUME NEW T \in SUBSET TS, T # {}, h[T \ {pick[T]}] \in W[T \ {pick[T]}]
       PROVE  h[T] \in W[T]
  <2>1. h[T] = step(h[T \ {pick[T]}], pick[T])
    BY <1>8, <1>10
  <2>2. T \ {pick[T]} \in SUBSET TS
    OBVIOUS
  <2> HIDE DEF pick
  <2> QED BY <1>2, <1>5, <1>10, <2>1, <2>2
<1>11. h[TS] \in W[TS]
  <2> HIDE DEF pick
  <2> QED BY <1>1, <1>9, <1>10, FoldInduct
<1>12. Good(h[TS], L)
  BY <1>2, <1>11 DEF A
<1> QED BY <1>8, <1>12 DEF step

\* exit_link()
LEMMA LinkExits ==
    ASSUME NEW w, NEW L \in SUBSET Users, Good(w, L), NEW s \in Servers, NEW n \in Servers
    PROVE  Good(exit_link(w, s, n), L)
<1> DEFINE shut == [w EXCEPT !.dir[s][n] = None]
           folk == {u \in Users : Here(w, s, u) /\ w.tab[s][u].from = n}
           behind == {t \in Servers \ {n} : w.dir[s][t] = n}
           quits == FoldSet(LAMBDA u, v : exit_one_client(v, s, u, {}, FALSE), shut, folk)
<1>1. exit_link(w, s, n) =
        FoldSet(LAMBDA t, v : sendto_serv_butone([v EXCEPT !.dir[s][t] = None], s, {}, Msg("SQUIT", t)),
                quits, behind \cup {n})
  BY DEF exit_link
<1>2. Good(shut, L) /\ shut.tab = w.tab
  BY Relinked
<1>3. folk \in SUBSET Users /\ behind \cup {n} \in SUBSET Servers
  OBVIOUS
<1> HIDE DEF shut
<1>4. \A u \in folk : Here(shut, s, u)
  BY <1>2 DEF Here
<1> HIDE DEF folk, behind
<1>5. Good(quits, L)
  BY <1>2, <1>3, <1>4, UsersBehind
<1> HIDE DEF quits
<1>6. Good(FoldSet(LAMBDA t, v : sendto_serv_butone([v EXCEPT !.dir[s][t] = None], s, {}, Msg("SQUIT", t)),
                   quits, behind \cup {n}), L)
  BY <1>3, <1>5, ServersBehind
<1> QED BY <1>1, <1>6

\* The world with another line of lines from one server to another.
LEMMA Requeued ==
    ASSUME NEW w, NEW L \in SUBSET Users, Good(w, L), NEW p, NEW l \in Seq(Line), p \in Pairs => l \in Seq(LineOn(p))
    PROVE  Good([w EXCEPT !.q[p] = l], L) /\ [w EXCEPT !.q[p] = l].tab = w.tab
           /\ [w EXCEPT !.q[p] = l].dir = w.dir
<1> DEFINE Q == [w.q EXCEPT ![p] = l]
<1>1. w.q \in [Pairs -> Seq(Line)] /\ \A r \in Pairs : w.q[r] \in Seq(LineOn(r))
  BY DEF Good, Worlds, Lines
<1>2. \A r \in Pairs : Q[r] = IF r = p THEN l ELSE w.q[r]
  BY <1>1
<1>3. Q \in [Pairs -> Seq(Line)]
  BY <1>1
<1>4. \A r \in Pairs : Q[r] \in Seq(LineOn(r))
  <2> HIDE DEF Q
  <2> QED BY <1>1, <1>2
<1>5. [w EXCEPT !.q[p] = l] = [w EXCEPT !.q = Q]
  BY DEF Good, Worlds
<1>6. [w EXCEPT !.q = Q].tab = w.tab /\ [w EXCEPT !.q = Q].dir = w.dir
  BY DEF Good, Worlds
<1> HIDE DEF Q
<1>7. Good([w EXCEPT !.q = Q], L)
  BY <1>3, <1>4, OtherLines
<1> QED BY <1>5, <1>6, <1>7

\* Every line is handled so that the world stays Good.
LEMMA Handled ==
    ASSUME NEW w, NEW L \in SUBSET Users, Good(w, L), NEW s, NEW n, <<n, s>> \in Pairs, <<s, n>> \in Pairs,
           NEW m \in LineOn(<<n, s>>),
           m.kind = "NICK" /\ n \in Linked(w, s) =>
              (w.dir[s][m.server] = n /\ Here(w, s, m.user) => w.tab[s][m.user].nick = m.nick)
    PROVE  Good(handle(w, s, n, m), L)
<1> DEFINE name == IF m.kind = "CHANGE" THEN m.old ELSE m.nick
           u == find_client(w, s, name)
           open == n \in Linked(w, s)
           end == exit_link(w, s, n)
           v == handle(w, s, n, m)
<1>1. s \in Servers /\ n \in Servers /\ n # s /\ Route[s][n] = n
  BY Ends
<1>2. /\ m \in Line /\ m.kind \in {"HELLO", "SERVER", "SQUIT", "QUIT", "KILL", "EOF", "CHANGE", "NICK"}
      /\ m.kind \in {"SERVER", "SQUIT"} => m.nick \in Servers
      /\ m.kind \in {"QUIT", "KILL", "NICK", "CHANGE"} => m.nick \in NickNames
      /\ m.kind = "CHANGE" => m.old \in NickNames
      /\ m.kind = "SERVER" => Route[n][m.nick] # s
  BY DEF LineOn, Line
<1>3. u # None => u \in Users /\ Here(w, s, u) /\ w.tab[s][u].nick = name
  BY FoundIs
<1>4. CASE m.kind = "HELLO"
  <2>1. v = m_server_estab(w, s, n, <<>>)
    BY <1>4 DEF handle
  <2>2. <<>> \in Seq(Line) /\ <<>> \in Seq(LineOn(<<s, n>>))
    OBVIOUS
  <2> HIDE DEF v
  <2>3. Good(m_server_estab(w, s, n, <<>>), L)
    BY <2>2, Established
  <2> QED BY <2>1, <2>3 DEF v
<1>5. CASE m.kind # "HELLO" /\ ~open
  BY <1>5 DEF handle
<1>6. CASE m.kind = "SERVER" /\ open
  <2>1. v = m_server(w, s, n, m.nick)
    BY <1>6 DEF handle
  <2>2. Route[s][m.nick] = n
    BY <1>2, <1>6, Ends
  <2>3. Good(m_server(w, s, n, m.nick), L)
    BY <1>1, <1>2, <1>6, <2>2, Server DEF m_server
  <2> QED BY <2>1, <2>3
<1>7. CASE m.kind = "NICK" /\ open
  <2>1. v = m_nick_new(w, s, n, m)
    BY <1>7 DEF handle
  <2>2. Good(m_nick_new(w, s, n, m), L)
    BY <1>7, Introduces
  <2> QED BY <2>1, <2>2
<1>8. CASE m.kind = "KILL" /\ open
  <2>1. v = m_kill(w, s, n, m.nick)
    BY <1>8 DEF handle
  <2>2. Good(m_kill(w, s, n, m.nick), L)
    BY <1>2, <1>8, KillLine
  <2> QED BY <2>1, <2>2
<1>9. CASE m.kind = "SQUIT" /\ open
  <2>1. v = m_squit(w, s, n, m.nick)
    BY <1>9 DEF handle
  <2>2. Good(sendto_serv_butone([w EXCEPT !.dir[s][m.nick] = None], s, {n}, Msg("SQUIT", m.nick)), L)
    BY <1>1, <1>2, <1>9, Squit
  <2> QED BY <2>1, <2>2 DEF m_squit
<1>10. CASE m.kind = "EOF" /\ open
  <2>1. v = [end EXCEPT !.q[<<s, n>>] = <<>>]
    BY <1>10 DEF handle
  <2>2. Good(end, L)
    BY <1>1, LinkExits
  <2> HIDE DEF end, v
  <2>3. <<>> \in Seq(Line) /\ <<>> \in Seq(LineOn(<<s, n>>))
    OBVIOUS
  <2>4. Good([end EXCEPT !.q[<<s, n>>] = <<>>], L)
    BY <2>2, <2>3, Requeued
  <2> QED BY <2>1, <2>4 DEF v
<1>11. CASE m.kind \in {"CHANGE", "QUIT"} /\ open /\ u = None
  <2> DEFINE k == Msg("KILL", name)
  <2>1. v = sendto_one(w, s, n, <<k>>)
    BY <1>11 DEF handle
  <2>2. k \in Line /\ k \in LineOn(<<s, n>>)
    BY <1>2, <1>11 DEF Msg, Line, LineOn
  <2> HIDE DEF k, v
  <2>3. <<k>> \in Seq(Line) /\ <<k>> \in Seq(LineOn(<<s, n>>))
    BY <2>2
  <2>4. Good(sendto_one(w, s, n, <<k>>), L)
    BY <2>3, SentOne
  <2> QED BY <2>1, <2>4 DEF v
<1>12. CASE m.kind \in {"CHANGE", "QUIT"} /\ open /\ u # None /\ w.tab[s][u].from # n
  <2>1. v = w
    BY <1>12 DEF handle
  <2> QED BY <2>1
<1>13. CASE m.kind = "CHANGE" /\ open /\ u # None /\ w.tab[s][u].from = n
  <2>1. v = m_nick_change(w, s, n, u, m)
    BY <1>13 DEF handle
  <2>2. u \in Users /\ Here(w, s, u) /\ w.tab[s][u].nick = m.old
    BY <1>3, <1>13
  <2> HIDE DEF u, v
  <2>3. Good(m_nick_change(w, s, n, u, m), L)
    BY <1>13, <2>2, Changes
  <2> QED BY <2>1, <2>3 DEF v, u
<1>14. CASE m.kind = "QUIT" /\ open /\ u # None /\ w.tab[s][u].from = n
  <2>1. v = Quitting(w, s, u, {n})
    BY <1>14 DEF handle, Quitting
  <2> HIDE DEF u, v
  <2>2. Good(Quitting(w, s, u, {n}), L)
    BY <1>1, <1>3, <1>14, Leaves
  <2> QED BY <2>1, <2>2 DEF v, u
<1>15. Good(handle(w, s, n, m), L)
  <2> DEFINE mine == w.tab[s][u].from = n
             none == u = None
  <2>1. m.kind \in {"HELLO", "SERVER", "SQUIT", "QUIT", "KILL", "EOF", "CHANGE", "NICK"}
    BY <1>2
  <2>2. m.kind \in {"CHANGE", "QUIT"} /\ open => Good(handle(w, s, n, m), L)
    <3>1. m.kind \in {"CHANGE", "QUIT"} /\ open /\ (none \/ ~mine) => Good(handle(w, s, n, m), L)
      BY <1>11, <1>12
    <3>2. m.kind = "CHANGE" /\ open /\ ~none /\ mine => Good(handle(w, s, n, m), L)
      BY <1>13
    <3>3. m.kind = "QUIT" /\ open /\ ~none /\ mine => Good(handle(w, s, n, m), L)
      BY <1>14
    <3> HIDE DEF open, mine, none
    <3> QED BY <3>1, <3>2, <3>3
  <2> HIDE DEF open
  <2> QED BY <2>1, <2>2, <1>4, <1>5, <1>6, <1>7, <1>8, <1>9, <1>10
<1> QED BY <1>15
-----------------------------------------------------------------------------
Lefts == [events : 0 .. MaxEvents, users : SUBSET Users, calm : BOOLEAN]

\* The inductive invariant.
NetInv == Good(World, left.users) /\ clock \in 0 .. MaxClock /\ left \in Lefts

\* What a Good world says of the state.
LEMMA NetSafe ==
    ASSUME NetInv
    PROVE  NetTypeOK /\ OneNick /\ WhowasLive /\ WatchTrue
<1>1. /\ World.tab = tab /\ World.dir = dir /\ World.was = was /\ World.q = q /\ World.watch = watch
  BY DEF World
<1>2. /\ World \in Worlds /\ Alone(World) /\ Points(World) /\ Lists(World)
  BY DEF NetInv, Good
<1>3. NetTypeOK
  BY <1>1, <1>2 DEF NetInv, NetTypeOK, Worlds, Points, Lefts
<1>4. OneNick
  BY <1>1, <1>2 DEF OneNick, Alone
<1>5. WhowasLive
  BY <1>1, <1>2, PersonHere DEF WhowasLive, Points
<1>6. WatchTrue
  BY <1>1, <1>2 DEF WatchTrue, Lists
<1> QED BY <1>3, <1>4, <1>5, <1>6

\* The world that a handler leaves is the next one.
LEMMA Becoming ==
    ASSUME NEW w, NEW L, Good(w, L), Becomes(w)
    PROVE  World' = w
<1>1. w = [tab |-> w.tab, dir |-> w.dir, was |-> w.was, q |-> w.q, watch |-> w.watch]
  BY DEF Good, Worlds
<1> QED BY <1>1 DEF Becomes, World

\* Fewer users who have not connected.
LEMMA Fewer ==
    ASSUME NEW w, NEW L, NEW M \in SUBSET L, Good(w, L)
    PROVE  Good(w, M)
BY DEF Good

\* Initially the invariant holds.
LEMMA NetInitially ==
    NetInit => NetInv
<1> SUFFICES ASSUME NetInit PROVE NetInv
  OBVIOUS
<1>0. /\ World.tab = tab /\ World.dir = dir /\ World.was = was /\ World.q = q /\ World.watch = watch
  BY DEF World
<1>1. MaxClock \in Nat /\ MaxEvents \in Nat /\ MaxWatch \in Nat /\ History \in Nat /\ 1 \in 0 .. MaxClock
  <2>1. MaxClock \in Nat /\ MaxEvents \in Nat /\ MaxWatch \in Nat /\ History \in Nat /\ MaxClock > 0
    BY NetAssumption
  <2> QED BY <2>1
<1>2. Gone \in Client
  BY <1>1 DEF Gone, Client
<1>3. tab \in [Servers -> [Users -> Client]] /\ \A s \in Servers, u \in Users : tab[s][u] = Gone
  BY <1>2 DEF NetInit
<1>4. dir \in [Servers -> [Servers -> Servers \cup {None}]] /\ \A s, t \in Servers : dir[s][t] = Route[s][t]
  <2>1. Route \in [Servers -> [Servers -> Servers]] /\ dir = Route
    BY NetAssumption DEF NetInit
  <2> QED BY <2>1
<1>5. was \in [Servers -> Seq(Past)] /\ \A s \in Servers : was[s] = <<>>
  <2>1. <<>> \in Seq(Past)
    OBVIOUS
  <2> QED BY <2>1 DEF NetInit
<1>6. q \in [Pairs -> Seq(Line)] /\ \A p \in Pairs : q[p] \in Seq(LineOn(p))
  <2>1. <<>> \in Seq(Line) /\ \A p \in Pairs : <<>> \in Seq(LineOn(p))
    OBVIOUS
  <2>2. q = [p \in Pairs |-> <<>>]
    BY DEF NetInit
  <2>3. \A p \in Pairs : q[p] = <<>>
    BY <2>2
  <2>4. q \in [Pairs -> Seq(Line)]
    BY <2>1, <2>2
  <2> QED BY <2>1, <2>3, <2>4
<1>7. watch \in [Users -> [NickNames -> {"", "on", "off"}]] /\ \A u \in Users, k \in NickNames : watch[u][k] = ""
  BY DEF NetInit
<1>8. World \in Worlds
  BY <1>3, <1>4, <1>5, <1>6, <1>7 DEF World, Worlds
<1>9. \A s \in Servers, u \in Users : ~Here(World, s, u)
  BY <1>0, <1>3 DEF Here
<1>10. \A u \in Users : Home[u] \in Servers
  BY NetAssumption
<1>11. Named(World) /\ AtHome(World) /\ Alone(World)
  BY <1>9, <1>10 DEF Named, AtHome, Alone
<1>12. Points(World) /\ Routed(World) /\ Lines(World)
  BY <1>0, <1>1, <1>4, <1>5, <1>6 DEF Points, Routed, Lines
<1>13. Lists(World)
  <2>1. \A u \in Users : Watched(World, u) = {}
    BY <1>0, <1>7 DEF Watched
  <2>2. Cardinality({}) = 0
    BY FS_EmptySet
  <2> QED BY <1>1, <2>1, <2>2 DEF Lists
<1>14. left \in Lefts /\ left.users = Users /\ clock = 1
  <2>1. left = [events |-> MaxEvents, users |-> Users, calm |-> TRUE] /\ clock = 1
    BY DEF NetInit
  <2>2. MaxEvents \in 0 .. MaxEvents /\ Users \in SUBSET Users
    BY <1>1
  <2> QED BY <2>1, <2>2 DEF Lefts
<1> QED BY <1>1, <1>8, <1>9, <1>10, <1>11, <1>12, <1>13, <1>14 DEF NetInv, Good

\* Who has the nick without being registered has to go.
LEMMA Vacated ==
    ASSUME NEW L \in SUBSET Users, Good(World, L), NEW s \in Servers, NEW nick,
           NEW v, v = find_client(World, s, nick),
           NEW w, w = IF v = None THEN World ELSE Dropped(World, s, v, {})
    PROVE  /\ Good(w, L) /\ \A x \in Users : Here(w, s, x) => w.tab[s][x].nick # nick
           /\ \A x \in Users \ {v} : w.tab[s][x] = tab[s][x]
<1>0. World.tab = tab
  BY DEF World
<1>1. /\ v = None => \A x \in Users : ~(Here(World, s, x) /\ tab[s][x].nick = nick)
      /\ v # None => v \in Users /\ Here(World, s, v) /\ tab[s][v].nick = nick
  BY <1>0, FoundIs
<1>2. CASE v = None
  BY <1>0, <1>1, <1>2
<1>3. CASE v # None
  <2>1. Good(w, L) /\ w.tab = [tab EXCEPT ![s][v] = Gone]
    BY <1>0, <1>1, <1>3, Leaves
  <2>2. tab \in [Servers -> [Users -> Client]]
    BY <1>0 DEF Good, Worlds
  <2> DEFINE T == [tab EXCEPT ![s][v] = Gone]
  <2>8. \A x \in Users : T[s][x] = IF x = v THEN Gone ELSE tab[s][x]
    BY <2>2
  <2>9. w.tab = T
    BY <2>1
  <2> HIDE DEF T
  <2>3. \A x \in Users : w.tab[s][x] = IF x = v THEN Gone ELSE tab[s][x]
    BY <2>8, <2>9
  <2>4. \A x \in Users : Here(w, s, x) => x # v /\ Here(World, s, x) /\ w.tab[s][x] = tab[s][x]
    BY <1>0, <2>3 DEF Here
  <2>5. \A x \in Users : Here(w, s, x) => w.tab[s][x].nick # nick
    BY <1>0, <1>1, <1>3, <2>4 DEF Good, Alone
  <2> QED BY <2>1, <2>3, <2>5
<1> QED BY <1>2, <1>3

\* What a step of the model asks of the world it leaves.
LEMMA Stepped ==
    ASSUME NetInv, NEW w, NEW M \in SUBSET left.users, Good(w, M), Becomes(w),
           left' \in Lefts, left'.users = M, clock' = clock
    PROVE  NetInv'
<1>1. World' = w
  BY Becoming
<1> QED BY <1>1 DEF NetInv

\* What is left after a change, a split or a KILL, and after the other steps.
LEMMA Spent ==
    ASSUME NetInv, NEW e \in 0 .. MaxEvents
    PROVE  /\ [left EXCEPT !.calm = Calm] \in Lefts /\ [left EXCEPT !.calm = Calm].users = left.users
           /\ [left EXCEPT !.events = e, !.calm = Calm] \in Lefts
           /\ [left EXCEPT !.events = e, !.calm = Calm].users = left.users
<1>1. Calm \in BOOLEAN
  BY DEF Calm
<1>2. left \in Lefts
  BY DEF NetInv
<1> QED BY <1>1, <1>2 DEF Lefts

LEMMA OneLess ==
    ASSUME NetInv, left.events > 0
    PROVE  left.events - 1 \in 0 .. MaxEvents
<1>1. left.events \in 0 .. MaxEvents
  BY DEF NetInv, Lefts
<1>2. MaxEvents \in Nat
  BY NetAssumption
<1> QED BY <1>1, <1>2

LEMMA Known ==
    ASSUME NetInv
    PROVE  /\ World.tab = tab /\ World.dir = dir /\ World.was = was /\ World.q = q /\ World.watch = watch
           /\ Good(World, left.users) /\ left.users \in SUBSET Users /\ left \in Lefts
           /\ clock \in 0 .. MaxClock /\ 0 \in 0 .. MaxEvents /\ MaxClock \in Nat /\ MaxEvents \in Nat
           /\ tab \in [Servers -> [Users -> Client]]
           /\ q \in [Pairs -> Seq(Line)] /\ \A p \in Pairs : q[p] \in Seq(LineOn(p))
           /\ \A u \in Users : Home[u] \in Servers
<1>1. World.tab = tab /\ World.dir = dir /\ World.was = was /\ World.q = q /\ World.watch = watch
  BY DEF World
<1>2. World \in Worlds /\ Lines(World)
  BY DEF NetInv, Good
<1>3. left.users \in SUBSET Users
  BY DEF NetInv, Lefts
<1>4. MaxClock \in Nat /\ MaxEvents \in Nat
  BY NetAssumption
<1>5. \A u \in Users : Home[u] \in Servers
  BY NetAssumption
<1>6. tab \in [Servers -> [Users -> Client]] /\ q \in [Pairs -> Seq(Line)]
  BY <1>1, <1>2 DEF Worlds
<1>7. \A p \in Pairs : q[p] \in Seq(LineOn(p))
  BY <1>1, <1>2 DEF Lines
<1>8. 0 \in 0 .. MaxEvents
  BY <1>4
<1>9. Good(World, left.users) /\ clock \in 0 .. MaxClock /\ left \in Lefts
  BY DEF NetInv
<1> QED BY <1>1, <1>3, <1>4, <1>5, <1>6, <1>7, <1>8, <1>9

LEMMA Connects ==
    ASSUME NetInv, NEW u \in Users, NEW nick \in NickNames, Connect(u, nick)
    PROVE  NetInv'
<1> DEFINE s == Home[u]
           v == find_client(World, s, nick)
           w == IF v = None THEN World ELSE Dropped(World, s, v, {})
           rec == [nick |-> nick, ts |-> clock, from |-> s, person |-> FALSE]
           z == [w EXCEPT !.tab[s][u] = rec]
           M == left.users \ {u}
<1>1. u \in left.users /\ Becomes(z) /\ left' = [left EXCEPT !.users = M] /\ clock' = clock
  BY ZenonT(60) DEF Connect, Dropped
<1>2. s \in Servers /\ ~Here(World, s, u)
  BY <1>1, Known DEF Good
<1>3. v = None \/ v # u
  BY <1>2, FoundIs
<1>4. /\ Good(w, left.users) /\ \A x \in Users : Here(w, s, x) => w.tab[s][x].nick # nick
      /\ \A x \in Users \ {v} : w.tab[s][x] = tab[s][x]
  BY <1>2, Known, Vacated
<1>5. rec \in Client /\ rec.nick = nick /\ ~rec.person /\ rec.from = s
  BY <1>2, Known DEF Client
<1>6. ~w.tab[s][u].person
  <2>1. v = None => w.tab[s][u] = tab[s][u]
    BY Known
  <2>2. w.tab[s][u] = tab[s][u]
    BY <1>3, <1>4, <2>1
  <2>3. tab[s][u] = Gone /\ ~Gone.person
    BY <1>2, Known DEF Here, Gone
  <2> QED BY <2>2, <2>3
<1>7. M \in SUBSET left.users /\ M \in SUBSET Users /\ u \notin M
  BY Known
<1> HIDE DEF w, rec, s, v, M
<1>8. Good(w, M)
  BY <1>4, <1>7, Fewer
<1>9. Good(z, M)
  <2>1. \A x \in Users \ {u} : Here(w, s, x) => w.tab[s][x].nick # rec.nick
    BY <1>4, <1>5
  <2> QED BY <1>2, <1>5, <1>6, <1>7, <1>8, <2>1, Connected
<1>10. left' \in Lefts /\ left'.users = M
  BY <1>1, <1>7, Known DEF Lefts
<1> HIDE DEF z
<1> QED BY <1>1, <1>7, <1>9, <1>10, Stepped

LEMMA RegistersStep ==
    ASSUME NetInv, NEW u \in Users, Registers(u)
    PROVE  NetInv'
<1> DEFINE s == Home[u]
           me == tab[s][u]
           rec == [me EXCEPT !.person = TRUE]
           m == [kind |-> "NICK", nick |-> me.nick, ts |-> me.ts, user |-> u, server |-> s]
           seen == hash_check_watch([World EXCEPT !.tab[s][u] = rec], s, me.nick, "on")
           z == sendto_serv_butone(seen, s, {}, m)
<1>1. s \in Servers /\ me \in Client
  BY Known
<1>2. [World EXCEPT !.tab[s][u].person = TRUE] = [World EXCEPT !.tab[s][u] = rec]
  BY Known
<1>3. Here(World, s, u) /\ ~me.person /\ Becomes(z) /\ left' = left /\ clock' = clock
  BY <1>2 DEF Registers
<1>4. rec \in Client /\ rec.nick = me.nick /\ rec.person /\ rec.from = me.from
  BY <1>1 DEF Client
<1>5. me.nick \in NickNames /\ me.from = s /\ u \notin left.users
  BY <1>1, <1>3, Known DEF Good, Named, AtHome
<1>6. \A x \in Users \ {u} : Here(World, s, x) => World.tab[s][x].nick # rec.nick
  BY <1>1, <1>3, <1>4, Known DEF Good, Alone
<1>7. Good(seen, left.users)
  <2> HIDE DEF rec
  <2>1. ~World.tab[s][u].person /\ (Home[u] = s => rec.from = s /\ u \notin left.users)
    BY <1>3, <1>4, <1>5, Known
  <2>2. Good(hash_check_watch([World EXCEPT !.tab[s][u] = rec], s, rec.nick, "on"), left.users)
    BY <1>1, <1>4, <1>5, <1>6, <2>1, Known, Seated
  <2> QED BY <1>4, <2>2
<1>8. m \in Line /\ \A p \in Pairs : m \in LineOn(p)
  <2>1. m \in Line
    BY <1>1, <1>5 DEF Line, Client
  <2> QED BY <2>1 DEF LineOn
<1> HIDE DEF seen, m, s, me
<1>9. Good(z, left.users)
  BY <1>1, <1>7, <1>8, Known, Sent
<1> HIDE DEF z
<1> QED BY <1>3, <1>9, Known, Stepped

LEMMA ChangeStep ==
    ASSUME NetInv, NEW u \in Users, NEW nick \in NickNames, Change(u, nick)
    PROVE  NetInv'
<1> DEFINE s == Home[u]
           v == find_client(World, s, nick)
           w == IF v = None THEN World ELSE Dropped(World, s, v, {})
           z == rename(w, s, u, {}, nick, clock)
           e == left.events - 1
<1>1. /\ left.events > 0 /\ tab[s][u].person /\ v # u /\ Becomes(z) /\ clock' = clock
      /\ left' = [left EXCEPT !.events = e, !.calm = Calm]
  BY ZenonT(60) DEF Change, Dropped
<1>2. s \in Servers
  BY Known
<1>3. /\ Good(w, left.users) /\ \A x \in Users : Here(w, s, x) => w.tab[s][x].nick # nick
      /\ \A x \in Users \ {v} : w.tab[s][x] = tab[s][x]
  BY <1>2, Known, Vacated
<1>4. w.tab[s][u].person
  BY <1>1, <1>3
<1>5. left' \in Lefts /\ left'.users = left.users
  BY <1>1, OneLess, Spent
<1> HIDE DEF w, s, v, e
<1>6. Good(z, left.users)
  BY <1>2, <1>3, <1>4, Known, Renamed
<1> HIDE DEF z
<1> QED BY <1>1, <1>5, <1>6, Known, Stepped

LEMMA QuitsStep ==
    ASSUME NetInv, NEW u \in Users, Quits(u)
    PROVE  NetInv'
<1> DEFINE z == Quitting(World, Home[u], u, {})
<1>1. Here(World, Home[u], u) /\ Becomes(z) /\ left' = [left EXCEPT !.calm = Calm] /\ clock' = clock
  BY Zenon DEF Quits, Quitting
<1>2. Good(z, left.users)
  BY <1>1, Known, Leaves
<1>3. left' \in Lefts /\ left'.users = left.users
  <2>1. 0 \in 0 .. MaxEvents
    BY Known
  <2> QED BY <1>1, <2>1, Spent
<1> HIDE DEF z
<1> QED BY <1>1, <1>2, <1>3, Known, Stepped

LEMMA WatchStep ==
    ASSUME NetInv, NEW u \in Users, NEW nick \in NickNames, NEW nicks,
           Watch(u, nick) \/ Unwatch(u, nicks)
    PROVE  NetInv'
<1>1. CASE Watch(u, nick)
  <2> DEFINE z == watch_add(World, Home[u], u, nick)
  <2>1. tab[Home[u]][u].person /\ Becomes(z) /\ left' = left /\ clock' = clock
    BY <1>1 DEF Watch
  <2>2. Good(z, left.users)
    BY <2>1, Known, Listed
  <2> HIDE DEF z
  <2> QED BY <2>1, <2>2, Known, Stepped
<1>2. CASE Unwatch(u, nicks)
  <2> DEFINE z == del_from_watch(World, u, nicks)
  <2>1. Becomes(z) /\ left' = left /\ clock' = clock
    BY <1>2 DEF Unwatch
  <2>2. Good(z, left.users)
    BY Known, Unlisted
  <2> HIDE DEF z
  <2> QED BY <2>1, <2>2, Known, Stepped
<1> QED BY <1>1, <1>2

LEMMA KillStep ==
    ASSUME NetInv, NEW s \in Servers, NEW nick \in NickNames, Kill(s, nick)
    PROVE  NetInv'
<1> DEFINE v == find_client(World, s, nick)
           u == IF v # None THEN v ELSE get_history(World, s, nick)
           z == IF tab[s][u].from = s THEN Quitting(World, s, u, {}) ELSE kill_client(World, s, u, {})
           e == left.events - 1
<1>1. /\ left.events > 0 /\ u # None /\ Becomes(z) /\ clock' = clock
      /\ left' = [left EXCEPT !.events = e, !.calm = Calm]
  BY ZenonT(60) DEF Kill, Quitting
<1>2. u \in Users /\ Here(World, s, u)
  <2>1. CASE v # None
    BY <2>1, FoundIs
  <2>2. CASE v = None
    BY <1>1, <2>2, Known, Chased
  <2> QED BY <2>1, <2>2
<1>3. left' \in Lefts /\ left'.users = left.users
  BY <1>1, OneLess, Spent
<1> HIDE DEF u, v, e
<1>4. Good(z, left.users)
  BY <1>2, Known, Leaves, Kills
<1> HIDE DEF z
<1> QED BY <1>1, <1>3, <1>4, Known, Stepped

LEMMA SplitStep ==
    ASSUME NetInv, NEW s \in Servers, NEW n \in Servers, Split(s, n)
    PROVE  NetInv'
<1> DEFINE end == exit_link(World, s, n)
           cut == [end EXCEPT !.q[<<n, s>>] = <<>>]
           last == Msg("EOF", "")
           eof == <<last>>
           z == sendto_one(cut, s, n, eof)
           e == left.events - 1
<1>1. /\ left.events > 0 /\ Becomes(z) /\ clock' = clock
      /\ left' = [left EXCEPT !.events = e, !.calm = Calm]
  BY Zenon DEF Split
<1>2. Good(end, left.users)
  BY Known, LinkExits
<1>3. Good(cut, left.users)
  <2> HIDE DEF end
  <2>1. <<>> \in Seq(Line) /\ <<>> \in Seq(LineOn(<<n, s>>))
    OBVIOUS
  <2> QED BY <1>2, <2>1, Known, Requeued
<1>4. eof \in Seq(Line) /\ eof \in Seq(LineOn(<<s, n>>))
  <2>1. last \in Line /\ last \in LineOn(<<s, n>>)
    BY DEF Msg, Line, LineOn
  <2> HIDE DEF last
  <2> QED BY <2>1
<1>5. left' \in Lefts /\ left'.users = left.users
  BY <1>1, OneLess, Spent
<1> HIDE DEF cut, eof
<1>6. Good(z, left.users)
  BY <1>3, <1>4, Known, SentOne
<1> HIDE DEF z
<1> QED BY <1>1, <1>5, <1>6, Known, Stepped

LEMMA LinkStep ==
    ASSUME NetInv, NEW s \in Servers, NEW n \in Servers, Link(s, n)
    PROVE  NetInv'
<1> DEFINE hello == <<Msg("HELLO", s)>>
           z == m_server_estab(World, s, n, hello)
<1>1. <<s, n>> \in Pairs /\ Becomes(z) /\ left' = [left EXCEPT !.calm = Calm] /\ clock' = clock
  BY Zenon DEF Link
<1>2. hello \in Seq(Line) /\ hello \in Seq(LineOn(<<s, n>>))
  <2>1. Msg("HELLO", s) \in Line /\ Msg("HELLO", s) \in LineOn(<<s, n>>)
    BY DEF Msg, Line, LineOn
  <2> QED BY <2>1
<1> HIDE DEF hello
<1>3. Good(z, left.users)
  BY <1>1, <1>2, Known, Established
<1>4. left' \in Lefts /\ left'.users = left.users
  <2>1. 0 \in 0 .. MaxEvents
    BY Known
  <2> QED BY <1>1, <2>1, Spent
<1> HIDE DEF z
<1> QED BY <1>1, <1>3, <1>4, Known, Stepped

LEMMA ReceiveStep ==
    ASSUME NetInv, NEW s \in Servers, NEW n \in Servers, Receive(n, s)
    PROVE  NetInv'
<1> DEFINE p == <<n, s>>
           m == Head(q[p])
           w == [World EXCEPT !.q[p] = Tail(q[p])]
           z == handle(w, s, n, m)
<1>1. [World EXCEPT !.q[p] = Tail(@)] = w
  BY Known
<1>2. p \in Pairs /\ q[p] # <<>> /\ ~Again(s, n, m) /\ Becomes(z) /\ left' = left /\ clock' = clock
  <2> HIDE DEF z
  <2>1. z = handle([World EXCEPT !.q[p] = Tail(@)], s, n, m)
    BY <1>1 DEF z
  <2> QED BY <2>1, Zenon DEF Receive
<1>3. <<s, n>> \in Pairs
  <2>1. {s, n} = {n, s}
    OBVIOUS
  <2> QED BY <1>2, <2>1 DEF Pairs
<1>4. m \in LineOn(p) /\ Tail(q[p]) \in Seq(Line) /\ Tail(q[p]) \in Seq(LineOn(p))
  BY <1>2, Known
<1>5. Good(w, left.users) /\ w.tab = tab /\ w.dir = dir
  <2> DEFINE l == Tail(q[p])
  <2>1. l \in Seq(Line) /\ l \in Seq(LineOn(p))
    BY <1>4
  <2> HIDE DEF l, p
  <2> DEFINE W == World
  <2>2. W \in Worlds /\ Good(W, left.users) /\ W.tab = tab /\ W.dir = dir
    BY Known DEF Good
  <2> HIDE DEF W
  <2>3. Good([W EXCEPT !.q[p] = l], left.users)
    BY <2>1, <2>2, Known, Requeued
  <2>4. [W EXCEPT !.q[p] = l].tab = tab /\ [W EXCEPT !.q[p] = l].dir = dir
    BY <2>2 DEF Worlds
  <2> QED BY <2>3, <2>4 DEF W, l, p
<1> HIDE DEF w
<1>6. m.kind = "NICK" /\ n \in Linked(w, s) =>
         (w.dir[s][m.server] = n /\ Here(w, s, m.user) => w.tab[s][m.user].nick = m.nick)
  <2>1. Linked(w, s) = Linked(World, s) /\ (Here(w, s, m.user) <=> Here(World, s, m.user))
    BY <1>5, Known DEF Linked, Here
  <2> QED BY <1>2, <1>5, <2>1 DEF Again
<1> HIDE DEF m
<1>7. Good(z, left.users)
  BY <1>2, <1>3, <1>4, <1>5, <1>6, Known, Handled
<1> HIDE DEF z
<1> QED BY <1>2, <1>7, Known, Stepped

LEMMA NetStep ==
    NetInv /\ [NetNext]_netVars => NetInv'
<1> SUFFICES ASSUME NetInv, [NetNext]_netVars PROVE NetInv'
  OBVIOUS
<1>1. CASE ClockTick
  <2>1. clock + 1 \in 0 .. MaxClock
    BY <1>1, Known DEF ClockTick
  <2>2. World' = World
    BY <1>1 DEF ClockTick, World
  <2> QED BY <1>1, <2>1, <2>2 DEF ClockTick, NetInv
<1>2. CASE \E u \in Users : Registers(u) \/ Quits(u) \/ \E k \in NickNames : Connect(u, k) \/ Change(u, k)
  BY <1>2, RegistersStep, QuitsStep, Connects, ChangeStep
<1>3. CASE \E s \in Servers, k \in NickNames : Kill(s, k)
  BY <1>3, KillStep
<1>4. CASE \E u \in Users, k \in NickNames : Watch(u, k) \/ Unwatch(u, {k}) \/ Unwatch(u, NickNames)
  BY <1>4, WatchStep
<1>5. CASE \E s, n \in Servers : Split(s, n) \/ Link(s, n) \/ Receive(n, s)
  BY <1>5, SplitStep, LinkStep, ReceiveStep
<1>6. CASE UNCHANGED netVars
  <2>1. World' = World /\ left' = left /\ clock' = clock
    BY <1>6 DEF netVars, World
  <2> QED BY <2>1 DEF NetInv
<1> QED BY <1>1, <1>2, <1>3, <1>4, <1>5, <1>6 DEF NetNext

\* The types of the network, for any servers in a tree, users, nicks and events.
THEOREM NetTypes ==
    NetSpec => []NetTypeOK
<1>1. NetInv => NetTypeOK
  BY NetSafe
<1> QED BY <1>1, NetInitially, NetStep, PTL DEF NetSpec

\* No two clients of a server have the same nick: what m_nick() does before it
\* seats or renames somebody clears the nick in every case, as do a collision
\* that removes both and the new nick of a user who is here.
THEOREM NetOneNick ==
    NetSpec => []OneNick
<1>1. NetInv => OneNick
  BY NetSafe
<1> QED BY <1>1, NetInitially, NetStep, PTL DEF NetSpec

\* The nick history of a server never points to a client that has left, so a
\* KILL that chases a nick finds somebody who is there: only those who have
\* registered are noted with themselves, and exit_one_client() takes them off.
THEOREM NetWhowasLive ==
    NetSpec => []WhowasLive
<1>1. NetInv => WhowasLive
  BY NetSafe
<1> QED BY <1>1, NetInitially, NetStep, PTL DEF NetSpec

\* A watcher was told the truth of every nick on their list, through quits,
\* changes, collisions, KILLs and splits; the list keeps its bound and its owner.
THEOREM NetWatchTrue ==
    NetSpec => []WatchTrue
<1>1. NetInv => WatchTrue
  BY NetSafe
<1> QED BY <1>1, NetInitially, NetStep, PTL DEF NetSpec
=============================================================================
